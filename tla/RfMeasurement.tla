---------------------------- MODULE RfMeasurement -----------------------------
(***************************************************************************)
(* How a test script judges the DUT's emissions: AFCBaseScript.py asks the *)
(* driver of SpectrumAnalyzer to analyse the channel the DUT reports, or   *)
(* to sweep the band while the DUT must stay quiet, and                    *)
(* rf_measurement_validation.py compares the reports with the response     *)
(* that was sent.                                                          *)
(***************************************************************************)
EXTENDS SpectrumAnalyzer

CONSTANTS
  Mask,       \* the grants: functions from 20 MHz channels to maxPsd
  Operation,  \* the channels and widths the DUT may report to operate on
  Mode        \* what the script judges: some of Modes and Sweep

ASSUME RfAssumption ==
  /\ \A m \in Mask : DOMAIN m \subseteq Cfi[20] /\ \A ch \in DOMAIN m : m[ch] \in Int
  /\ \A op \in Operation : op.channel \in Nat /\ op.bw \in Width
  /\ Mode \subseteq {"freq", "chan", "both", "lpi", "sp", "fc"}
-----------------------------------------------------------------------------
(* The limits of the response. *)

\* The lists of get_cfi_from_op_channel go beyond the channels granted.
OperatingCfi(bw) ==
  CASE bw = 40 -> Every(3, 8, 227) [] bw = 80 -> Every(7, 16, 215)
    [] bw = 160 -> Every(15, 32, 207) [] bw = 320 -> Every(31, 32, 127)

get_cfi_of_any_channel(op_channel, bw) == \* mutant: whatever channel is reported
  LET fits == {cfi \in OperatingCfi(bw) :
                 cfi - (bw \div 10) < op_channel /\ op_channel < cfi + (bw \div 10)}
  IN IF fits = {} THEN 0 ELSE CHOOSE cfi \in fits : \A other \in fits : cfi <= other

\* The channel of a width that a primary 20 MHz channel lies in: the first
\* that fits, 0 for none.
get_cfi_from_op_channel(op_channel, bw) ==
  LET fits == {cfi \in OperatingCfi(bw) :
                 cfi - (bw \div 10) < op_channel /\ op_channel < cfi + (bw \div 10)}
  IN IF op_channel % 4 # 1 \/ fits = {} THEN 0
     ELSE CHOOSE cfi \in fits : \A other \in fits : cfi <= other

\* The channel of a measurement: for 320 MHz the scripts ask the DUT for its
\* center frequency index (is_cfi).
MeasuredCfi(op) ==
  IF op.bw \in {20, 320} THEN op.channel ELSE get_cfi_from_op_channel(op.channel, op.bw)

\* A limit, or that there is none (None).
Limit(granted, value) == [granted |-> granted, value |-> value]
NoLimit == Limit(FALSE, 0)

\* The least maxPsd of the granted ranges that lie in the channel.
get_sp_limit_by_freq(resp, chan, bw) ==
  IF Listed(resp.freq, chan, bw) = {} THEN NoLimit
  ELSE Limit(TRUE, LeastPsd(resp.freq, chan, bw))

\* The maxEirp of the CFI, whatever class lists it ("if not max_eirp" takes a
\* limit of 0.0 dBm for none).
get_sp_limit_by_chan(resp, chan) ==
  LET listing == {bw \in Width : chan \in DOMAIN resp.chan[bw] /\ resp.chan[bw][chan] # 0}
  IN IF listing = {} THEN NoLimit
     ELSE Limit(TRUE, resp.chan[CHOOSE bw \in listing : TRUE][chan])

\* sp_limit_psd and sp_limit_eirp: what the mode looks at is granted.
SpLimitGiven(resp, mode, chan, bw) ==
  /\ mode \in {"freq", "both"} => get_sp_limit_by_freq(resp, chan, bw).granted
  /\ mode \in {"chan", "both"} => get_sp_limit_by_chan(resp, chan).granted
-----------------------------------------------------------------------------
(* The judgement of a report. *)

TransmitPowerByFreq(resp, rep) ==
  LET limit == get_sp_limit_by_freq(resp, rep.chan, rep.bw)
  IN /\ DOMAIN rep.data # {} /\ limit.granted
     /\ \A k \in DOMAIN rep.data : rep.data[k].maxPSD <= limit.value

TransmitPowerByChan(resp, rep) ==
  LET limit == get_sp_limit_by_chan(resp, rep.chan)
  IN /\ DOMAIN rep.data # {} /\ limit.granted
     /\ \A k \in DOMAIN rep.data : rep.data[k].maxEirp <= limit.value

ValidatePsdStrict(resp, rep, info) == \* mutant: a neighbour has to be granted
  LET limit == get_sp_limit_by_freq(resp, info.freq, rep.bw)
  IN limit.granted /\ info.psd <= limit.value

\* A neighbour that is not granted is not checked.
ValidatePsd(resp, rep, info) ==
  LET limit == get_sp_limit_by_freq(resp, info.freq, rep.bw)
  IN IF limit.granted THEN info.psd <= limit.value ELSE info.freq # rep.chan
PsdAdjacentFrequencies(resp, rep) ==
  /\ DOMAIN rep.data # {}
  /\ \A k \in DOMAIN rep.data : \A info \in rep.data[k].freqPsdPerMHz :
       ValidatePsd(resp, rep, info)

Verdict(power, adjacent) == [power |-> power, adjacent |-> adjacent]
Failed == Verdict(FALSE, FALSE)

\* An exception (the center has no limit) makes both verdicts False; then the
\* power is not valid either.
validate_rf_measurement(resp, mode, rep) ==
  CASE ~rep.found -> Failed
    [] mode = "freq" /\ rep.found ->
         Verdict(TransmitPowerByFreq(resp, rep), PsdAdjacentFrequencies(resp, rep))
    [] mode = "chan" /\ rep.found ->
         Verdict(TransmitPowerByChan(resp, rep), TRUE)
    [] mode = "both" /\ rep.found ->
         IF TransmitPowerByFreq(resp, rep) /\ TransmitPowerByChan(resp, rep)
         THEN Verdict(TRUE, PsdAdjacentFrequencies(resp, rep))
         ELSE Failed

\* validate_lpi_transmit_power and validate_fc_transmit_power, with the limit
\* of low power indoor operation and that of a client of the default SP AP.
LpiPsd == 50
FcPsd == 20
QuietReport(rep, max) ==
  DOMAIN rep.data # {} /\ \A k \in DOMAIN rep.data : rep.data[k].maxPSD <= max

\* What a sweep is run for: a DUT that supports LPI, one that does not, or a
\* client of the SP AP.  True when the DUT kept what is asked of it.
Sweep == {"lpi", "sp", "fc"}
ValidateSweep(list, mode) ==
  \A i \in DOMAIN list :
    CASE mode = "lpi" -> QuietReport(list[i], LpiPsd)
      [] mode = "sp" -> FALSE
      [] mode = "fc" -> QuietReport(list[i], FcPsd)
-----------------------------------------------------------------------------
VARIABLES
  script,          \* what the script is at
  sent_response,   \* the response sent to the DUT
  mode,            \* how it is judged
  operation,       \* the channel the DUT reported
  verdict

vars == <<script, sent_response, mode, operation, verdict, driver>>

NoOperation == [channel |-> 0, bw |-> 20]
Modes == {"freq", "chan", "both"}
TestVectorOf(m) == CASE m = "freq" -> 1 [] m = "chan" -> 2 [] OTHER -> 3

TypeOK ==
  /\ DriverTypeOK
  /\ script \in {"start", "measure", "monitor", "end"}
  /\ sent_response.mask \in Mask
  /\ mode \in Mode
  /\ operation \in Operation \cup {NoOperation}
  /\ verdict \in [power : BOOLEAN, adjacent : BOOLEAN]

\* A vector made from one of the masks has been sent.
Response(m, md) ==
  LET vec == Vector(m, TestVectorOf(md)) IN [mask |-> m, freq |-> vec.freq, chan |-> vec.chan]
Init ==
  /\ script = "start" /\ operation = NoOperation /\ verdict = Failed
  /\ mode \in Mode
  /\ \E m \in Mask : sent_response = Response(m, mode)
  /\ DriverInit

\* validate_rf_measurement_by_freq, _by_chan, _by_both: nothing is measured
\* when the DUT operates where nothing is granted.
Measure(op) ==
  LET cfi == MeasuredCfi(op)
  IN /\ script = "start" /\ mode \in Modes
     /\ operation' = op
     /\ \/ /\ cfi = 0 \/ ~SpLimitGiven(sent_response, mode, cfi, op.bw)
           /\ script' = "end" /\ verdict' = Failed
           /\ UNCHANGED driver
        \/ /\ cfi # 0 /\ SpLimitGiven(sent_response, mode, cfi, op.bw)
           /\ script' = "measure"
           /\ spectrum_analyze(cfi, op.bw)
           /\ UNCHANGED verdict
     /\ UNCHANGED <<sent_response, mode>>

\* monitor_allchans_sp_operation and validate_fc_transmit_power.
Monitor ==
  /\ script = "start" /\ mode \in Sweep
  /\ script' = "monitor"
  /\ spectrum_analyze_all
  /\ UNCHANGED <<sent_response, mode, operation, verdict>>

Judge ==
  /\ doing = "returned"
  /\ \/ /\ script = "measure"
        /\ verdict' = validate_rf_measurement(sent_response, mode, reports[1])
     \/ /\ script = "monitor"
        /\ verdict' = Verdict(ValidateSweep(reports, mode), TRUE)
  /\ script' = "end"
  /\ UNCHANGED <<sent_response, mode, operation, driver>>

Drive == DriverNext /\ UNCHANGED <<script, sent_response, mode, operation, verdict>>

Next ==
  \/ \E op \in Operation : Measure(op)
  \/ Monitor \/ Judge \/ Drive

Spec == Init /\ [][Next]_vars
-----------------------------------------------------------------------------
Measured == script = "end" /\ mode \in Modes /\ doing = "returned"
Swept == script = "end" /\ mode \in Sweep

\* Both neighbours of the channel are in the band, so a packet has three rows.
Inland(chan, bw) == Len(ScanList(chan, bw)) = 3

\* Does a packet keep to the limits of the response, in the channel and in the
\* granted part of the channels next to it?
Within(limit, power) == limit.granted => power <= limit.value
InBandWithin(p) ==
  /\ mode \in {"freq", "both"}
       => Within(get_sp_limit_by_freq(sent_response, job[1], job[2]), p.psd)
  /\ mode \in {"chan", "both"}
       => Within(get_sp_limit_by_chan(sent_response, job[1]), p.eirp)
OutOfBandWithin(p) ==
  mode \in {"freq", "both"} =>
    /\ Within(get_sp_limit_by_freq(sent_response, Lower(job[1], job[2]), job[2]), p.low)
    /\ Within(get_sp_limit_by_freq(sent_response, Higher(job[1], job[2]), job[2]), p.high)

\* No packet escapes: when a measurement passes, every packet captured on the
\* channel, in whatever round and with whatever others, kept to the limits.  On
\* a channel at the edge of the band some do: there a packet has two rows and
\* generate_report still makes an item of three.
EveryPacketJudged ==
  Measured /\ Inland(job[1], job[2]) =>
    /\ verdict.power => \A i \in DOMAIN heard : InBandWithin(heard[i])
    /\ verdict.adjacent => \A i \in DOMAIN heard : OutOfBandWithin(heard[i])

\* A DUT that keeps to its limits is not failed because of how its packets
\* were captured.
ConformantPasses ==
  /\ Measured /\ Inland(job[1], job[2]) /\ ~raised /\ heard # <<>>
  /\ \A i \in DOMAIN heard : InBandWithin(heard[i]) /\ OutOfBandWithin(heard[i])
  => verdict.power /\ verdict.adjacent

\* "The use of an unavailable spectrum is prohibited" (AFCBaseScript.py): a DUT
\* passes only where each 20 MHz channel it occupies was granted.
OnOwnSpectrum ==
  script = "end" /\ verdict.power =>
    Parts(MeasuredCfi(operation), operation.bw) \subseteq DOMAIN sent_response.mask

\* It is asked of a DUT that reports a channel of the width: for 20 and 320 MHz
\* the scripts do not look at what it reports, and the number of a channel of
\* another width lends its limit.
OfItsWidth(op) ==
  /\ op.bw = 20 => op.channel % 4 = 1
  /\ op.bw = 320 => op.channel \in OperatingCfi(320)
AvailableSpectrum == mode \in Modes /\ OfItsWidth(operation) => OnOwnSpectrum
AvailableWideSpectrum ==
  mode \in {"chan", "both"} /\ OfItsWidth(operation) => OnOwnSpectrum

\* A channel is measured on the channel the DUT occupies: it contains the
\* primary channel the DUT reported.
PrimaryIsMeasured ==
  script = "measure" /\ operation.bw # 320 =>
    operation.channel \in Parts(job[1], job[2])

\* A sweep that ran to its end blames the DUT for any packet above what the
\* mode allows, in any round; and it blames the DUT for nothing else when the
\* power of every signal was measured (one signal without a measured power may
\* be blamed, whatever the others are).
Allowed(p) ==
  CASE mode = "lpi" -> p.psd <= LpiPsd [] mode = "sp" -> FALSE [] mode = "fc" -> p.psd <= FcPsd
SweepIsSound ==
  Swept /\ ~raised =>
    /\ verdict.power => \A i \in DOMAIN heard : heard[i] # Blank => Allowed(heard[i])
    /\ (\A i \in DOMAIN heard : heard[i] # Blank /\ Allowed(heard[i])) => verdict.power
=============================================================================
