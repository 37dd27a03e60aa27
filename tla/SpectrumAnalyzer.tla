--------------------------- MODULE SpectrumAnalyzer ---------------------------
(***************************************************************************)
(* The driver of the RF tester (spectrum_analyzer_litepoint.py): a channel *)
(* is analysed by a pre-run that finds how long the packets of the DUT are *)
(* and by captures triggered on each of those lengths; the band is swept   *)
(* by one capture per channel, round after round.  Either ends in the      *)
(* reports that RfMeasurement judges.                                      *)
(*                                                                         *)
(* The tester, a program the driver runs, is external: a run of it fails   *)
(* or leaves a csv file with the packets it captured.  A packet is what    *)
(* the tester measures of it: its length, its power and its highest PSD in *)
(* the channel, and in the channels next to it.  Powers are in tenths of a *)
(* dB, frequencies are written as channel numbers.                         *)
(***************************************************************************)
EXTENDS SpectrumChannels, SequencesExt

CONSTANTS
  Packet,        \* the packets the DUT may send
  MaxCaptured,   \* bound: packets of one run of the tester
  MaxHeard,      \* bound: captures of a sweep that hear something
  MaxFailed,     \* bound: runs of the tester that fail
  MaxRound       \* bound: rounds until the timeout

\* A run of the tester may capture a signal it has no power for: empty fields.
Blank == [dur |-> 0, eirp |-> 0, psd |-> 0, low |-> 0, high |-> 0]
IsPacket(p) ==
  /\ p.dur \in Nat \ {0}
  /\ p.eirp \in Int /\ p.psd \in Int /\ p.low \in Int /\ p.high \in Int

ASSUME AnalyzerAssumption ==
  /\ \A p \in Packet : IsPacket(p)
  /\ MaxCaptured \in Nat /\ MaxHeard \in Nat /\ MaxFailed \in Nat
  /\ MaxRound \in Nat \ {0}
-----------------------------------------------------------------------------
(* What a run of the tester yields. *)

all_channels_6g ==
  << <<15, 160>>, <<47, 160>>, <<79, 160>>, <<111, 160>>, <<143, 160>>, <<175, 160>> >>

rfdq_margin_us == 10

\* freq_mhz_scan_list: the channel, and the channels of the same width next to
\* it that are in the band.
Lower(chan, bw) == chan - (bw \div 10) * 2
Higher(chan, bw) == chan + (bw \div 10) * 2
ScanList(chan, bw) ==
  <<chan>> \o (IF Lower(chan, bw) > 0 THEN <<Lower(chan, bw)>> ELSE <<>>)
           \o (IF Higher(chan, bw) < 185 THEN <<Higher(chan, bw)>> ELSE <<>>)

\* The rows of a packet in the csv file, one for each channel of the scan list
\* (__read_csv_file has joined the PSD values of a frequency).
Level(p, at, chan) == IF at = chan THEN p.psd ELSE IF at < chan THEN p.low ELSE p.high
Rows(p, chan, bw) ==
  [i \in DOMAIN ScanList(chan, bw) |->
     [freq |-> ScanList(chan, bw)[i], eirp |-> p.eirp, peak |-> p.psd,
      psd |-> Level(p, ScanList(chan, bw)[i], chan)]]
AllRows(pkts, chan, bw) ==
  LET each == Len(ScanList(chan, bw))
  IN [i \in 1..(each * Len(pkts)) |->
        Rows(pkts[((i - 1) \div each) + 1], chan, bw)[((i - 1) % each) + 1]]

\* The lengths to trigger on: of those seen, the ones further than the margin
\* from those taken before.
Near(a, b) == a - b <= rfdq_margin_us /\ b - a <= rfdq_margin_us
TakeDurationWide(durs, p) ==       \* mutant: twice the margin
  IF \E i \in DOMAIN durs :
       durs[i] - p.dur <= 2 * rfdq_margin_us /\ p.dur - durs[i] <= 2 * rfdq_margin_us
  THEN durs ELSE Append(durs, p.dur)

TakeDuration(durs, p) ==
  IF \E i \in DOMAIN durs : Near(durs[i], p.dur) THEN durs ELSE Append(durs, p.dur)
Durations(pkts) ==
  LET taken[n \in 0..Len(pkts)] ==
        IF n = 0 THEN <<>> ELSE TakeDuration(taken[n - 1], pkts[n])
  IN taken[Len(pkts)]

\* generate_report with use_psd: an item for every three rows, with the power
\* of the last row of the channel itself up to there.
Report(chan, bw, data) == [found |-> TRUE, chan |-> chan, bw |-> bw, data |-> data]
NoReport == [found |-> FALSE, chan |-> 0, bw |-> 20, data |-> <<>>]

FirstCenterRow(list, chan, last) == \* mutant: the power is never updated
  CHOOSE i \in 1..last :
    list[i].freq = chan /\ \A j \in 1..(i - 1) : list[j].freq # chan

CenterRow(list, chan, last) ==
  CHOOSE i \in 1..last :
    list[i].freq = chan /\ \A j \in (i + 1)..last : list[j].freq # chan
Item(list, chan, k) ==
  LET center == list[CenterRow(list, chan, 3 * k)]
  IN [maxEirp |-> center.eirp, maxPSD |-> center.peak,
      freqPsdPerMHz |-> {list[i] : i \in (3 * k - 2)..(3 * k)}]
generate_report(chan, bw, list) ==
  IF list = <<>> THEN NoReport
  ELSE Report(chan, bw, [k \in 1..(Len(list) \div 3) |-> Item(list, chan, k)])

\* generate_report without: an item for every row that has its power, here
\* under the number of its row.
sweep_report(chan, bw, pkts) ==
  Report(chan, bw, [k \in {i \in DOMAIN pkts : pkts[i] # Blank} |->
    [maxEirp |-> pkts[k].eirp, maxPSD |-> pkts[k].psd, freqPsdPerMHz |-> {}]])
-----------------------------------------------------------------------------
VARIABLES
  doing,                 \* what the driver is at
  job,                   \* the channel and width analysed
  packet_duration_list,
  todo,                  \* what the round has left: lengths, or channels
  round,
  rows,                  \* captured_packets of an analysis
  captured_packets,      \* of a sweep: a sequence of packets for each channel
  reports,               \* what the driver returned: a sequence of reports
  seen,                  \* history: the packets of the pre-run
  heard,                 \* history: the packets captured after it
  failed,                \* history: the runs of the tester that failed
  raised                 \* history: did the driver catch an exception?

driver == <<doing, job, packet_duration_list, todo, round, rows, captured_packets,
            reports, seen, heard, failed, raised>>

NoJob == <<0, 20>>
NoPackets == [c \in {} |-> <<>>]

DriverTypeOK ==
  /\ doing \in {"idle", "pre_run", "analyze", "sweep", "returned"}
  /\ job \in Int \X Width
  /\ packet_duration_list \in Seq(Nat)
  /\ round \in 0..MaxRound
  /\ \A i \in DOMAIN rows : rows[i].freq > 0 /\ rows[i].eirp \in Int
  /\ DOMAIN captured_packets \subseteq Range(all_channels_6g)
  /\ \A c \in DOMAIN captured_packets : captured_packets[c] \in Seq(Packet \cup {Blank})
  /\ \A i \in DOMAIN reports : reports[i].found \in BOOLEAN /\ reports[i].bw \in Width
  /\ seen \subseteq Packet
  /\ heard \in Seq(Packet \cup {Blank})
  /\ raised \in BOOLEAN

DriverInit ==
  /\ doing = "idle" /\ job = NoJob
  /\ packet_duration_list = <<>> /\ todo = <<>> /\ round = 0
  /\ rows = <<>> /\ captured_packets = NoPackets /\ reports = <<>>
  /\ seen = {} /\ heard = <<>> /\ failed = {} /\ raised = FALSE

\* SpectrumAnalyzerLib makes a driver for each call: nothing is left of the
\* one before.
NewDriver(what, chan, bw, list) ==
  /\ doing' = what /\ job' = <<chan, bw>>
  /\ packet_duration_list' = <<>> /\ todo' = list /\ round' = 1
  /\ rows' = <<>> /\ captured_packets' = NoPackets /\ reports' = <<>>
  /\ seen' = {} /\ heard' = <<>> /\ failed' = {} /\ raised' = FALSE

spectrum_analyze_half(chan, bw) == \* mutant: passes the distance to the edge
  NewDriver("pre_run", chan, bw \div 2, <<>>)

spectrum_analyze(chan, bw) == NewDriver("pre_run", chan, bw, <<>>)
spectrum_analyze_all == NewDriver("sweep", 0, 20, all_channels_6g)

Return(list) == doing' = "returned" /\ reports' = list

\* The pre-run takes whatever is on the air; nothing captured, or a failed
\* run, ends the analysis with an empty report.
PreRun ==
  /\ doing = "pre_run"
  /\ \/ /\ Return(<<NoReport>>)
        /\ UNCHANGED <<packet_duration_list, todo, seen>>
     \/ \E pkts \in UNION {[1..n -> Packet] : n \in 1..MaxCaptured} :
          /\ packet_duration_list' = Durations(pkts)
          /\ todo' = Durations(pkts)
          /\ seen' = Range(pkts)
          /\ doing' = "analyze"
          /\ UNCHANGED reports
  /\ UNCHANGED <<job, round, rows, captured_packets, heard, failed, raised>>

\* A run triggered on the next length: it hears packets of about that length.
\* A failed run adds nothing and nobody looks at its error.
Capture ==
  /\ doing = "analyze" /\ todo # <<>>
  /\ todo' = Tail(todo)
  /\ \/ /\ Cardinality(failed) < MaxFailed
        /\ failed' = failed \cup {Head(todo)}
        /\ UNCHANGED <<rows, heard>>
     \/ \E n \in 0..MaxCaptured :
        \E pkts \in [1..n -> {p \in Packet : Near(p.dur, Head(todo))}] :
          /\ rows' = rows \o AllRows(pkts, job[1], job[2])
          /\ heard' = heard \o pkts
          /\ UNCHANGED failed
  /\ UNCHANGED <<doing, job, packet_duration_list, round, captured_packets, reports,
                 seen, raised>>

\* A run for the next channel of a sweep.
ExtendAnew(c, pkts) ==             \* mutant: keeps the last round only
  captured_packets' =
    [x \in DOMAIN captured_packets \cup {c} |->
       IF x # c THEN captured_packets[x] ELSE pkts]

Extend(c, pkts) ==
  captured_packets' =
    [x \in DOMAIN captured_packets \cup {c} |->
       IF x # c THEN captured_packets[x]
       ELSE (IF c \in DOMAIN captured_packets THEN captured_packets[c] ELSE <<>>) \o pkts]
SweepOne ==
  /\ doing = "sweep" /\ todo # <<>>
  /\ todo' = Tail(todo)
  /\ \/ /\ Cardinality(failed) < MaxFailed
        /\ failed' = failed \cup {Head(todo)}
        /\ UNCHANGED <<captured_packets, heard>>
     \/ UNCHANGED <<captured_packets, heard, failed>>
     \/ /\ Len(heard) < MaxHeard
        /\ \E p \in Packet \cup {Blank} :
             Extend(Head(todo), <<p>>) /\ heard' = Append(heard, p)
        /\ UNCHANGED failed
  /\ UNCHANGED <<doing, job, packet_duration_list, round, rows, reports, seen, raised>>

\* The end of a round: the time is up, or there is another one.
AnotherRound(list) ==
  /\ todo = <<>> /\ round < MaxRound
  /\ round' = round + 1 /\ todo' = list
  /\ UNCHANGED <<doing, job, packet_duration_list, rows, captured_packets, reports,
                 seen, heard, failed, raised>>
RoundEnds ==
  \/ doing = "analyze" /\ AnotherRound(packet_duration_list)
  \/ doing = "sweep" /\ AnotherRound(all_channels_6g)

TimeUp ==
  /\ todo = <<>>
  /\ \/ /\ doing = "analyze"
        /\ Return(<<generate_report(job[1], job[2], rows)>>)
     \/ /\ doing = "sweep"
        /\ Return(SetToSeq({sweep_report(c[1], c[2], captured_packets[c]) :
                              c \in DOMAIN captured_packets}))
  /\ UNCHANGED <<job, packet_duration_list, todo, round, rows, captured_packets,
                 seen, heard, failed, raised>>

\* An exception of the driver: the tester cannot be run, a csv file cannot be
\* read.  An analysis returns an empty report, a sweep no report at all.
Raise ==
  /\ raised' = TRUE
  /\ \/ doing \in {"pre_run", "analyze"} /\ Return(<<NoReport>>)
     \/ doing = "sweep" /\ Return(<<>>)
  /\ UNCHANGED <<job, packet_duration_list, todo, round, rows, captured_packets,
                 seen, heard, failed>>

DriverNext == PreRun \/ Capture \/ SweepOne \/ RoundEnds \/ TimeUp \/ Raise
-----------------------------------------------------------------------------
\* No packet seen in the pre-run is of a length that no capture triggers on,
\* though lengths close to one another share a trigger.
EveryLengthTriggered ==
  doing = "analyze" =>
    \A p \in seen : \E i \in DOMAIN packet_duration_list :
      Near(packet_duration_list[i], p.dur)
=============================================================================
