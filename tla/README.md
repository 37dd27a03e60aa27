# A TLA+ model of the AFC DUT test system

This directory verifies the core of the AFC DUT test system: the AFC System
Simulator that answers spectrum inquiries, the test scripts that drive it, the
measurement of what the device under test (DUT) transmits and its judgement,
and the control application on the DUT. The DUT itself, the RF tester and the
test tool are modelled as far as that code relies on them. All source paths
are relative to `src/`; *routes.py* is
`AFC-System-Simulator/afc_simulator_service/app/afc_simulator_service_api/routes.py`.

## 1. The system

| Part | State it keeps | Operations | Talks to |
|---|---|---|---|
| AFC System Simulator (*routes.py*, port 5000) | sixteen module globals, no lock: the prepared response (`vectors`), the last request, the last response, the verdict `valid_request`, `hold_response`, the setting of the current test, `random_picks` | `POST availableSpectrumInquiry` (DUT), `set-response`, `set-params`, `get-status`, `reset` (scripts) | serves every HTTP request in a thread of its own |
| SP access point simulator (`afc_fc_ap_service`, port 5001) | as above without random vectors | the same routes but `set-params` | the access point a fixed client is connected to |
| Test scripts (`CT_AFC_*`, `AFCBaseScript`, `AFCLib`) | the measurements, the last status read | `setup`, `execute`, `teardown` | the simulators by HTTP, the DUT by the control application, the analyzer driver |
| RF measurement validation | none | finds the limits of a channel in a response, compares a report with them | reports of the driver |
| Spectrum analyzer driver (LitePoint) | the packet lengths seen, the packets captured | `spectrum_analyze`, `spectrum_analyze_all` | the tester, a program it runs |
| Control application (`AFC-ControlAppC`) | event loop: readers, signals, an alarm; the saved configuration | receive a UDP command, parse, ACK or NACK, execute, return a result | the test tool |
| DUT, tool platform and sniffer callbacks | hostapd / wpa_supplicant processes and files | some sixty commands | the host |

How they interact: a script resets the simulator, tells it what to answer
(`set-response`), triggers the DUT by commands to the control application,
waits, reads `get-status`, judges the request it sees there, and has the
analyzer measure the power the DUT transmits, which it compares with the limits
of the response. Meanwhile the DUT posts its inquiry whenever it is ready.
Between them there is no other synchronisation than the script's waits. A fixed
client's access point inquires on its own account from the second simulator,
to which the scripts only post a country.

What is hard about it:

* the handler of an inquiry runs for a minute or more when it is held, works on
  globals throughout and reads back from them what it wrote itself;
* `set-response`, `set-params` and `reset` rewrite those globals at any moment;
* two inquiries (a retry, for instance) are two threads over the same globals;
* the scripts poll: they see a request before it has been judged;
* what an earlier phase or script left behind (`valid_request`, `random_picks`,
  `country_code`, `hold_response`, a held thread, the second simulator's whole
  state) is there in the next one;
* limits of wide channels are computed from those of their parts and compared
  with measurements through several conversions of channel numbers, with edge
  cases at the ends of the band, at 320 MHz and at 0.0 dBm;
* the runs of the tester fail one by one, and a failed run looks like silence;
* signals interrupt the control application between any two statements, and
  its commands are datagrams that get lost and are repeated.

What would make each part correct:

* simulators: an answer belongs to its inquiry (id and spectrum), only sound
  inquiries are granted spectrum, every inquiry is answered, what `get-status`
  reports of a request is true of it, nothing is sent while held, the second
  phase offers other channels than the first, what is offered can be used;
* scripts: a conformant DUT passes; what is recorded as valid or as conforming
  was; a held request is always released;
* measurement: every captured packet is judged, on the channel the DUT uses,
  by the limits of the response sent to it;
* control application: no signal is forgotten, the program ends when told to and
  by one signal in order, at most one command runs on what was taken down, an OK
  means that the command's URL and certificate are in force.

## 2. Modules

| Module | Content |
|---|---|
| `AFCSimulator` | the simulator: one action per step of the inquiry handler, one per operation of the script; its properties |
| `AFCService` | what either simulator promises to a device that sends one inquiry at a time |
| `AFCSimulatorService` | the refinement mapping and `ImplementsService` |
| `AFCSimulatorProofs` | its types; the inductive invariant for inquiries that do not overlap, `OwnAnswer`, `AcceptedIsReported`; that it implements `AFCService` |
| `TestScripts` | the 64 scripts as programs of instructions and what they post |
| `TestSession` | scripts run one after the other against `AFCSimulator` and a DUT |
| `TestSessionProofs` | a session implements `AFCSimulator`; its types; nothing is granted while held; `FirstVerdict` and `JudgedByOwnAnswer` |
| `TestSessionVerdict` | proofs about whole scripts: `SecondPhaseMoves` and `ConformantPasses` |
| `SpectrumChannels` | channels, their parts, the limits of wide channels (shared by the two below) |
| `SpectrumMask` | the random vectors with real channel numbers and powers |
| `SpectrumChannelsProofs` | lemmas about channels, their parts and their limits (shared by the proofs of the two) |
| `SpectrumMaskProofs` | its types and its three safety properties |
| `SpectrumAnalyzer` | the driver of the tester: pre-run, triggered captures, sweeps, reports |
| `RfMeasurement` | the scripts' use of the driver and the judgement of its reports (extends `SpectrumAnalyzer`) |
| `RfMeasurementProofs` | its types and its six safety properties |
| `FcApService` | the simulator for the SP access point, with its own mapping to `AFCService` |
| `FcApProofs` | its types, `GrantIsFresh`, and that it implements `AFCService` |
| `ControlApp` | the control application's loop, its signals, and the test tool |
| `ControlAppProofs` | its types and four safety properties |
| `MCSimulator`, `MCSession`, `MCMask`, `MCMeasurement`, `MCFcAp`, `MCControlApp` | instances for TLC |

### AFCSimulator

Every global of *routes.py* is a variable, except `resp_wait_time` and
`inquiry_file`, and the headers, which only the log sees. The local state of a
handler thread is `pc`, `body`, `req`, `picks`, `resp` and `reply`, each a
function of the inquiry. Python's references matter here: `sent_response` is a
name for an object which a thread may still be filling while another thread
assigns the name anew. Objects live in `heap`; `sent_response` and `resp` hold
their identity.

The handler `AvailableSpectrum.post` is cut wherever another thread can get
between two accesses of globals with an effect that can be seen:

| Step | Lines | |
|---|---|---|
| `Receive` | 391-406 | store the body in `recv_request` |
| `Parse` | 410-412 | read it back: `version`, `req`, `req_id` |
| `Validate` | 415-523 | the checks of its content |
| `CheckVector` | 525-564 | the checks against the test vector; `"responses" not in vectors` |
| `Build`, `Publish`, `AppendResponse` | 163-341 | pick CFIs; empty list; fill it |
| `Accept` | 566 | `valid_request = True` |
| `Load` | 568-595 | the vector's file |
| `Release` | 597-608 | leave the hold loop |
| `Copy`, `Stamp`, `Filter` | 609-650 | deep copy, requestId and rulesetId, what was inquired |
| `Send` | 656-666 | dump what `sent_response` refers to *now* |

Spectrum is a pair of sets of center frequency indices (CFIs) of the channel
width under test: those granted as channels and those granted as frequency
ranges. Request bodies are records of what the checks look at: whether they
are JSON, a set of faults, the country, what they inquire. The checks are
translated in their order, with the response code each one gives.

Granularity. `set-response`, `set-params` and `reset` are one step each
although they assign their globals one after the other, and `get-status` reads
in one step; `Validate` reads `filename_prefix`, `country_code` and
`channel_width` in one step. `heap` starts with blank objects, which nothing
refers to. Power values are the subject of `SpectrumMask`; the availability
time and the inquiry file are left out.

### AFCService

Two variables, `asked` and `answer`. An inquiry is asked, then answered at most
once: refused, or granted, under its own id, spectrum it inquired about, if it
was sound. There is no script, phase or vector in it.

### TestScripts and TestSession

A script is a family (RSA registration and spectrum access, USA unsuccessful
access, SAU and UAU successful and unsuccessful update, USV server
validation), the DUT's role, the vector, the width, the run. `Program(s)` is
the sequence of instructions of its `execute()`, and `Posted` the body
`AFCLib.set_afc_response` makes. `TestSession` runs the instructions: each is
an action, with the early returns of the code. An instruction that follows a
wait is taken when the exchange is `Quiet` (handlers done or held, the DUT has
reacted); the poll of the update scripts and `set-response` are not, so the
script overtakes the handler's threads wherever the code lets it.

The DUT is not part of the repository and is modelled by what the scripts use
of it; three degrees of freedom: `Conformant` (it does what the test plan
asks), `Triggered` (it inquires only when asked, but may operate anywhere and
post faulty bodies) and neither (it inquires whenever it likes).

### SpectrumChannels and SpectrumMask

`AFCSimulator` asks who may interleave with `build_random_vector` and sees
spectrum as sets of CFIs. `SpectrumMask` does the computation itself, with the
channel numbers of the US or Canada and powers in tenths of a dB (the code
rounds every power it computes to that), one handler at a time: which CFIs an
inquiry asks for by channel and by range (`get_cfi_by_inquired_*`), which are
picked (`Picks`), the power drawn for each 20 MHz channel (`mask`), the limits
of the wider ones (`get_min_maxpsd_by_bw`, `Granted`, `WideLimit`), and what is
kept in the answer (`Filtered`). The logarithm is the table `Gain`.

### SpectrumAnalyzer and RfMeasurement

`spectrum_analyze` is a pre-run (`PreRun`), then rounds of captures triggered
on each packet length found (`Capture`), then `generate_report`;
`spectrum_analyze_all` sweeps the six 160 MHz channels (`SweepOne`), round
after round. Each run of the tester is a choice of the packets it captures or a
failure, and the driver may raise an exception at any point. A packet is its
length, EIRP, PSD and its PSD in the two neighbouring channels; its rows in the
csv file are grouped by three as in the code. `RfMeasurement` adds the script
(`Measure`, `Monitor`, `Judge`) and the judgement by PSD, by EIRP, by both and
of a sweep, with the limits looked up as *rf_measurement_validation.py* does.

### FcApService

The handler of the second service in the same manner as `AFCSimulator`: vector
files only, a hold loop, no random picks. `country_code` survives `reset`. The
scripts post only the country and never reset it, so its state outlives them;
the rest of its interface is modelled too, posted at any moment.

### ControlApp

Each step is the stretch of `eloop_run` and `eloop_process_pending_signals`
between two places where a signal makes a difference: `Test`, `EnterSelect`,
`Select`, `Process` (`signaled = 0`), `Disarm` (`alarm(0)`), `ClearPending`,
`Deliver` (one turn of the for loop), then `Receive`, `Acknowledge` or `Refuse`,
`Handle` for a datagram. `Interrupt` runs `eloop_handle_signal` between any two
of them; `AlarmFires` is `eloop_handle_alarm`, at any moment, as the time that
`alarm` counts is not modelled. A command is what the dispatcher and
`afcd_configure_handler` tell apart: whether it parses, has a handler, carries
the TLVs. `server_url`, `ca_cert` and `geo_area` hold the number of the command
they were saved from. The tool sends commands, repeats the last one, and any
datagram may be lost. Datagrams that do arrive keep their order:
`OkMeansApplied` relies on it.

## 3. Runs

| Run | Question | Instance | Distinct states |
|---|---|---|---|
| `single` | one inquiry, every body, every setting: `TypeOK`, `OwnAnswer`, `AcceptedIsReported` | 1 inquiry, 3 CFIs, 19 bodies, 7 settings | 50 000 |
| `sequential` | two inquiries in turn: `ImplementsService` | 2 inquiries, 4 bodies, 2 settings | 265 000 |
| `overlap` | two at a time: `Answered` | 2 inquiries, 2 bodies, fair handlers | 142 000 |
| `consecutive` | two scripts in a row: `ConformantPasses`, `SecondPhaseMoves` | 4 inquiries, any two of the 64 scripts | 178 000 |
| `triggered` | a DUT that strays and posts faulty bodies: `SessionTypeOK`, `FirstVerdict`, `SecondPhaseMoves`, `JudgedByOwnAnswer`, `NoGrantWhileHeld` | 2 inquiries, 13 kinds of script | 160 000 |
| `answered` | liveness of a session: `EveryInquiryAnswered` | 2 scripts, fair | 10 500 |
| `mask` | real channels and powers: `TypeOK`, `WideWithinParts`, `PicksAreGranted`, `NoSharedChannel` | US, 7 inquiries, 9 settings, 8 draws of power | 47 000 |
| `rf` | measurement and judgement: `TypeOK`, `EveryLengthTriggered`, `EveryPacketJudged`, `ConformantPasses`, `AvailableWideSpectrum`, `PrimaryIsMeasured`, `SweepIsSound` | 3 grants, 8 operations, 4 packets, 2 rounds, 1 failing run | 2 840 000 |
| `control` | loop, signals, commands: `TypeOK`, `NoSignalForgotten`, `AlarmIsForASignal`, `AtMostOneAfterDeinit`, `OkMeansApplied`, `Terminates` | 2 commands of 7 kinds, 3 signals, a buffer of 2 | 461 000 |
| `fc_ap` | the second service: `TypeOK`, `GrantIsFresh`, `ImplementsService`, `Answered` | 2 inquiries in turn, 8 bodies, 4 settings, the two default files | 401 000 |
| `stale_valid` | `RefusedIsReported`, violated | | |
| `rf_partial` | `AvailableSpectrum`, violated | | |

What the passing runs show. `single`, `sequential` and `overlap` separate what
holds of any inquiry from what needs inquiries in turn. `consecutive` is the
scripts' own question, may a DUT that does what the test plan asks fail: the
scripts overtake handlers and leave traces for one another, and it does not.
`triggered` is the converse: what is recorded as valid or conforming was.
`mask` and `rf` follow a power from the draw to the verdict: a wide channel's
limit follows from its parts, what is picked can be used, no captured packet
above a limit passes. `control` and `fc_ap` ask of the two servers what a
signal, a lost datagram or a foreign setting may break.

### Bounds

Two inquiries are what the interference between threads takes, as each global
has one writer and one reader per thread, and what a script sends; two scripts
send four. Two CFIs give the picks of phase 1 and phase 2 something to differ
in, the third one lets the inquired channels differ from the ranges and from
the offered ones. Two scripts in a row show what one leaves to the next; a
script leaves nothing that the following one's reset does not clear except
`random_picks`, `country_code` and a handler still at work. The `triggered` run
has one script (`MaxScripts` = 1), since `FirstVerdict` is a claim about the
first. In the `sequential`, `consecutive` and `triggered` runs inquiries are
symmetric. The files of `VectorFile` are those of the services'
`test_vectors`, by what they grant.

In `mask` each draw gives one power to most channels and another to a few, so
that a wide channel has one weak part or none: its limit depends on the weakest
only. Among the powers are 0.0 dBm and those that exceed 36 dBm; among the
inquiries are an unaligned range, a single 80 MHz CFI, overlapping 320 MHz
CFIs, classes with and without a list. In `rf` the packets break one limit each
(power, PSD, a neighbour's PSD); two captures (`MaxCaptured`, `MaxHeard`) and
two rounds (`MaxRound`) let a loud packet be first, last or in another round;
one run may fail (`MaxFailed`). One of the operations reports a channel number of
another width (35 at 20 MHz). In `control` two commands and one repetition of
each in the buffer (`MaxSeq`, `MaxInbox`) are what a result for the wrong
command takes; a third signal (`MaxSignals`) can come while two are handled.

### Deadlock

The simulators never block, since `reset` is always possible, and the random
vectors can always be set anew; deadlock is checked there. A session ends when
its scripts or its inquiries are used up, a measurement with its verdict, and
the control application by returning, so these runs do not check it.

### Fairness

`FairSpec` of the simulators: weak fairness of each handler thread (the
interpreter schedules every thread), none of the device or the script;
`Answered` asks that `hold_response` is in the end left off. `FairSessionSpec`
adds the script (its waits are bounded, its HTTP calls return, the framework
calls `teardown`) and the DUT's reaction to a trigger or an answer, which may
be not to send. With that, `EveryInquiryAnswered` needs no assumption on
`hold_response`: teardown's reset releases it. `FairSpec` of the control
application: the program runs on (`AppStep`) and the kernel delivers an alarm
that stays scheduled (`AlarmFires`); a datagram need never come, which is why a
signal just before `select()` needs the alarm for `Terminates`.

### What does not hold

Two runs end in a violation, each of what the repository says of itself:

* `stale_valid` (`RefusedIsReported`): `set-response` leaves `valid_request`
  True, and the refused request of phase 2 is reported valid.
* `rf_partial` (`AvailableSpectrum`): judged by frequency, an 80 MHz channel of
  which half was granted passes, because a range counts when it lies inside the
  channel and nothing asks whether the ranges fill it.

The first one has a counterpart worth knowing before it is mended. The update
scripts poll, and take the verdict from the first status that shows a request,
which may come before the handler has run its checks. A conformant DUT passes
nevertheless (`ConformantPasses` holds) only because `valid_request` is still
True from phase 1: with a `set-response` that clears it
(`NewExchangeUnverified`, a mutant) TLC finds a conformant DUT that fails.

Other behaviour, in the models but contradicted by no document, delimits what
the properties claim:

* Of two overlapping inquiries one may be answered with the other's requestId
  or spectrum. `OwnAnswer` and the refinement are about inquiries in turn.
* A request with an empty `certificationId` list passes every check, is
  reported valid and is answered with General Failure; `Acceptable` in
  `FirstVerdict` says so.
* The last poll of a script may see a request before its handler has checked
  it. If the script then ends, the reset of teardown and of the next setup come
  before the handler's `valid_request = True`, which then vouches for the next
  script's request. `FirstVerdict` without `started = 1` fails for this reason
  with the scripts `UAU("AP", 2)` and `USA("AP", 2)` and three inquiries.
* Limits of wide channels are capped at 36 dBm, those of 20 MHz channels are
  not. A channel whose least PSD is 0.0 is dropped. At 320 MHz the picks of the
  two phases overlap. Channels of an unaligned range are counted as inquired,
  then filtered out of the answer. `WideWithinParts`, `PicksAreGranted` and
  `NoSharedChannel` name these cases.
* At 20 and 320 MHz the scripts do not look at the channel the DUT reports
  (*AFCBaseScript.py*, lines 191-194, 235-238 and 279-282; at the other widths
  `get_cfi_from_op_channel` does), and `get_channel_max_eirp` looks in every
  class: a DUT that claims channel 35 at 20 MHz is judged by the limit of the
  40 MHz channel 35. `OfItsWidth` in `AvailableWideSpectrum` says so.
* The driver's report groups rows by three, but at the edges of the band a
  packet has two; `EveryPacketJudged` is about channels with two neighbours. A
  run of the tester that fails adds no packets, and an exception in a sweep
  returns an empty list: both are judged like silence.
* A second signal can leave an alarm behind. After `pending_terminate = 0`
  (*eloop.c*, line 257) it schedules one anew, and when its turn in the for loop
  is still to come the same pass handles it: the program is then on its way to
  `eloop_run`'s end with no signal left and an alarm that nothing cancels, which
  may still exit(1) with the message "could not process SIGINT or SIGTERM in two
  seconds". `AlarmIsForASignal` says that this takes a further signal.
* `afcd_configure` saves the server URL before it notices that the certificate
  is missing. `geo_area` is optional and never cleared: after one
  `afcd_configure` with it and one without, both answered OK, the first one's
  area is in force beside the second one's URL and certificate, and
  `OkMeansApplied` says no more than that. A repeated command is executed again. A command that is listed
  but has no handler is acknowledged and never answered; one that is not listed
  already fails in `parse_packet`, so that the NACK "Unable to find the API
  handler" of *main.c*, line 125, is never sent. A signal just
  before `select()` ends the program only by the alarm, two seconds later, with
  a message that supposes a busy loop.

Definitions marked *mutant* are no part of the model. Each stands beside the
definition it would replace and changes it the way a bug in that code would (a
check forgotten, a global not cleared, two calls swapped); with it in place a
run finds its property violated, which shows that the property depends on that
code. `PROJECT.json` lists them by run and property.

## 4. Proofs

TLAPS checks, for every value of the constants:

| Module | Theorem | Assumption | Says |
|---|---|---|---|
| `AFCSimulatorProofs` | `TypeCorrect` | | `Spec => []TypeOK` |
| `AFCSimulatorProofs` | `OwnAnswerSequential` | `~Overlap` | `Spec => []OwnAnswer` |
| `AFCSimulatorProofs` | `AcceptedIsReportedSequential` | `~Overlap` | `Spec => []AcceptedIsReported` |
| `AFCSimulatorProofs` | `SimulatorImplementsService` | `~Overlap` | `Spec => ImplementsService` |
| `TestSessionProofs` | `SessionTypeCorrect` | | `SessionSpec => []SessionTypeOK` |
| `TestSessionProofs` | `SessionImplementsSimulator` | | `SessionSpec => Spec` |
| `TestSessionProofs` | `NothingGrantedWhileHeld` | `~Overlap` | `SessionSpec => NoGrantWhileHeld` |
| `TestSessionProofs` | `FirstVerdictIsRight` | `Triggered`, `~Overlap` | `SessionSpec => []FirstVerdict` |
| `TestSessionProofs` | `OwnAnswerJudges` | `Triggered`, `~Overlap` | `SessionSpec => JudgedByOwnAnswer` |
| `TestSessionVerdict` | `UpdateMoves` | `Triggered`, `~Overlap` | `SessionSpec => []SecondPhaseMoves` |
| `TestSessionVerdict` | `ConformantDutPasses` | `ConformantAssumption` | `SessionSpec => []ConformantPasses` |
| `FcApProofs` | `TypeCorrect` | | `Spec => []TypeOK` |
| `FcApProofs` | `GrantIsFreshSequential` | `~Overlap` | `Spec => []GrantIsFresh` |
| `FcApProofs` | `FcApImplementsService` | `~Overlap` | `Spec => ImplementsService` |
| `SpectrumMaskProofs` | `TypeCorrect` | | `Spec => []TypeOK` |
| `SpectrumMaskProofs` | `WideLimitsCovered`, `PicksReachTheDut`, `PhasesDisjoint` | | `WideWithinParts`, `PicksAreGranted`, `NoSharedChannel` |
| `RfMeasurementProofs` | `TypeCorrect` | | `Spec => []TypeOK` |
| `RfMeasurementProofs` | `LengthsTriggered`, `PacketsJudged` | | `EveryLengthTriggered`, `EveryPacketJudged` |
| `RfMeasurementProofs` | `ConformantDUTPasses` | | `Spec => []ConformantPasses` |
| `RfMeasurementProofs` | `AvailableJudged`, `PrimaryMeasured`, `SweepJudged` | | `AvailableWideSpectrum`, `PrimaryIsMeasured`, `SweepIsSound` |
| `ControlAppProofs` | `TypeCorrect` | | `Spec => []TypeOK` |
| `ControlAppProofs` | `SignalsAreKept`, `OneSignalEndsInOrder`, `LittleAfterDeinit`, `OkIsApplied` | | `NoSignalForgotten`, `AlarmIsForASignal`, `AtMostOneAfterDeinit`, `OkMeansApplied` |

The only assumptions about the constants are those that the modules name: the
CFIs are finitely many, no inquiry is the constant for "no body", bodies,
settings, files and commands have their form, a draw is a number for each
20 MHz channel, the country is the US or Canada, packets have their form, grants
are numbers for 20 MHz channels, a sweep has at least one round, and the files in
*test_vectors* for vector 1 list no channels, those for vector 2 no frequencies
(`FilesAssumption`, true of every file there). Two more are about sessions:

* `ConformantAssumption`, what the test plan has a conformant DUT inquire: a
  well-formed body, by each method that the script's vector is about, each time
  for the same channels, and at least two of them when the answer is drawn at
  random (one at 320 MHz). With fewer the handler refuses the request
  (*routes.py*, lines 532-542). With other channels the second time, the update
  may have none left to offer. It binds `Conformant` instances only; TLC
  evaluates it in `consecutive`.
* `GrantsAssumption`, what the response files of UAU and USA contain: that of
  phase 1 grants every channel or range that is open to standard power, the
  others none. It holds of the files in *test_vectors/US* and *test_vectors/CA*,
  with `Cfi` the channels of the tested width that standard power may use.

The scripts are unconstrained in the theorems about the simulators: their
operations may come between any two steps of a handler, and their settings are
any. `~Overlap` (the device sends one inquiry at a time) is what the scripts ask
of a DUT, `Triggered` that it inquires when asked only; section 3 says what
happens otherwise. `Conformant` implies both (`SessionAssumption`).

*Simulator.* `OwnAnswer` speaks about finished inquiries and is not inductive.
The invariant `SequentialInv` follows the handler through its steps:

* `OneAtATime`: at most one thread is active, so whatever a global holds was
  put there by this thread or cleared by the script;
* `ReadsOwnBody`: `recv_request` is the thread's own body or empty, and from
  `Validate` on the thread works on its own (`req[t] = t`);
* `PassedChecks`: after the checks the only fault left is an empty
  certificationId list, or one that is not looked at because of it; after
  `Stamp` there is none;
* `FillsOwnObject`: `sent_response` refers to the object the thread fills, or
  to none; before `Send` that object carries its id and only inquired spectrum.

`Send` then gives `OwnAnswer`: either the object dumped is the thread's own, or
it is empty, which grants nothing. `HandlerFrame` says once what a step of one
thread leaves alone; `OthersKeepInv` uses it for all other threads.
`AcceptedIsReported` adds an invariant that connects `valid_request` with the
body in `recv_request`: only `reset` clears the verdict, and it clears the body
with it. For the refinement, `DoneIsAnswered` makes `pc` and `reply` agree;
`Receive` maps to `Ask`, `Send` and the failing case of `AppendResponse` map to
`Answer`, everything else to a stutter.

*Session.* `SimulatorMoves` maps every step of a session to a step of the
simulator or a stutter, so the invariants above hold in every session.
`NoGrantWhileHeld` is false of the simulator alone: a `set-params` that turns
the hold on after the handler has copied its answer is too late. In a session
only `set-response` turns it on, and takes the vector and the object away with
it, which is the invariant `HeldInv`. `FirstVerdict` needs `ChecksInv` (what
has passed the checks is acceptable) and `VerdictInv`, which follows the first
script: until its first trigger no inquiry has begun and the verdict is False
(`Untriggered`), after it at most one has, and a True verdict is about it
(`JustTriggered`). That every program verifies only after it triggers is
`ProgramShape`, proved over the programs of all scripts.

`JudgedByOwnAnswer` relates three copies of an answer: what the simulator keeps
for get-status, what the script read from it, what the DUT took from the HTTP
response. `GrantInv` speaks about the first: while a request is shown its
handler has a response to append, and the object sent lists no channels under
vector 1 and no frequencies under vector 2. `AwaitInv` connects it with the
DUT: whoever is at work on a request that is shown is awaited, and once nobody
is at work the DUT has the answer shown, before it or taken. `PlaceInv` follows
the script: what may precede an instruction (`Follow`, proved of all programs as
`ProgramSteps`) tells what holds when it is reached, for example that the DUT
has nothing to send until it is triggered, that the response is held only in
phase 2 of SAU, and that the copy in `afc_resp` is still the one get-status
shows. `LimitIsOwn` draws the conclusion; the vectors matter in it, because a
script for vector 1 looks at frequencies only.

`SecondPhaseMoves` spans two phases and rests on the global `random_picks`
surviving set-response. `PickInv` says that a random answer is made of the last
picks, and that a vector is built only while there is none, so that an answer
cannot outlive the picks it was made of. `TunedInv` follows the settings through
the script: they change only while no handler is building (`Still`), which the
scripts owe to their waits, and the update asks for other picks. With both,
`MovesInv`: the channel that passed in phase 1 is among the picks until the
update's vector is built and outside them afterwards, unless fewer than two
channels were inquired (`Narrow`), the case the property leaves out.

`ConformantPasses` is about measurements, and whether one is right depends on
all that the scripts, the simulator and the DUT did before. Its invariant
`ConformInv` has a part for each of them, and each is needed by the next:

* `SettledInv`: the settings in force are those that the running script posts,
  unless it has yet to post them, and in the phase of the instruction it stands
  at. Only then does the vector that `test_vector` selects fit the script.
* `BodyInv`: the body a handler works on is one of the DUT's, so it passes the
  checks of `RequestCode` and `VectorCode` under these settings (`Ready`).
* `OfferInv`: a random answer keeps a channel that was inquired. In phase 2 the
  update offers what is left of the inquired channels, so the picks of phase 1
  must be neither none nor all of them (`Split`). They stay so until the update
  has been built, across handlers that are still at work.
* `ServedInv`: the inquiry that get-status shows is on its way to an answer
  that the settings ask for (`Answers`): some channel, or none at all where the
  file grants nothing. Past the checks `valid_request` is True.
* `DutInv`: the DUT operates on a channel of its last answer, or nowhere if
  there is none, and waits for no answer but that of the inquiry shown.
* `ExpectsInv`: what each instruction relies on (`Expects`): before its first
  inquiry the DUT is silent, a script that checks or polls has an inquiry due
  or shown, a refusing DUT knows why the handshake failed, a held answer has
  not been taken.
* `PassInv`: no script stops early, and every measurement is as wanted.

The one place where the script overtakes the handler is the poll of the update
scripts: there `Expects` says only that the inquiry is due or shown, and that
its verdict is True comes from `TunedInv`: `valid_request` is True from phase 1
on. The step from `ExpectsInv` to `PassInv` is one lemma per
kind of measurement (`CheckPassesVerdict`, `NoRequestPasses`, `MonitorPasses`
and so on).

*Access point service.* `FreshInv` says which file the object being filled is
from: the thread's own, unless the inquiry is about nothing, in which case
`Filter` leaves nothing of it. `OwnInv` adds for the refinement what
`SequentialInv` says of the simulator.

*Random vectors.* Inquiries, settings and draws are arbitrary. `MaskInv` ties the
vector and the response to the history variable `mask`, `PickInv` ties the mask
to `random_picks`, and `OfferInv` says that until a vector is built what the
setting before offered are parts of the last picks, which the next picks then
avoid; that two channels of 80 or 160 MHz share no part is `DisjointParts`. The
limit of a wide channel is the least of a list of powers that the code fills by
scanning the mask: the list has as many entries as the channel has parts only
if it is the parts (`PartsCount`, `ListedIsParts`, by counting), and a least one
exists (`FiniteHasLeast`, by well-foundedness).

*RF measurement.* The invariant `Inv` follows the packets from the tester to the
verdict. The driver turns them into lists twice, once to find the lengths to
trigger on, once to group the rows of the csv file by three. For the lengths
`DurationsCover` shows, by the least number of packets for which it fails, that
the list `Covers` the packets seen, each length once; as the captures of the
round go through the list, `EveryLengthTriggered` follows. For the rows
`ThreeRows` says of a list that it holds exactly three consecutive rows of each
packet, which joining two captures keeps (`ThreeRowsJoin`), so that the items of
the report are the packets (`ReportedPackets`); this is where a channel with two
neighbours is needed. `HeardInv` and `SweepInv` say that a sweep
reports what it heard and nothing else, and `VerdictInv` carries the report
into the verdict. `AvailableWideSpectrum` rests on arithmetic: the channel
numbers of the widths differ in their residues (`OneWidth`), so a limit that
`get_sp_limit_by_chan` finds in any class is that of the channel measured
(`LimitedIsGranted`), and a wide channel has one only if every part was granted.

*Control application.* `SignalInv` strengthens `NoSignalForgotten` with where
the for loop stands (a signal behind its position has set `signaled` again).
`TerminationInv` bounds what runs after `vendor_deinit`. `CommandInv` holds
because datagrams are handled in order: a result is never for a command later
than the one being handled, and an OK for that one means that the URL and the
certificate are its own. `AreaInv` follows `geo_area`: of the commands answered
OK that named an area it is the last. For the alarm, `AlarmWillBeCancelled` says
that the next pass of the loop would cancel it, and two conjuncts of `SignalInv`
count: `alarm(0)` comes before the for loop, so that an alarm seen in it, or
after it told the program to end, was scheduled by another signal than the one
that started the pass.

Only model-checked: liveness (`Answered`, `EveryInquiryAnswered`, `Terminates`),
which is out of the prover's reach, and everything about overlapping inquiries
but their types. Every other invariant and action property of a passing run is
a theorem.

## 5. Not modelled

* `set-response` and `reset` are one step each. In the code they assign their
  globals one after the other; a handler between its checks and its build might
  see the old width with the new vector.
* The timeouts of *eloop.c*, which the AFC build never registers, and several
  readers, of which it has one that is never unregistered.
* The layout of packets and TLVs, the log and the wording of results; a
  datagram parses or does not.
* The callbacks for the DUT, tool platform and sniffer roles: not part of the
  AFC build; they run commands on a host.
* The vendor sample of the analyzer driver, a stub, and the upload of the
  tester's program.
* The lists of a response that *routes.py* empties and refills from 620 to 649:
  `Filter` is one step. Only an overlapping inquiry or a get-status in between
  could see a partial list.
* The values of the area and of the location, the expiry time, the inquiry file.
* The web servers in front of the simulators and their TLS set-ups; the server
  validation scripts see them only through the DUT's refusal to connect.
* The manual mode of the scripts, in which a person reads the prompts, their
  report files and the contents of the DUT's configuration.
