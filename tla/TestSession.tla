---------------------------- MODULE TestSession ----------------------------
(***************************************************************************)
(* A test session: the scripts of module TestScripts, one after another,   *)
(* against the simulator of module AFCSimulator and a device under test.   *)
(*                                                                         *)
(* The script and the simulator are the repository's; the DUT, its control *)
(* agent and the RF test equipment are modelled by what the scripts ask of *)
(* them.  An instruction that follows one of the script's waits is taken   *)
(* when the exchange is Quiet, any other one as soon as it is reached, so  *)
(* the script runs ahead of the simulator's threads wherever it may.       *)
(***************************************************************************)
EXTENDS AFCSimulator, TestScripts

CONSTANTS
  Scripts,      \* the scripts the session may run
  MaxScripts,   \* how many scripts a behaviour runs, a bound for TLC
  Triggered,    \* does the DUT send only the inquiries it is asked for?
  Conformant    \* does the DUT do all that the test plan asks of it?

ASSUME SessionAssumption ==
  /\ Scripts \subseteq Script
  /\ Settings(Scripts) \subseteq Setting
  /\ MaxScripts \in Nat
  /\ Triggered \in BOOLEAN /\ Conformant \in BOOLEAN
  /\ 0 \notin Cfi
  /\ ~Prompt                \* the waits are those of the scripts, see Quiet
  /\ Conformant => Triggered /\ ~Overlap

\* In the files of test_vectors a response for vector 1, frequencies, lists no
\* channels, and one for vector 2, channels, no frequency ranges.
ASSUME FilesAssumption ==
  \A name \in DOMAIN VectorFile : /\ name[3] = 1 => VectorFile[name].chan = {}
                                  /\ name[3] = 2 => VectorFile[name].freq = {}

\* What the test plan has a conformant DUT inquire: every time about the same
\* CFIs, enough of them to choose from if the script has the answer drawn, by
\* each of the methods that the vectors of the scripts are about.
Fewest(s) ==
  IF s.family = "SAU" \/ (s.family = "RSA" /\ s.width # 320) THEN 2 ELSE 1
Fits(s, b) ==
  /\ b.json /\ b.faults = {} /\ b.country = CountryCode
  /\ s.vector \in {1, 3} => b.has_freq_range /\ req_cfi_bwX(b) \subseteq b.freq
  /\ s.vector \in {2, 3} => b.has_channel /\ req_cfi_bwX(b) \subseteq b.chan
  /\ Cardinality(req_cfi_bwX(b)) >= Fewest(s)

ASSUME ConformantAssumption ==
  Conformant =>
    /\ \A s \in Scripts : s.family # "USV" =>
                           s.vector # 0 /\ \A b \in Body : Fits(s, b)
    /\ \A b, c \in Body : req_cfi_bwX(b) = req_cfi_bwX(c)

\* The file of phase 1 of UAU grants all that its vector is about, that of
\* phase 2 and those of USA nothing.
ASSUME GrantsAssumption ==
  \A v \in 1..3 :
    /\ {<<CountryCode, "UAU", v, 1>>, <<CountryCode, "UAU", v, 2>>,
        <<CountryCode, "USA", v, 0>>} \subseteq DOMAIN VectorFile
    /\ VectorFile[<<CountryCode, "UAU", v, 1>>] =
         [chan |-> IF v \in {2, 3} THEN Cfi ELSE {}, freq |-> IF v \in {1, 3} THEN Cfi ELSE {}]
    /\ VectorFile[<<CountryCode, "UAU", v, 2>>] = NoSpectrum
    /\ VectorFile[<<CountryCode, "USA", v, 0>>] = NoSpectrum

NoScript == [family |-> "USV", role |-> "AP", vector |-> 0, width |-> 20, run |-> 0]

VARIABLES
  script,       \* the script that runs, or NoScript
  step,         \* the next instruction of its program
  afc_resp,     \* what it last got from get-status
  measured,     \* its measurements (InstructionLib.append_measurements)
  started,      \* scripts started so far
  dut           \* the device under test

session == <<script, step, afc_resp, measured, started, dut>>
allVars == <<vars, session>>

\* A DUT that has just been reset or power cycled.  due: an inquiry it was
\* asked for and has not sent; awaiting: inquiries whose HTTP response it
\* waits for; permitted: the spectrum of its last answer; op_channel: where
\* it operates with standard power, 0 if nowhere; handshake: how its last
\* TLS handshake failed.
ResetDut == [due |-> FALSE, awaiting |-> {}, permitted |-> NoSpectrum,
             op_channel |-> 0, handshake |-> "none"]
NoStatus == [receivedRequest |-> NoBody, sentResponse |-> EmptyReply,
             valid_request |-> FALSE]

Measurement ==
  [name: {"SP_OPERATION", "SEND_REQUEST", "REQUEST_VALID", "CONFORM", "NO_REQUEST"},
   phase: 1..2, value: BOOLEAN,
   inquiry: Inquiry \cup {NoBody}, channel: Cfi \cup {0}]

Length == Len(Program(script))
Stopped == Length + 2               \* execute() returned early
Instruction == Program(script)[step]

SessionTypeOK ==
  /\ TypeOK
  /\ script \in Scripts \cup {NoScript}
  /\ step \in 0..Stopped
  /\ afc_resp \in [receivedRequest: Inquiry \cup {NoBody}, sentResponse: Reply,
                   valid_request: BOOLEAN]
  /\ measured \subseteq Measurement
  /\ started \in 0..MaxScripts
  /\ dut \in [due: BOOLEAN, awaiting: SUBSET Inquiry, permitted: Spectrum,
              op_channel: Cfi \cup {0},
              handshake: {"none", "unknown_ca", "refused"}]

SessionInit ==
  /\ Init
  /\ script = NoScript /\ step = 0 /\ started = 0
  /\ afc_resp = NoStatus /\ measured = {} /\ dut = ResetDut
-----------------------------------------------------------------------------
(***************************************************************************)
(* The script.                                                             *)
(***************************************************************************)
\* The waits outlast the handlers, except one that is held, and the DUT's
\* reaction to an answer or to a trigger.
Quiet ==
  /\ ~dut.due
  /\ \A t \in Inquiry : Active(t) => pc[t] = "hold" /\ hold_response
  /\ \A t \in dut.awaiting : Active(t)

At(operation) ==
  /\ script # NoScript /\ step \in DOMAIN Program(script)
  /\ Instruction[1] = operation
Advance == step' = step + 1
Return == step' = Stopped

ThisPhase == Instruction[2]
Measure(name, value) ==
  [name |-> name, phase |-> ThisPhase, value |-> value, inquiry |-> NoBody, channel |-> 0]

\* InstructionLib.append_measurements
AppendMeasurements(ms) == measured' = measured \cup ms

\* AFCBaseScript.setup, after the last script's teardown.
Setup(s) ==
  /\ script = NoScript /\ started < MaxScripts
  /\ Reset
  /\ script' = s /\ step' = 1 /\ started' = started + 1
  /\ measured' = {} /\ afc_resp' = NoStatus /\ dut' = ResetDut

Configure ==
  /\ At("configure")
  /\ Advance
  /\ UNCHANGED <<vars, script, afc_resp, measured, started, dut>>

\* afcd_configure after the power cycle: the DUT has to inquire unasked.
Reconfigure ==
  /\ At("reconfigure")
  /\ dut' = [dut EXCEPT !.due = TRUE]
  /\ Advance
  /\ UNCHANGED <<vars, script, afc_resp, measured, started>>

PowerCycle ==
  /\ At("power_cycle")
  /\ dut' = ResetDut
  /\ Advance
  /\ UNCHANGED <<vars, script, afc_resp, measured, started>>

\* monitor_allchans_sp_operation, or validate_fc_transmit_power negated.
Monitor ==
  /\ At("monitor")
  /\ AppendMeasurements({Measure("SP_OPERATION", dut.op_channel # 0)})
  /\ Advance
  /\ UNCHANGED <<vars, script, afc_resp, started, dut>>

PostResponse ==
  /\ At("set_response")
  /\ SetResponse(Posted(script, ThisPhase))
  /\ Advance
  /\ UNCHANGED <<script, afc_resp, measured, started, dut>>

PostReset ==
  /\ At("reset")
  /\ Reset
  /\ Advance
  /\ UNCHANGED <<script, afc_resp, measured, started, dut>>

SendRequest ==
  /\ At("send_request")
  /\ dut' = [dut EXCEPT !.due = TRUE]
  /\ Advance
  /\ UNCHANGED <<vars, script, afc_resp, measured, started>>

\* What a script makes of a status that shows a request (verify_req_infor).
VerifyRequestItself(other) ==  \* mutant: the request is recorded as the verdict
  /\ afc_resp' = GetStatus
  /\ AppendMeasurements(
       other \cup {[Measure("REQUEST_VALID", GetStatus.receivedRequest)
                      EXCEPT !.inquiry = GetStatus.receivedRequest]})
  /\ IF GetStatus.valid_request THEN Advance ELSE Return

VerifyRequest(other) ==
  /\ afc_resp' = GetStatus
  /\ AppendMeasurements(
       other \cup {[Measure("REQUEST_VALID", GetStatus.valid_request)
                      EXCEPT !.inquiry = GetStatus.receivedRequest]})
  /\ IF GetStatus.valid_request THEN Advance ELSE Return

\* 10 seconds after the trigger.
CheckRequest ==
  /\ At("check_request") /\ Quiet
  /\ \/ /\ GetStatus.receivedRequest = NoBody
        /\ afc_resp' = GetStatus
        /\ AppendMeasurements({Measure("SEND_REQUEST", FALSE)})
        /\ Return
     \/ /\ GetStatus.receivedRequest # NoBody
        /\ VerifyRequest({Measure("SEND_REQUEST", TRUE)})
  /\ UNCHANGED <<vars, script, started, dut>>

\* get-status twelve times, every five seconds, until it shows a request.
PollRequest ==
  /\ At("poll_request")
  /\ \/ /\ GetStatus.receivedRequest # NoBody
        /\ VerifyRequest({})
     \/ /\ GetStatus.receivedRequest = NoBody /\ Quiet
        /\ afc_resp' = GetStatus
        /\ AppendMeasurements({Measure("NO_REQUEST", dut.op_channel # 0)})
        /\ Return
  /\ UNCHANGED <<vars, script, started, dut>>

CheckNoRequest ==
  /\ At("check_no_request") /\ Quiet
  /\ afc_resp' = GetStatus
  /\ \/ /\ GetStatus.receivedRequest # NoBody
        /\ AppendMeasurements({Measure("SEND_REQUEST", TRUE)})
        /\ Advance
     \/ /\ GetStatus.receivedRequest = NoBody
        /\ \/ dut.handshake = "none"
           \/ dut.handshake = "unknown_ca" /\ script.run \notin {2, 8}
        /\ Return /\ UNCHANGED measured
     \/ /\ GetStatus.receivedRequest = NoBody
        /\ \/ dut.handshake = "refused"
           \/ dut.handshake = "unknown_ca" /\ script.run \in {2, 8}
        /\ AppendMeasurements({Measure("SEND_REQUEST", FALSE)})
        /\ Advance
  /\ UNCHANGED <<vars, script, started, dut>>

ReleaseResponse ==
  /\ At("release_response")
  /\ SetParams(FALSE)
  /\ Advance
  /\ UNCHANGED <<script, afc_resp, measured, started, dut>>

\* The channels on which get_sp_limit_by_freq, _by_chan or _by_both finds a
\* limit in the response sr.
SpLimitsEither(sr) ==          \* mutant: by_both takes either limit
  IF script.vector = 1 THEN sr.response.spectrum.freq
  ELSE IF script.vector = 2 THEN sr.response.spectrum.chan
  ELSE sr.response.spectrum.chan \cup sr.response.spectrum.freq

SpLimits(sr) ==
  IF script.vector = 1 THEN sr.response.spectrum.freq
  ELSE IF script.vector = 2 THEN sr.response.spectrum.chan
  ELSE sr.response.spectrum.chan \cap sr.response.spectrum.freq

\* 60 seconds later: ask the DUT for its operating channel and compare the
\* power measured there with the response in afc_resp, which the SAU scripts
\* read anew after the release.  get_info may fail; for a DUT that operates
\* nowhere there is no channel to convert, and the script breaks off.
ValidateRf ==
  LET status == IF script.family = "SAU" /\ ThisPhase = 2 THEN GetStatus ELSE afc_resp
      channel == dut.op_channel
      Result(value) == [Measure("CONFORM", value) EXCEPT !.channel = channel]
  IN
  /\ At("validate_rf") /\ Quiet
  /\ afc_resp' = status
  /\ \/ /\ ~Conformant
        /\ AppendMeasurements({Measure("CONFORM", FALSE)})
        /\ Return
     \/ /\ channel = 0
        /\ Return /\ UNCHANGED measured
     \/ /\ channel # 0 /\ channel \notin SpLimits(status.sentResponse)
        /\ AppendMeasurements({Result(FALSE)})
        /\ Advance
     \/ /\ channel # 0 /\ channel \in SpLimits(status.sentResponse)
        /\ \E value \in IF Conformant THEN {TRUE} ELSE BOOLEAN :
             AppendMeasurements({Result(value)})
        /\ Advance
  /\ UNCHANGED <<vars, script, started, dut>>

\* Only the STA scripts and USA, whose trigger was 10 seconds ago, wait.
MonitorNothingGranted ==
  /\ At("monitor_nothing_granted")
  /\ script.role = "STA" => Quiet
  /\ AppendMeasurements({[Measure("CONFORM", dut.op_channel = 0)
                             EXCEPT !.channel = dut.op_channel]})
  /\ Advance
  /\ UNCHANGED <<vars, script, afc_resp, started, dut>>

\* AFCBaseScript.teardown, after the last instruction or an early return.
Teardown ==
  /\ script # NoScript /\ step \notin DOMAIN Program(script)
  /\ Reset
  /\ script' = NoScript /\ step' = 0
  /\ UNCHANGED <<afc_resp, measured, started, dut>>

ScriptStep ==
  \/ Configure \/ Reconfigure \/ PowerCycle \/ Monitor \/ PostResponse \/ PostReset
  \/ SendRequest \/ CheckRequest \/ PollRequest \/ CheckNoRequest \/ ReleaseResponse
  \/ ValidateRf \/ MonitorNothingGranted \/ Teardown
-----------------------------------------------------------------------------
(***************************************************************************)
(* The device under test (external).                                       *)
(***************************************************************************)
Refuses == Conformant /\ script.family = "USV"

DutSends(t, b) ==
  /\ dut.due \/ ~Triggered
  /\ ~Refuses
  /\ Receive(t, b)
  /\ dut' = [dut EXCEPT !.due = FALSE, !.awaiting = @ \cup {t}]
  /\ UNCHANGED <<script, step, afc_resp, measured, started>>

\* It does not send what it was asked for, perhaps because it does not trust
\* the server, as the server validation scripts want it.
DutDoesNotSend ==
  /\ dut.due
  /\ ~Conformant \/ Refuses
  /\ \E h \in IF Conformant
              THEN {IF script.run \in {2, 8} THEN "unknown_ca" ELSE "refused"}
              ELSE {"none", "unknown_ca", "refused"} :
       dut' = [dut EXCEPT !.due = FALSE, !.handshake = h]
  /\ UNCHANGED <<vars, script, step, afc_resp, measured, started>>

\* What an answer lets a DUT operate on that heeds all of it.
Usable(s) == IF s.chan = {} THEN s.freq
             ELSE IF s.freq = {} THEN s.chan
             ELSE s.chan \cap s.freq

\* It takes the HTTP response of an inquiry, and changes its operation if
\* that grants it other spectrum.
DutTakesAnswer(t) ==
  /\ t \in dut.awaiting /\ reply[t].status # "none"
  /\ LET heard == [dut EXCEPT !.awaiting = @ \ {t}]
         granted == reply[t].response.spectrum
     IN  \/ /\ ~Granted(t)
            /\ dut' = heard
         \/ /\ Granted(t) /\ Usable(granted) = {}
            /\ dut' = [heard EXCEPT !.permitted = granted, !.op_channel = 0]
         \/ /\ Granted(t)
            /\ \E c \in Usable(granted) :
                 dut' = [heard EXCEPT !.permitted = granted, !.op_channel = c]
  /\ UNCHANGED <<vars, script, step, afc_resp, measured, started>>

\* A DUT that does not conform operates wherever it likes.
DutStrays(c) ==
  /\ ~Conformant
  /\ dut' = [dut EXCEPT !.op_channel = c]
  /\ UNCHANGED <<vars, script, step, afc_resp, measured, started>>

Handler(t) == Handle(t) /\ UNCHANGED session

DutReacts == \/ DutDoesNotSend
             \/ dut.due /\ \E t \in Inquiry, b \in Body : DutSends(t, b)
             \/ \E t \in Inquiry : DutTakesAnswer(t)

SessionNext ==
  \/ \E s \in Scripts : Setup(s)
  \/ ScriptStep
  \/ \E t \in Inquiry, b \in Body : DutSends(t, b)
  \/ DutDoesNotSend
  \/ \E t \in Inquiry : DutTakesAnswer(t) \/ Handler(t)
  \/ \E c \in Cfi \cup {0} : DutStrays(c)

SessionSpec == SessionInit /\ [][SessionNext]_allVars

\* The script's waits are bounded, its HTTP calls return and the framework
\* always calls teardown; handler threads are scheduled; the DUT reacts to a
\* trigger or an answer, if only by not sending.
FairSessionSpec ==
  /\ SessionSpec
  /\ WF_allVars(ScriptStep) /\ WF_allVars(DutReacts)
  /\ \A t \in Inquiry : WF_allVars(Handler(t))
-----------------------------------------------------------------------------
(***************************************************************************)
(* Properties.                                                             *)
(***************************************************************************)
\* The SAU scripts measure "standard power in the band before the Spectrum
\* Inquiry Response" while they hold the response.  No inquiry, not even one
\* that was under way when the hold was set, is granted spectrum meanwhile.
NoGrantWhileHeld ==
  [][\A t \in Inquiry : ~Granted(t) /\ Granted(t)' => ~hold_response]_allVars

\* A DUT that does all that the test plan asks for passes every script: no
\* script returns early and every measurement has the wanted value, although
\* the scripts poll and post while handlers are at work.
Wanted(m) == IF m.name \in {"SP_OPERATION", "NO_REQUEST"} THEN FALSE
             ELSE IF m.name = "SEND_REQUEST" THEN script.family # "USV"
             ELSE TRUE
ConformantPasses ==
  Conformant /\ script # NoScript =>
    step # Stopped /\ \A m \in measured : m.value = Wanted(m)

\* When the DUT inquires at least two channels, an access point that passes
\* both RF measurements of an RSA or SAU script has changed its channel: the
\* simulator never offers in phase 2 what it picked in phase 1.
SecondPhaseMoves ==
  /\ script.family \in {"RSA", "SAU"} /\ script.role = "AP"
  /\ \A t \in Inquiry : reply[t].status # "none" =>
       Cardinality(req_cfi_bwX(body[t])) >= 2
  => \A m, n \in measured :
       /\ m.name = "CONFORM" /\ n.name = "CONFORM" /\ m.value /\ n.value
       /\ m.phase = 1 /\ n.phase = 2
       => m.channel # n.channel

\* The first request of a session is recorded as valid only if nothing but the
\* certificationId list can be wrong with it, which the handler does not look
\* into when it is empty.  In a later script a handler that the previous one
\* did not wait for may accept its request after the reset, and valid_request
\* then vouches for the new script's request.
Acceptable(b) ==
  b.json /\ (b.faults # {} => "noCert" \in b.faults
                             /\ b.faults \subseteq {"noCert", "rulesetType"})
FirstVerdict ==
  started = 1 =>
    \A m \in measured :
      m.name = "REQUEST_VALID" /\ m.phase = 1 /\ m.value =>
        Acceptable(body[m.inquiry])

\* A power measurement passes only on a channel that the answer the DUT was
\* last given permits, although the script compares with a response it read
\* from get-status a minute before.
JudgedByOwnAnswer ==
  [][\A m \in measured' \ measured :
       m.name = "CONFORM" /\ m.value /\ m.channel # 0 =>
         m.channel \in Usable(dut.permitted)]_allVars

\* Every inquiry is answered before the session ends: a script that returns
\* while its response is held still releases it.
EveryInquiryAnswered == \A t \in Inquiry : Active(t) ~> ~Active(t)
=============================================================================
