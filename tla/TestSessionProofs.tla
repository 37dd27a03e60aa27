-------------------------- MODULE TestSessionProofs --------------------------
(***************************************************************************)
(* Proofs about test sessions, for any scripts, settings, bodies and       *)
(* devices under test.                                                     *)
(*                                                                         *)
(* The script's instructions and the DUT are one environment of the        *)
(* simulator: a session is a behaviour of AFCSimulator, so what is proved  *)
(* of the simulator holds in it.  NoGrantWhileHeld does not hold of the    *)
(* simulator alone, where set-params may start to hold a response that the *)
(* handler has already copied; it holds in sessions because a script holds *)
(* responses by set-response only, which also takes them away.             *)
(*                                                                         *)
(* The other two are about what a script concludes in its first phase, when *)
(* the DUT sends the inquiries it is asked for, one at a time.             *)
(*                                                                         *)
(* FirstVerdict: nothing is inquired before the script triggers it, so the *)
(* only inquiry there is when check_request reads the status is the one    *)
(* that was triggered; valid_request is cleared by the setup's reset and   *)
(* set by a handler that has run its checks, which can only be the handler *)
(* of that inquiry.                                                        *)
(*                                                                         *)
(* JudgedByOwnAnswer: the order in which the instructions of a script may  *)
(* follow one another puts a wait for a request between a set_response and *)
(* the RF verdict, and a DUT awaits nothing when a script sets the         *)
(* response; so what get-status shows when the verdict is formed is the    *)
(* answer the DUT has taken, and it lists the spectrum that the script's   *)
(* vector asks about.                                                      *)
(***************************************************************************)
EXTENDS TestSession, AFCSimulatorProofs, SequenceTheorems, FiniteSetTheorems

Operation == {"configure", "reconfigure", "power_cycle", "monitor", "set_response",
              "reset", "send_request", "check_request", "poll_request",
              "check_no_request", "release_response", "validate_rf",
              "monitor_nothing_granted"}
Instructions == Operation \X (1..2)
-----------------------------------------------------------------------------
(* The programs of the scripts. *)
LEMMA PhaseType ==
  ASSUME NEW ops \in Seq(Operation)
  PROVE  /\ Phase(1, ops) \in Seq(Instructions)
         /\ Phase(2, ops) \in Seq(Instructions)
<1>1. DOMAIN ops = 1..Len(ops) /\ Len(ops) \in Nat
  OBVIOUS
<1>2. /\ Phase(1, ops) \in [1..Len(ops) -> Instructions]
      /\ Phase(2, ops) \in [1..Len(ops) -> Instructions]
  BY <1>1 DEF Phase, Instructions
<1> QED BY <1>1, <1>2

LEMMA ConcatType ==
  ASSUME NEW S, NEW s \in Seq(S), NEW u \in Seq(S)
  PROVE  s \o u \in Seq(S)
OBVIOUS

LEMMA FirstPhaseType ==
  ASSUME NEW s
  PROVE  FirstPhase(s) \in Seq(Instructions)
<1>1. /\ <<"configure", "monitor">> \in Seq(Operation)
      /\ <<"configure">> \in Seq(Operation)
      /\ <<"set_response", "send_request", "check_request">> \in Seq(Operation)
  BY DEF Operation
<1> DEFINE opening == IF s.role = "AP" THEN <<"configure", "monitor">> ELSE <<"configure">>
<1>2. opening \in Seq(Operation)
  BY <1>1
<1>3. opening \o <<"set_response", "send_request", "check_request">> \in Seq(Operation)
  BY <1>1, <1>2, ConcatType
<1> QED BY <1>3, PhaseType, Zenon DEF FirstPhase

LEMMA ProgramType ==
  ASSUME NEW s
  PROVE  Program(s) \in Seq(Instructions)
<1>1. FirstPhase(s) \in Seq(Instructions)
  BY FirstPhaseType
<1>2. Phase(1, <<"validate_rf">>) \in Seq(Instructions)
  <2>1. <<"validate_rf">> \in Seq(Operation)
    BY DEF Operation
  <2> QED BY <2>1, PhaseType
<1>3. RSAProgram(s) \in Seq(Instructions)
  <2>1. <<"set_response", "send_request", "check_request", "validate_rf">>
          \in Seq(Operation)
    BY DEF Operation
  <2>2. Phase(2, <<"set_response", "send_request", "check_request", "validate_rf">>)
          \in Seq(Instructions)
    BY <2>1, PhaseType
  <2> QED BY <1>1, <1>2, <2>2, ConcatType DEF RSAProgram
<1>4. USAProgram(s) \in Seq(Instructions)
  <2>1. <<"monitor_nothing_granted">> \in Seq(Operation)
    BY DEF Operation
  <2>2. Phase(1, <<"monitor_nothing_granted">>) \in Seq(Instructions)
    BY <2>1, PhaseType
  <2> QED BY <1>1, <2>2, ConcatType DEF USAProgram
<1>5. PowerCycled \in Seq(Operation)
  BY DEF PowerCycled, Operation
<1>6. SAUProgram(s) \in Seq(Instructions)
  <2>1. <<"monitor", "release_response", "validate_rf">> \in Seq(Operation)
    BY DEF Operation
  <2>2. Phase(2, PowerCycled \o <<"monitor", "release_response", "validate_rf">>)
          \in Seq(Instructions)
    BY <1>5, <2>1, ConcatType, PhaseType
  <2> QED BY <1>1, <1>2, <2>2, ConcatType DEF SAUProgram
<1>7. UAUProgram(s) \in Seq(Instructions)
  <2>1. <<"monitor_nothing_granted">> \in Seq(Operation)
    BY DEF Operation
  <2>2. Phase(2, PowerCycled \o <<"monitor_nothing_granted">>) \in Seq(Instructions)
    BY <1>5, <2>1, ConcatType, PhaseType
  <2> QED BY <1>1, <1>2, <2>2, ConcatType DEF UAUProgram
<1>8. USVProgram(s) \in Seq(Instructions)
  <2>1. <<"configure", "reset", "send_request", "check_no_request">> \in Seq(Operation)
    BY DEF Operation
  <2> QED BY <2>1, PhaseType DEF USVProgram
<1> QED BY <1>3, <1>4, <1>6, <1>7, <1>8 DEF Program

\* The server validation scripts post no response, so every setting that is
\* posted is one of Settings(Scripts).
LEMMA PostedIsSetting ==
  ASSUME NEW s \in Scripts, NEW i \in DOMAIN Program(s),
         Program(s)[i][1] = "set_response"
  PROVE  Posted(s, Program(s)[i][2]) \in Setting
<1>1. Program(s)[i] \in Instructions
  BY ProgramType
<1>2. Program(s)[i][2] \in 1..2
  BY <1>1 DEF Instructions
<1>3. s.family # "USV"
  <2>1. SUFFICES ASSUME s.family = "USV" PROVE FALSE
    OBVIOUS
  <2>2. Program(s) = Phase(1, <<"configure", "reset", "send_request", "check_no_request">>)
    BY <2>1 DEF Program, USVProgram
  <2>3. /\ i \in 1..4
        /\ Program(s)[i][1]
             = <<"configure", "reset", "send_request", "check_no_request">>[i]
    BY <2>2 DEF Phase
  <2> QED BY <2>3
<1> QED BY <1>2, <1>3, SessionAssumption DEF Settings
-----------------------------------------------------------------------------
(* What a session does to the simulator. *)
SimulatorStep ==
  \/ \E t \in Inquiry : (\E b \in Body : Receive(t, b)) \/ Handle(t)
  \/ \E tc \in Setting : SetResponse(tc)
  \/ SetParams(FALSE)
  \/ Reset

LEMMA SessionMoves ==
  ASSUME SessionTypeOK, [SessionNext]_allVars
  PROVE  [SimulatorStep]_vars
<1>1. ASSUME NEW s \in Scripts, Setup(s) PROVE SimulatorStep
  BY <1>1 DEF Setup, SimulatorStep
<1>2. CASE ScriptStep
  <2>1. CASE Configure \/ Reconfigure \/ PowerCycle \/ Monitor \/ SendRequest
             \/ CheckRequest \/ PollRequest \/ CheckNoRequest \/ ValidateRf
             \/ MonitorNothingGranted
    BY <2>1 DEF Configure, Reconfigure, PowerCycle, Monitor, SendRequest, CheckRequest,
                PollRequest, CheckNoRequest, ValidateRf, MonitorNothingGranted
  <2>2. CASE PostResponse
    <3>1. /\ script \in Scripts /\ step \in DOMAIN Program(script)
          /\ Program(script)[step][1] = "set_response"
      BY <2>2 DEF PostResponse, At, Instruction, SessionTypeOK
    <3>2. Posted(script, ThisPhase) \in Setting
      BY <3>1, PostedIsSetting DEF ThisPhase, Instruction
    <3> QED BY <2>2, <3>2 DEF PostResponse, SimulatorStep
  <2>3. CASE PostReset \/ Teardown
    BY <2>3 DEF PostReset, Teardown, SimulatorStep
  <2>4. CASE ReleaseResponse
    BY <2>4 DEF ReleaseResponse, SimulatorStep
  <2> QED BY <1>2, <2>1, <2>2, <2>3, <2>4, Zenon DEF ScriptStep
<1>3. ASSUME NEW t \in Inquiry, NEW b \in Body, DutSends(t, b) PROVE SimulatorStep
  BY <1>3 DEF DutSends, SimulatorStep
<1>4. CASE DutDoesNotSend
  BY <1>4 DEF DutDoesNotSend
<1>5. ASSUME NEW t \in Inquiry, DutTakesAnswer(t) PROVE UNCHANGED vars
  BY <1>5 DEF DutTakesAnswer
<1>6. ASSUME NEW t \in Inquiry, Handler(t) PROVE SimulatorStep
  BY <1>6 DEF Handler, SimulatorStep
<1>7. ASSUME NEW c \in Cfi \cup {0}, DutStrays(c) PROVE UNCHANGED vars
  BY <1>7 DEF DutStrays
<1>8. CASE UNCHANGED allVars
  BY <1>8 DEF allVars
<1> QED BY <1>1, <1>2, <1>3, <1>4, <1>5, <1>6, <1>7, <1>8, Zenon DEF SessionNext

LEMMA SimulatorMoves == SimulatorStep => Next
BY DEF SimulatorStep, Next
-----------------------------------------------------------------------------
(* Types. *)
LEMMA StatusType ==
  ASSUME TypeOK
  PROVE  GetStatus \in [receivedRequest: Inquiry \cup {NoBody}, sentResponse: Reply,
                        valid_request: BOOLEAN]
<1>1. Dumped \in Reply
  BY DumpedType
<1>2. recv_request \in Inquiry \cup {NoBody} /\ valid_request \in BOOLEAN
  BY DEF TypeOK
<1> QED BY <1>1, <1>2 DEF GetStatus

LEMMA LengthType ==
  ASSUME NEW s
  PROVE  /\ Len(Program(s)) \in Nat
         /\ DOMAIN Program(s) = 1..Len(Program(s))
         /\ \A i \in DOMAIN Program(s) : Program(s)[i] \in Operation \X (1..2)
BY ProgramType DEF Instructions

\* Where the script is, what it knows and what it has measured.
ScriptType ==
  /\ script \in Scripts \cup {NoScript}
  /\ step \in 0..Stopped
  /\ started \in 0..MaxScripts
KnownType ==
  /\ afc_resp \in [receivedRequest: Inquiry \cup {NoBody}, sentResponse: Reply,
                   valid_request: BOOLEAN]
  /\ measured \subseteq Measurement
DutType ==
  dut \in [due: BOOLEAN, awaiting: SUBSET Inquiry, permitted: Spectrum,
           op_channel: Cfi \cup {0}, handshake: {"none", "unknown_ca", "refused"}]

LEMMA SessionTypeParts == SessionTypeOK <=> TypeOK /\ ScriptType /\ KnownType /\ DutType
BY Zenon DEF SessionTypeOK, ScriptType, KnownType, DutType

LEMMA InitSessionType == SessionInit => SessionTypeOK /\ TypeInv
<1> SUFFICES ASSUME SessionInit PROVE SessionTypeOK /\ TypeInv
  OBVIOUS
<1>1. TypeInv /\ TypeOK
  BY InitType DEF SessionInit, TypeInv
<1>2. ScriptType
  BY LengthType, SessionAssumption DEF SessionInit, ScriptType, Stopped, Length
<1>3. BlankResponse \in Response
  BY DEF BlankResponse, Response, NoSpectrum, Spectrum
<1>4. NoStatus \in [receivedRequest: Inquiry \cup {NoBody}, sentResponse: Reply,
                    valid_request: BOOLEAN]
  BY <1>3 DEF NoStatus, EmptyReply, Reply
<1>5. KnownType
  BY <1>4 DEF SessionInit, KnownType
<1>6. DutType
  BY DEF SessionInit, DutType, ResetDut, NoSpectrum, Spectrum
<1> QED BY <1>1, <1>2, <1>5, <1>6, SessionTypeParts

\* An instruction leads to the next one or ends the script.
LEMMA StepType ==
  ASSUME ScriptType, step \in DOMAIN Program(script), Advance \/ Return,
         UNCHANGED <<script, started>>
  PROVE  ScriptType'
<1>1. Len(Program(script)) \in Nat /\ step \in 1..Len(Program(script))
  BY LengthType
<1>2. Stopped' = Stopped /\ Stopped = Len(Program(script)) + 2
  BY DEF Stopped, Length
<1>3. step' \in 0..Stopped
  BY <1>1, <1>2 DEF Advance, Return
<1> QED BY <1>2, <1>3 DEF ScriptType

LEMMA NextScriptType ==
  ASSUME SessionTypeOK, [SessionNext]_allVars
  PROVE  ScriptType'
<1>0. ScriptType
  BY SessionTypeParts
<1>1. ASSUME NEW s \in Scripts, Setup(s) PROVE ScriptType'
  BY <1>0, <1>1, LengthType, SessionAssumption DEF Setup, ScriptType, Stopped, Length
<1>2. CASE ScriptStep
  <2>1. CASE Teardown
    BY <1>0, <2>1, LengthType DEF Teardown, ScriptType, Stopped, Length
  <2>2. CASE ~Teardown
    <3>1. /\ step \in DOMAIN Program(script)
          /\ Advance \/ Return
          /\ UNCHANGED <<script, started>>
      BY <1>2, <2>2, Zenon
      DEF ScriptStep, Configure, Reconfigure, PowerCycle, Monitor, PostResponse, PostReset,
          SendRequest, CheckRequest, PollRequest, CheckNoRequest, ReleaseResponse,
          ValidateRf, MonitorNothingGranted, VerifyRequest, At
    <3> QED BY <1>0, <3>1, StepType
  <2> QED BY <2>1, <2>2
<1>3. ASSUME UNCHANGED <<script, step, started>> PROVE ScriptType'
  BY <1>0, <1>3 DEF ScriptType, Stopped, Length
<1> QED BY <1>1, <1>2, <1>3, Zenon
    DEF SessionNext, DutSends, DutDoesNotSend, DutTakesAnswer, Handler, DutStrays, session,
        allVars

LEMMA MeasureType ==
  ASSUME step \in DOMAIN Program(script),
         NEW name \in {"SP_OPERATION", "SEND_REQUEST", "REQUEST_VALID", "CONFORM",
                       "NO_REQUEST"},
         NEW value \in BOOLEAN, NEW t \in Inquiry \cup {NoBody}, NEW c \in Cfi \cup {0}
  PROVE  /\ Measure(name, value) \in Measurement
         /\ [Measure(name, value) EXCEPT !.inquiry = t] \in Measurement
         /\ [Measure(name, value) EXCEPT !.channel = c] \in Measurement
<1>1. ThisPhase \in 1..2
  BY LengthType DEF ThisPhase, Instruction
<1> QED BY <1>1 DEF Measure, Measurement

LEMMA VerifyType ==
  ASSUME TypeOK, KnownType, step \in DOMAIN Program(script), NEW other,
         other \subseteq Measurement, VerifyRequest(other)
  PROVE  KnownType'
<1>1. /\ GetStatus \in [receivedRequest: Inquiry \cup {NoBody}, sentResponse: Reply,
                        valid_request: BOOLEAN]
      /\ GetStatus.valid_request \in BOOLEAN
      /\ GetStatus.receivedRequest \in Inquiry \cup {NoBody}
  BY StatusType
<1>2. [Measure("REQUEST_VALID", GetStatus.valid_request)
         EXCEPT !.inquiry = GetStatus.receivedRequest] \in Measurement
  BY <1>1, MeasureType
<1> QED BY <1>1, <1>2, Zenon DEF VerifyRequest, KnownType, AppendMeasurements

LEMMA NextKnownType ==
  ASSUME SessionTypeOK, [SessionNext]_allVars
  PROVE  KnownType'
<1>0. TypeOK /\ KnownType /\ DutType
  BY SessionTypeParts
<1>a. GetStatus \in [receivedRequest: Inquiry \cup {NoBody}, sentResponse: Reply,
                     valid_request: BOOLEAN]
  BY <1>0, StatusType
<1>b. dut.op_channel \in Cfi \cup {0}
  BY <1>0 DEF DutType
<1>1. ASSUME NEW s \in Scripts, Setup(s) PROVE KnownType'
  <2>1. NoStatus \in [receivedRequest: Inquiry \cup {NoBody}, sentResponse: Reply,
                      valid_request: BOOLEAN]
    BY DEF NoStatus, EmptyReply, Reply, BlankResponse, Response, NoSpectrum, Spectrum
  <2> QED BY <1>1, <2>1 DEF Setup, KnownType
<1>2. CASE ScriptStep
  <2>1. CASE Monitor
    <3>1. Measure("SP_OPERATION", dut.op_channel # 0) \in Measurement
      BY <2>1, <1>b, MeasureType DEF Monitor, At
    <3> QED BY <1>0, <2>1, <3>1, Zenon DEF Monitor, AppendMeasurements, KnownType
  <2>2. CASE CheckRequest
    <3>1. /\ step \in DOMAIN Program(script)
          /\ {Measure("SEND_REQUEST", FALSE)} \subseteq Measurement
          /\ {Measure("SEND_REQUEST", TRUE)} \subseteq Measurement
      BY <2>2, <1>b, MeasureType DEF CheckRequest, At
    <3>2. CASE VerifyRequest({Measure("SEND_REQUEST", TRUE)})
      BY <1>0, <3>1, <3>2, VerifyType
    <3>3. CASE afc_resp' = GetStatus /\ AppendMeasurements({Measure("SEND_REQUEST", FALSE)})
      BY <1>0, <1>a, <3>1, <3>3, Zenon DEF AppendMeasurements, KnownType
    <3> QED BY <2>2, <3>2, <3>3, Zenon DEF CheckRequest
  <2>3. CASE PollRequest
    <3>1. /\ step \in DOMAIN Program(script)
          /\ Measure("NO_REQUEST", dut.op_channel # 0) \in Measurement
      BY <2>3, <1>b, MeasureType DEF PollRequest, At
    <3>2. CASE VerifyRequest({})
      BY <1>0, <3>1, <3>2, VerifyType
    <3>3. CASE /\ afc_resp' = GetStatus
               /\ AppendMeasurements({Measure("NO_REQUEST", dut.op_channel # 0)})
      BY <1>0, <1>a, <3>1, <3>3, Zenon DEF AppendMeasurements, KnownType
    <3> QED BY <2>3, <3>2, <3>3, Zenon DEF PollRequest
  <2>4. CASE CheckNoRequest
    <3>1. /\ Measure("SEND_REQUEST", TRUE) \in Measurement
          /\ Measure("SEND_REQUEST", FALSE) \in Measurement
      BY <2>4, <1>b, MeasureType DEF CheckNoRequest, At
    <3> QED BY <1>0, <1>a, <2>4, <3>1, Zenon
        DEF CheckNoRequest, AppendMeasurements, KnownType
  <2>5. CASE ValidateRf
    <3>1. \A value \in BOOLEAN :
            /\ Measure("CONFORM", value) \in Measurement
            /\ [Measure("CONFORM", value) EXCEPT !.channel = dut.op_channel] \in Measurement
      BY <2>5, <1>b, MeasureType DEF ValidateRf, At
    <3>2. afc_resp' \in {GetStatus, afc_resp}
      BY <2>5 DEF ValidateRf
    <3>3. measured' \subseteq Measurement
      BY <1>0, <2>5, <3>1, Zenon DEF ValidateRf, AppendMeasurements, KnownType
    <3> QED BY <1>0, <1>a, <3>2, <3>3 DEF KnownType
  <2>6. CASE MonitorNothingGranted
    <3>1. [Measure("CONFORM", dut.op_channel = 0) EXCEPT !.channel = dut.op_channel]
            \in Measurement
      BY <2>6, <1>b, MeasureType DEF MonitorNothingGranted, At
    <3> QED BY <1>0, <2>6, <3>1, Zenon
        DEF MonitorNothingGranted, AppendMeasurements, KnownType
  <2>7. ASSUME UNCHANGED <<afc_resp, measured>> PROVE KnownType'
    BY <1>0, <2>7 DEF KnownType
  <2> QED BY <1>2, <2>1, <2>2, <2>3, <2>4, <2>5, <2>6, <2>7, Zenon
      DEF ScriptStep, Configure, Reconfigure, PowerCycle, PostResponse, PostReset,
          SendRequest, ReleaseResponse, Teardown
<1>3. ASSUME UNCHANGED <<afc_resp, measured>> PROVE KnownType'
  BY <1>0, <1>3 DEF KnownType
<1> QED BY <1>1, <1>2, <1>3, Zenon
    DEF SessionNext, DutSends, DutDoesNotSend, DutTakesAnswer, Handler, DutStrays, session,
        allVars

LEMMA NextDutType ==
  ASSUME SessionTypeOK, [SessionNext]_allVars
  PROVE  DutType'
<1>0. TypeOK /\ DutType
  BY SessionTypeParts
<1>1. ASSUME NEW s \in Scripts, Setup(s) PROVE DutType'
  BY <1>1 DEF Setup, DutType, ResetDut, NoSpectrum, Spectrum
<1>2. CASE ScriptStep
  <2>1. CASE Reconfigure \/ SendRequest
    BY <1>0, <2>1 DEF Reconfigure, SendRequest, DutType
  <2>2. CASE PowerCycle
    BY <2>2 DEF PowerCycle, DutType, ResetDut, NoSpectrum, Spectrum
  <2>3. ASSUME UNCHANGED dut PROVE DutType'
    BY <1>0, <2>3 DEF DutType
  <2> QED BY <1>2, <2>1, <2>2, <2>3, Zenon
      DEF ScriptStep, Configure, Monitor, PostResponse, PostReset, CheckRequest,
          PollRequest, CheckNoRequest, ReleaseResponse, ValidateRf,
          MonitorNothingGranted, Teardown
<1>3. ASSUME NEW t \in Inquiry, NEW b \in Body, DutSends(t, b) PROVE DutType'
  BY <1>0, <1>3 DEF DutSends, DutType
<1>4. CASE DutDoesNotSend
  BY <1>0, <1>4 DEF DutDoesNotSend, DutType
<1>5. ASSUME NEW t \in Inquiry, DutTakesAnswer(t) PROVE DutType'
  <2> DEFINE granted == reply[t].response.spectrum
             heard == [dut EXCEPT !.awaiting = @ \ {t}]
  <2>1. granted \in Spectrum /\ Usable(granted) \subseteq Cfi
    BY <1>0 DEF TypeOK, Reply, Response, Spectrum, Usable
  <2>2. heard \in [due: BOOLEAN, awaiting: SUBSET Inquiry, permitted: Spectrum,
                   op_channel: Cfi \cup {0},
                   handshake: {"none", "unknown_ca", "refused"}]
    BY <1>0 DEF DutType
  <2>3. \/ dut' = heard
        \/ dut' = [heard EXCEPT !.permitted = granted, !.op_channel = 0]
        \/ \E c \in Usable(granted) :
             dut' = [heard EXCEPT !.permitted = granted, !.op_channel = c]
    BY <1>5, Zenon DEF DutTakesAnswer
  <2> HIDE DEF granted, heard
  <2> QED BY <2>1, <2>2, <2>3 DEF DutType
<1>6. ASSUME NEW c \in Cfi \cup {0}, DutStrays(c) PROVE DutType'
  BY <1>0, <1>6 DEF DutStrays, DutType
<1>7. ASSUME UNCHANGED dut PROVE DutType'
  BY <1>0, <1>7 DEF DutType
<1> QED BY <1>1, <1>2, <1>3, <1>4, <1>5, <1>6, <1>7, Zenon
    DEF SessionNext, Handler, session, allVars

LEMMA NextSessionType ==
  SessionTypeOK /\ TypeInv /\ [SessionNext]_allVars => SessionTypeOK' /\ TypeInv'
<1> SUFFICES ASSUME SessionTypeOK, TypeInv, [SessionNext]_allVars
             PROVE  SessionTypeOK' /\ TypeInv'
  OBVIOUS
<1>1. [Next]_vars
  BY SessionMoves, SimulatorMoves
<1>2. TypeInv' /\ TypeOK'
  BY <1>1, NextType DEF TypeInv
<1>3. ScriptType' /\ KnownType' /\ DutType'
  BY NextScriptType, NextKnownType, NextDutType
<1> QED BY <1>2, <1>3, Zenon DEF SessionTypeOK, ScriptType, KnownType, DutType

\* Every reachable state of a session is type correct: a script's execute()
\* never runs past its end, whatever the DUT sends.
THEOREM SessionTypeCorrect == SessionSpec => []SessionTypeOK
BY InitSessionType, NextSessionType, PTL DEF SessionSpec

\* Scripts and DUT do nothing to the simulator that its own specification does
\* not allow: what the server validation scripts and an early return leave
\* unset included, so what holds of the simulator holds in every session.
THEOREM SessionImplementsSimulator == SessionSpec => Spec
<1>1. SessionInit => Init
  BY DEF SessionInit
<1>2. SessionTypeOK /\ [SessionNext]_allVars => [Next]_vars
  BY SessionMoves, SimulatorMoves
<1> QED BY <1>1, <1>2, SessionTypeCorrect, PTL DEF SessionSpec, Spec
-----------------------------------------------------------------------------
(* A response that is held. *)

\* While hold_response is set, a handler that has left the loop which polls it
\* finds no response to give: set-response took away the vector it would copy
\* and the object it was filling.
HeldInv ==
  hold_response =>
    \A t \in Inquiry :
      /\ pc[t] = "copy" => "responses" \notin vectors.keys
      /\ pc[t] \in {"stamp", "filter", "send"} => sent_response = Unsent

Late == {"copy", "stamp", "filter", "send"}

\* How a handler comes to the steps after the loop.
LEMMA LateSteps ==
  ASSUME TypeInv, NEW t \in Inquiry, Handle(t), pc'[t] \in Late
  PROVE  Release(t) \/ Copy(t) \/ Stamp(t) \/ Filter(t)
<1>1. CASE \/ Parse(t) \/ Validate(t) \/ CheckVector(t) \/ Build(t) \/ Publish(t)
           \/ AppendResponse(t) \/ Accept(t) \/ Load(t) \/ Send(t)
  <2>1. pc'[t] \in {"validate", "check", "build", "publish", "append", "accept",
                    "load", "hold", "sendError", "done"}
    BY <1>1 DEF Parse, Validate, CheckVector, Build, Publish, AppendResponse, Accept,
                Load, Send, gen_err_resp, Goto, TypeInv, TypeOK
  <2> QED BY <2>1 DEF Late
<1> QED BY <1>1, Zenon DEF Handle

LEMMA NextHeld ==
  ASSUME ~Overlap, TypeInv, SequentialInv, HeldInv, [SimulatorStep]_vars
  PROVE  HeldInv'
<1>1. ASSUME NEW t \in Inquiry, (\E b \in Body : Receive(t, b)) \/ Handle(t)
      PROVE  HeldInv'
  <2>1. OthersRest(t)
    BY <1>1, HandlerFrame DEF SequentialInv
  <2>2. hold_response' = hold_response
    BY <1>1 DEF Receive, Handle, Parse, Validate, CheckVector, Build, Publish,
                AppendResponse, Accept, Load, Release, Copy, Stamp, Filter, Send, globals
  <2>3. SUFFICES ASSUME hold_response, NEW u \in Inquiry, pc'[u] \in Late
                 PROVE  /\ pc'[u] = "copy" => "responses" \notin vectors'.keys
                        /\ pc'[u] \in {"stamp", "filter", "send"} => sent_response' = Unsent
    BY <2>2 DEF HeldInv, Late
  <2>4. u = t
    BY <2>1, <2>3 DEF OthersRest, Active, Late
  <2>5. ~ \E b \in Body : Receive(t, b)
    <3>1. SUFFICES ASSUME NEW b \in Body, Receive(t, b) PROVE FALSE
      OBVIOUS
    <3>2. \E next \in {"done", "sendError", "parse"} : Goto(t, next)
      BY <3>1, Zenon DEF Receive, gen_err_resp
    <3>3. pc'[t] \in {"done", "sendError", "parse"}
      BY <3>2 DEF Goto, TypeInv, TypeOK
    <3> QED BY <2>3, <2>4, <3>3 DEF Late
  <2>6. Release(t) \/ Copy(t) \/ Stamp(t) \/ Filter(t)
    BY <1>1, <2>3, <2>4, <2>5, LateSteps
  <2>7. CASE Release(t)
    BY <2>3, <2>7 DEF Release
  <2>8. CASE Copy(t)
    <3>1. "responses" \notin vectors.keys
      BY <2>3, <2>8 DEF Copy, HeldInv
    <3>2. pc'[t] = "sendError"
      BY <2>8, <3>1 DEF Copy, gen_err_resp, Goto, TypeInv, TypeOK
    <3> QED BY <2>3, <2>4, <3>2 DEF Late
  <2>9. CASE Stamp(t)
    <3>1. sent_response = Unsent
      BY <2>3, <2>9 DEF Stamp, HeldInv
    <3>2. pc'[t] = "sendError"
      BY <2>9, <3>1 DEF Stamp, gen_err_resp, Goto, TypeInv, TypeOK
    <3> QED BY <2>3, <2>4, <3>2 DEF Late
  <2>10. CASE Filter(t)
    <3>1. sent_response = Unsent /\ sent_response' = sent_response
      BY <2>3, <2>10 DEF Filter, HeldInv, globals
    <3>2. pc'[t] = "send"
      BY <2>10 DEF Filter, Goto, TypeInv, TypeOK
    <3> QED BY <2>4, <3>1, <3>2
  <2> QED BY <2>6, <2>7, <2>8, <2>9, <2>10
<1>2. ASSUME NEW tc \in Setting, SetResponse(tc) PROVE HeldInv'
  BY <1>2 DEF SetResponse, NewExchange, HeldInv
<1>3. CASE SetParams(FALSE)
  BY <1>3 DEF SetParams, HeldInv
<1>4. CASE Reset
  BY <1>4 DEF Reset, HeldInv
<1>5. CASE UNCHANGED vars
  BY <1>5 DEF vars, globals, HeldInv
<1> QED BY <1>1, <1>2, <1>3, <1>4, <1>5 DEF SimulatorStep

\* Only Send makes an answer a grant, of what sent_response refers to.
LEMMA GrantIsUnheld ==
  ASSUME ~Overlap, TypeInv, SequentialInv, HeldInv, [SimulatorStep]_vars,
         NEW t \in Inquiry, ~Granted(t), Granted(t)'
  PROVE  ~hold_response
<1>1. reply'[t] # reply[t]
  BY DEF Granted
<1>2. PICK u \in Inquiry : (\E b \in Body : Receive(u, b)) \/ Handle(u)
  BY <1>1 DEF SimulatorStep, SetResponse, SetParams, Reset, threads, vars
<1>3. u = t
  <2>1. OthersRest(u)
    BY <1>2, HandlerFrame DEF SequentialInv
  <2> QED BY <1>1, <2>1 DEF OthersRest
<1>4. reply'[t] \notin {BadRequest, ServerError}
  BY DEF Granted, BadRequest, ServerError
<1>5. Send(t)
  <2>1. ~ \E b \in Body : Receive(t, b)
    <3>1. SUFFICES ASSUME NEW b \in Body, Receive(t, b) PROVE FALSE
      OBVIOUS
    <3>2. reply' = [reply EXCEPT ![t] = BadRequest] \/ reply' = reply
      BY <3>1, Zenon DEF Receive
    <3> QED BY <1>1, <1>4, <3>2 DEF TypeInv, TypeOK
  <2>2. ~AppendResponse(t)
    BY <1>1, <1>4 DEF AppendResponse, TypeInv, TypeOK
  <2> QED BY <1>1, <1>2, <1>3, <2>1, <2>2
      DEF Handle, Parse, Validate, CheckVector, Build, Publish, Accept, Load, Release,
          Copy, Stamp, Filter, threads
<1>6. reply'[t] = Dumped
  BY <1>5 DEF Send, TypeInv, TypeOK
<1>7. sent_response # Unsent /\ heap[sent_response].code = 0
  BY <1>6 DEF Granted, Dumped, EmptyReply
<1>8. pc[t] = "send"
  BY <1>5, <1>7 DEF Send, SequentialInv, HandlerInv, FillsOwnObject
<1> QED BY <1>7, <1>8 DEF HeldInv

\* The responses that the SAU scripts hold are given to no DUT that sends one
\* inquiry at a time, conformant or not, before they are released.
THEOREM NothingGrantedWhileHeld ==
  ASSUME ~Overlap PROVE SessionSpec => NoGrantWhileHeld
<1> DEFINE Inv == SessionTypeOK /\ TypeInv /\ SequentialInv /\ HeldInv
<1>1. SessionInit => Inv
  BY InitSessionType, InitSequential DEF SessionInit, Init, HeldInv
<1>2. Inv /\ [SessionNext]_allVars => Inv'
  <2> SUFFICES ASSUME Inv, [SessionNext]_allVars PROVE Inv'
    OBVIOUS
  <2>1. [SimulatorStep]_vars /\ [Next]_vars
    BY SessionMoves, SimulatorMoves
  <2>2. SessionTypeOK' /\ TypeInv'
    BY NextSessionType
  <2>3. SequentialInv'
    BY <2>1, <2>2, NextSequential
  <2>4. HeldInv'
    BY <2>1, NextHeld
  <2> QED BY <2>2, <2>3, <2>4
<1>3. Inv /\ [SessionNext]_allVars =>
        [\A t \in Inquiry : ~Granted(t) /\ Granted(t)' => ~hold_response]_allVars
  BY SessionMoves, GrantIsUnheld
<1> QED BY <1>1, <1>2, <1>3, PTL DEF SessionSpec, NoGrantWhileHeld
-----------------------------------------------------------------------------
(* The instructions that lead to a verdict. *)
\* The instruction that triggers the first inquiry.
Trigger(s) ==
  IF s.family \in {"RSA", "USA", "SAU", "UAU"} /\ s.role = "AP" THEN 4 ELSE 3

Triggers == {"send_request", "reconfigure"}
Verifies == {"check_request", "poll_request"}
-----------------------------------------------------------------------------
(* The programs. *)
LEMMA ConcatElement ==
  ASSUME NEW S, NEW p \in Seq(S), NEW q \in Seq(S)
  PROVE  /\ Len(p \o q) = Len(p) + Len(q)
         /\ \A i \in 1..Len(p) : (p \o q)[i] = p[i]
         /\ \A i \in DOMAIN (p \o q) :
              i > Len(p) => i - Len(p) \in DOMAIN q /\ (p \o q)[i] = q[i - Len(p)]
OBVIOUS

LEMMA PhaseElement ==
  ASSUME NEW phi, NEW ops \in Seq(Operation)
  PROVE  /\ Len(Phase(phi, ops)) = Len(ops)
         /\ DOMAIN Phase(phi, ops) = DOMAIN ops
         /\ \A i \in DOMAIN ops : /\ Phase(phi, ops)[i][1] = ops[i]
                                  /\ Phase(phi, ops)[i][2] = phi
<1>1. DOMAIN ops = 1..Len(ops) /\ Len(ops) \in Nat
  OBVIOUS
<1> QED BY <1>1 DEF Phase

\* Nothing inquires or verifies before the trigger, one instruction follows it,
\* and what is verified after that is a request of phase 2.
Shaped(s, p) ==
  /\ p \in Seq(Instructions) /\ Len(p) >= Trigger(s) + 1
  /\ \A i \in 1..Len(p) :
       /\ i < Trigger(s) => p[i][1] \notin Triggers \cup Verifies
       /\ i = Trigger(s) => p[i][1] \notin Verifies
       /\ i > Trigger(s) + 1 /\ p[i][1] \in Verifies => p[i][2] = 2

LEMMA FirstPhaseShape ==
  ASSUME NEW s, s.family \in {"RSA", "USA", "SAU", "UAU"}
  PROVE  Shaped(s, FirstPhase(s))
<1> DEFINE opening == IF s.role = "AP" THEN <<"configure", "monitor">> ELSE <<"configure">>
           first == <<"set_response", "send_request", "check_request">>
<1>1. FirstPhase(s) \in Seq(Instructions)
  BY FirstPhaseType
<1>2. opening \in Seq(Operation) /\ first \in Seq(Operation)
  <2>1. /\ <<"configure", "monitor">> \in Seq(Operation)
        /\ <<"configure">> \in Seq(Operation)
        /\ first \in Seq(Operation)
    BY DEF Operation
  <2> QED BY <2>1
<1>3. /\ Len(opening) = Trigger(s) - 2 /\ Len(first) = 3
      /\ \A i \in 1..Len(opening) : opening[i] \notin Triggers \cup Verifies
      /\ first[1] \notin Triggers \cup Verifies /\ first[2] \notin Verifies
  <2>1. CASE s.role = "AP"
    BY <2>1 DEF Trigger, Triggers, Verifies
  <2>2. CASE s.role # "AP"
    BY <2>2 DEF Trigger, Triggers, Verifies
  <2> QED BY <2>1, <2>2
<1>4. FirstPhase(s) = Phase(1, opening \o first)
  BY DEF FirstPhase
<1>5. opening \o first \in Seq(Operation)
  BY <1>2, ConcatType
<1>6. /\ Len(FirstPhase(s)) = Len(opening \o first)
      /\ \A i \in 1..Len(opening \o first) : FirstPhase(s)[i][1] = (opening \o first)[i]
  <2> HIDE DEF opening, first
  <2>1. DOMAIN (opening \o first) = 1..Len(opening \o first)
    BY <1>5
  <2>2. /\ Len(Phase(1, opening \o first)) = Len(opening \o first)
        /\ \A i \in DOMAIN (opening \o first) :
             Phase(1, opening \o first)[i][1] = (opening \o first)[i]
    BY <1>5, PhaseElement
  <2> QED BY <1>4, <2>1, <2>2, Zenon
<1>7. /\ Len(opening \o first) = Trigger(s) + 1
      /\ \A i \in 1..Len(opening \o first) :
           (opening \o first)[i] = IF i < Trigger(s) - 1 THEN opening[i]
                                  ELSE first[i - (Trigger(s) - 2)]
  <2> HIDE DEF opening, first
  <2>1. Trigger(s) \in {3, 4}
    BY DEF Trigger
  <2>2. /\ Len(opening \o first) = Len(opening) + Len(first)
        /\ \A i \in 1..Len(opening) : (opening \o first)[i] = opening[i]
        /\ \A i \in DOMAIN (opening \o first) :
             i > Len(opening) => (opening \o first)[i] = first[i - Len(opening)]
        /\ DOMAIN (opening \o first) = 1..Len(opening \o first)
    BY <1>2, <1>5, ConcatElement
  <2> QED BY <1>3, <2>1, <2>2
<1>8. Trigger(s) \in {3, 4}
  BY DEF Trigger
<1> HIDE DEF opening, first
<1> QED BY <1>1, <1>3, <1>6, <1>7, <1>8 DEF Shaped, Verifies

\* What follows the first phase verifies nothing, or a request of phase 2.
Follows(q) ==
  /\ q \in Seq(Instructions)
  /\ \A i \in DOMAIN q : q[i][1] \in Verifies => q[i][2] = 2

LEMMA ShapedExtended ==
  ASSUME NEW s, NEW p, NEW q, Shaped(s, p), Follows(q)
  PROVE  Shaped(s, p \o q)
<1>1. Trigger(s) \in Nat /\ Len(p) \in Nat /\ Len(q) \in Nat
  BY DEF Trigger, Shaped, Follows
<1>2. /\ Len(p \o q) = Len(p) + Len(q)
      /\ \A i \in 1..Len(p) : (p \o q)[i] = p[i]
      /\ \A i \in DOMAIN (p \o q) :
           i > Len(p) => i - Len(p) \in DOMAIN q /\ (p \o q)[i] = q[i - Len(p)]
  BY ConcatElement DEF Shaped, Follows
<1>3. p \o q \in Seq(Instructions) /\ DOMAIN (p \o q) = 1..Len(p \o q)
  BY ConcatType DEF Shaped, Follows
<1> QED BY <1>1, <1>2, <1>3 DEF Shaped, Follows

LEMMA FollowsParts ==
  ASSUME NEW ops \in Seq(Operation)
  PROVE  /\ Follows(Phase(2, ops))
         /\ (\A i \in DOMAIN ops : ops[i] \notin Verifies) => Follows(Phase(1, ops))
BY PhaseType, PhaseElement DEF Follows

\* The shape of every program.
LEMMA ProgramShape ==
  ASSUME NEW s
  PROVE  Shaped(s, Program(s))
<1>1. Follows(Phase(1, <<"validate_rf">>))
      /\ Follows(Phase(1, <<"monitor_nothing_granted">>))
  <2>1. <<"validate_rf">> \in Seq(Operation) /\ <<"monitor_nothing_granted">> \in Seq(Operation)
    BY DEF Operation
  <2>2. \A i \in DOMAIN <<"validate_rf">> : <<"validate_rf">>[i] \notin Verifies
    BY DEF Verifies
  <2>3. \A i \in DOMAIN <<"monitor_nothing_granted">> :
          <<"monitor_nothing_granted">>[i] \notin Verifies
    BY DEF Verifies
  <2> QED BY <2>1, <2>2, <2>3, FollowsParts
<1>2. CASE s.family = "RSA"
  <2>1. <<"set_response", "send_request", "check_request", "validate_rf">> \in Seq(Operation)
    BY DEF Operation
  <2>2. Follows(Phase(2, <<"set_response", "send_request", "check_request", "validate_rf">>))
    BY <2>1, FollowsParts
  <2>3. Shaped(s, RSAProgram(s))
    <3>1. Shaped(s, FirstPhase(s) \o Phase(1, <<"validate_rf">>))
      BY <1>1, <1>2, FirstPhaseShape, ShapedExtended
    <3> QED BY <2>2, <3>1, ShapedExtended DEF RSAProgram
  <2> QED BY <1>2, <2>3, Zenon DEF Program
<1>3. CASE s.family = "USA"
  <2>1. Shaped(s, USAProgram(s))
    BY <1>1, <1>3, FirstPhaseShape, ShapedExtended DEF USAProgram
  <2> QED BY <1>3, <2>1, Zenon DEF Program
<1>4. PowerCycled \in Seq(Operation)
  BY DEF PowerCycled, Operation
<1>5. CASE s.family = "SAU"
  <2>1. <<"monitor", "release_response", "validate_rf">> \in Seq(Operation)
    BY DEF Operation
  <2>2. Follows(Phase(2, PowerCycled \o <<"monitor", "release_response", "validate_rf">>))
    BY <1>4, <2>1, ConcatType, FollowsParts
  <2>3. Shaped(s, SAUProgram(s))
    <3>1. Shaped(s, FirstPhase(s) \o Phase(1, <<"validate_rf">>))
      BY <1>1, <1>5, FirstPhaseShape, ShapedExtended
    <3> QED BY <2>2, <3>1, ShapedExtended DEF SAUProgram
  <2> QED BY <1>5, <2>3, Zenon DEF Program
<1>6. CASE s.family = "UAU"
  <2>1. <<"monitor_nothing_granted">> \in Seq(Operation)
    BY DEF Operation
  <2>2. Follows(Phase(2, PowerCycled \o <<"monitor_nothing_granted">>))
    BY <1>4, <2>1, ConcatType, FollowsParts
  <2>3. Shaped(s, UAUProgram(s))
    <3>1. Shaped(s, FirstPhase(s) \o Phase(1, <<"validate_rf">>))
      BY <1>1, <1>6, FirstPhaseShape, ShapedExtended
    <3> QED BY <2>2, <3>1, ShapedExtended DEF UAUProgram
  <2> QED BY <1>6, <2>3, Zenon DEF Program
<1>7. CASE s.family \notin {"RSA", "USA", "SAU", "UAU"}
  <2> DEFINE ops == <<"configure", "reset", "send_request", "check_no_request">>
  <2>1. Program(s) = Phase(1, ops) /\ Trigger(s) = 3
    BY <1>7 DEF Program, USVProgram, Trigger
  <2>2. ops \in Seq(Operation)
    BY DEF Operation
  <2>3. /\ Phase(1, ops) \in Seq(Instructions)
        /\ Len(Phase(1, ops)) = 4
        /\ \A i \in 1..4 : Phase(1, ops)[i][1] = ops[i]
    <3> HIDE DEF ops
    <3>1. DOMAIN ops = 1..4 /\ Len(ops) = 4
      BY DEF ops
    <3>2. /\ Phase(1, ops) \in Seq(Instructions)
          /\ Len(Phase(1, ops)) = Len(ops)
          /\ \A i \in DOMAIN ops : Phase(1, ops)[i][1] = ops[i]
      BY <2>2, PhaseType, PhaseElement
    <3> QED BY <3>1, <3>2, Zenon
  <2> HIDE DEF ops
  <2>4. ops[1] = "configure" /\ ops[2] = "reset" /\ ops[3] = "send_request"
    BY DEF ops
  <2> QED BY <2>1, <2>3, <2>4 DEF Shaped, Triggers, Verifies
<1> QED BY <1>2, <1>3, <1>5, <1>6, <1>7
-----------------------------------------------------------------------------
(* What the simulator contributes. *)

\* A request that get-status shows has arrived, and what has passed the checks
\* is acceptable.
ChecksInv ==
  /\ recv_request # NoBody => pc[recv_request] # "idle"
  /\ \A t \in Inquiry : pc[t] \in Checked => Acceptable(body[t])

\* A step of the handler of t.
HandlerMoves(t) ==
  /\ pc[t] # "idle" /\ pc'[t] # "idle"
  /\ \A u \in Inquiry \ {t} : pc'[u] = pc[u]
  /\ body' = body /\ recv_request' = recv_request
  /\ valid_request' => valid_request \/ Acceptable(body[t])
  /\ pc'[t] \in Checked => Acceptable(body[t])

LEMMA CheckedIsAcceptable ==
  ASSUME TypeInv, SequentialInv, NEW t \in Inquiry, Validate(t), pc'[t] = "check"
  PROVE  Acceptable(body[t])
<1>1. pc[t] = "validate" /\ req[t] = t /\ RequestCode(body[req[t]]) = 0
  <2>1. pc[t] = "validate"
    BY DEF Validate
  <2>2. RequestCode(body[req[t]]) = 0
    BY DEF Validate, gen_err_resp, Goto, TypeInv, TypeOK
  <2> QED BY <2>1, <2>2 DEF SequentialInv, HandlerInv, ReadsOwnBody
<1>2. /\ body[t].json
      /\ "unparsable" \notin body[t].faults /\ "envelope" \notin body[t].faults
  BY <1>1 DEF SequentialInv, HandlerInv, ReadsOwnBody
<1>3. body[t] \in BodyType
  BY DEF TypeInv, TypeOK
<1>4. /\ body[t].faults \subseteq {"unparsable", "envelope", "noCert", "rulesetType"}
      /\ "rulesetType" \in body[t].faults => "noCert" \in body[t].faults
  BY <1>1, <1>3, RequestCodeFacts
<1> QED BY <1>2, <1>4 DEF Acceptable

LEMMA HandlerStep ==
  ASSUME ~Overlap, TypeInv, SequentialInv, ChecksInv, NEW t \in Inquiry, Handle(t)
  PROVE  HandlerMoves(t)
<1>1. \A u \in Inquiry \ {t} : pc'[u] = pc[u]
  BY HandlerFrame DEF SequentialInv, OthersRest
<1>2. body' = body /\ recv_request' = recv_request
  BY DEF Handle, Parse, Validate, CheckVector, Build, Publish, AppendResponse, Accept,
         Load, Release, Copy, Stamp, Filter, Send, globals, threads
<1>3. pc[t] # "idle"
  BY DEF Handle, Parse, Validate, CheckVector, Build, Publish, AppendResponse, Accept,
         Load, Release, Copy, Stamp, Filter, Send
<1>4. pc'[t] # "idle"
  BY DEF Handle, Parse, Validate, CheckVector, Build, Publish, AppendResponse, Accept,
         Load, Release, Copy, Stamp, Filter, Send, gen_err_resp, Goto, TypeInv, TypeOK
<1>5. valid_request' => valid_request \/ Acceptable(body[t])
  <2>1. CASE Accept(t)
    BY <2>1 DEF Accept, ChecksInv, Checked
  <2>2. CASE ~Accept(t)
    BY <2>2 DEF Handle, Parse, Validate, CheckVector, Build, Publish, AppendResponse,
                Load, Release, Copy, Stamp, Filter, Send, globals
  <2> QED BY <2>1, <2>2
<1>6. pc'[t] \in Checked => Acceptable(body[t])
  <2>1. CASE pc[t] \in Checked
    BY <2>1 DEF ChecksInv
  <2>2. CASE Parse(t)
    BY <2>2 DEF Parse, gen_err_resp, Goto, Checked, TypeInv, TypeOK
  <2>3. CASE Validate(t)
    <3>1. pc'[t] \in {"check", "sendError"}
      BY <2>3 DEF Validate, gen_err_resp, Goto, TypeInv, TypeOK
    <3> QED BY <2>3, <3>1, CheckedIsAcceptable DEF Checked
  <2>4. CASE Send(t)
    BY <2>4 DEF Send, Goto, Checked, TypeInv, TypeOK
  <2> QED BY <2>1, <2>2, <2>3, <2>4
      DEF Handle, CheckVector, Build, Publish, AppendResponse, Accept, Load, Release,
          Copy, Stamp, Filter, Checked
<1> QED BY <1>1, <1>2, <1>3, <1>4, <1>5, <1>6 DEF HandlerMoves

\* The arrival of a request.
RequestArrives(t) ==
  /\ pc[t] = "idle" /\ pc'[t] # "idle" /\ pc'[t] \notin Checked
  /\ \A u \in Inquiry \ {t} : pc'[u] = pc[u] /\ body'[u] = body[u]
  /\ recv_request' \in {recv_request, NoBody, t}
  /\ valid_request' = valid_request

LEMMA ReceiveStep ==
  ASSUME TypeInv, NEW t \in Inquiry, NEW b \in Body, Receive(t, b)
  PROVE  RequestArrives(t)
<1>1. /\ pc[t] = "idle" /\ valid_request' = valid_request
      /\ body' = [body EXCEPT ![t] = b]
  BY DEF Receive
<1>2. /\ pc' \in {[pc EXCEPT ![t] = "done"], [pc EXCEPT ![t] = "sendError"],
                  [pc EXCEPT ![t] = "parse"]}
      /\ recv_request' \in {recv_request, NoBody, t}
  BY Zenon DEF Receive, gen_err_resp, Goto
<1> QED BY <1>1, <1>2 DEF RequestArrives, Checked, TypeInv, TypeOK

\* Whatever else happens in a session.
Rests == /\ UNCHANGED <<pc, body>>
         /\ recv_request' \in {recv_request, NoBody}
         /\ valid_request' => valid_request

LEMMA SessionStep ==
  ASSUME ~Overlap, SessionTypeOK, TypeInv, SequentialInv, ChecksInv,
         [SessionNext]_allVars
  PROVE  \/ \E t \in Inquiry : Handler(t) /\ HandlerMoves(t)
         \/ \E t \in Inquiry, b \in Body : DutSends(t, b) /\ RequestArrives(t)
         \/ (\E s \in Scripts : Setup(s)) /\ Rests /\ ~valid_request'
         \/ ScriptStep /\ Rests
         \/ DutDoesNotSend /\ Rests
         \/ UNCHANGED <<script, step, started, measured>> /\ dut'.due = dut.due /\ Rests
<1>1. ASSUME NEW t \in Inquiry, Handler(t) PROVE HandlerMoves(t)
  BY <1>1, HandlerStep DEF Handler
<1>2. ASSUME NEW t \in Inquiry, NEW b \in Body, DutSends(t, b) PROVE RequestArrives(t)
  BY <1>2, ReceiveStep DEF DutSends
<1>3. ASSUME Reset PROVE Rests /\ ~valid_request'
  BY <1>3 DEF Reset, NewExchange, Rests, threads
<1>4. ASSUME UNCHANGED vars PROVE Rests
  BY <1>4 DEF vars, globals, threads, Rests
<1>5. ASSUME NEW tc, SetResponse(tc) PROVE Rests
  BY <1>5 DEF SetResponse, NewExchange, Rests, threads
<1>6. ASSUME NEW h, SetParams(h) PROVE Rests
  BY <1>6 DEF SetParams, Rests, threads
<1>7. CASE ScriptStep
  BY <1>3, <1>4, <1>5, <1>6, <1>7, Zenon
  DEF ScriptStep, Configure, Reconfigure, PowerCycle, Monitor, PostResponse, PostReset,
      SendRequest, CheckRequest, PollRequest, CheckNoRequest, ReleaseResponse, ValidateRf,
      MonitorNothingGranted, Teardown
<1>8. ASSUME NEW s \in Scripts, Setup(s) PROVE Rests /\ ~valid_request'
  BY <1>3, <1>8 DEF Setup
<1>9. CASE DutDoesNotSend
  BY <1>4, <1>9 DEF DutDoesNotSend
<1>10. ASSUME NEW t \in Inquiry, DutTakesAnswer(t)
       PROVE  UNCHANGED <<script, step, started, measured>> /\ dut'.due = dut.due /\ Rests
  <2> DEFINE granted == reply[t].response.spectrum
             heard == [dut EXCEPT !.awaiting = @ \ {t}]
  <2>1. heard.due = dut.due /\ DOMAIN heard = DOMAIN dut /\ "due" \in DOMAIN dut
    BY DEF SessionTypeOK
  <2>2. \/ dut' = heard
        \/ dut' = [heard EXCEPT !.permitted = granted, !.op_channel = 0]
        \/ \E c \in Usable(granted) :
             dut' = [heard EXCEPT !.permitted = granted, !.op_channel = c]
    BY <1>10, Zenon DEF DutTakesAnswer
  <2>3. dut'.due = dut.due
    <3> HIDE DEF heard, granted
    <3> QED BY <2>1, <2>2
  <2> QED BY <1>4, <1>10, <2>3 DEF DutTakesAnswer
<1>11. ASSUME NEW c \in Cfi \cup {0}, DutStrays(c)
       PROVE  UNCHANGED <<script, step, started, measured>> /\ dut'.due = dut.due /\ Rests
  BY <1>4, <1>11 DEF DutStrays, SessionTypeOK
<1>12. CASE UNCHANGED allVars
  BY <1>4, <1>12 DEF allVars, session
<1> QED BY <1>1, <1>2, <1>7, <1>8, <1>9, <1>10, <1>11, <1>12, Zenon DEF SessionNext
-----------------------------------------------------------------------------
(* What the script contributes. *)

First(m) == m.name = "REQUEST_VALID" /\ m.phase = 1 /\ m.value

\* A verdict on phase 1 comes from the status that a check has just read.
LEMMA VerdictIsRead ==
  ASSUME ScriptStep, NEW m \in measured', m \notin measured, First(m)
  PROVE  /\ Instruction[1] \in Verifies /\ Instruction[2] = 1
         /\ recv_request # NoBody /\ m.inquiry = recv_request /\ valid_request
<1>1. Instruction[1] \in Verifies
  <2>0. m \in measured' /\ m \notin measured
    OBVIOUS
  <2>1. SUFFICES ASSUME ~CheckRequest, ~PollRequest PROVE FALSE
    BY DEF CheckRequest, PollRequest, At, Verifies
  <2>2. CASE Monitor \/ CheckNoRequest \/ ValidateRf \/ MonitorNothingGranted
    <3>1. m.name # "REQUEST_VALID"
      <4>1. CASE Monitor
        BY <2>0, <4>1 DEF Monitor, AppendMeasurements, Measure
      <4>2. CASE CheckNoRequest
        BY <2>0, <4>2 DEF CheckNoRequest, AppendMeasurements, Measure
      <4>3. CASE ValidateRf
        <5>1. \E value \in BOOLEAN :
                \/ m = Measure("CONFORM", value)
                \/ m = [Measure("CONFORM", value) EXCEPT !.channel = dut.op_channel]
          BY <2>0, <4>3 DEF ValidateRf, AppendMeasurements
        <5> QED BY <5>1 DEF Measure
      <4>4. CASE MonitorNothingGranted
        BY <2>0, <4>4 DEF MonitorNothingGranted, AppendMeasurements, Measure
      <4> QED BY <2>2, <4>1, <4>2, <4>3, <4>4
    <3> QED BY <3>1 DEF First
  <2> QED BY <2>1, <2>2, Zenon
      DEF ScriptStep, Configure, Reconfigure, PowerCycle, PostResponse, PostReset,
          SendRequest, ReleaseResponse, Teardown
<1>2. CheckRequest \/ PollRequest
  BY <1>1, Zenon
  DEF ScriptStep, Configure, Reconfigure, PowerCycle, Monitor, PostResponse, PostReset,
      SendRequest, CheckNoRequest, ReleaseResponse, ValidateRf, MonitorNothingGranted,
      Teardown, At, Verifies
<1> DEFINE read == [Measure("REQUEST_VALID", GetStatus.valid_request)
                      EXCEPT !.inquiry = GetStatus.receivedRequest]
<1>3. m.name = "REQUEST_VALID"
  BY DEF First
<1>4. GetStatus.receivedRequest # NoBody /\ m = read
  <2>1. m \notin {Measure("SEND_REQUEST", FALSE), Measure("SEND_REQUEST", TRUE),
                  Measure("NO_REQUEST", dut.op_channel # 0)}
    BY <1>3 DEF Measure
  <2>2. CASE CheckRequest
    BY <2>1, <2>2 DEF CheckRequest, VerifyRequest, AppendMeasurements
  <2>3. CASE PollRequest
    BY <2>1, <2>3 DEF PollRequest, VerifyRequest, AppendMeasurements
  <2> QED BY <1>2, <2>2, <2>3
<1>5. /\ GetStatus.receivedRequest = recv_request /\ GetStatus.valid_request = valid_request
  BY DEF GetStatus
<1>6. /\ read.inquiry = GetStatus.receivedRequest /\ read.value = GetStatus.valid_request
      /\ read.phase = Instruction[2]
  BY DEF Measure, ThisPhase
<1> QED BY <1>1, <1>4, <1>5, <1>6 DEF First
-----------------------------------------------------------------------------
(* The two together. *)
Silent == \A t \in Inquiry : pc[t] = "idle"

\* No inquiry has been triggered yet in this session.
Untriggered ==
  \/ started = 0
  \/ started = 1 /\ script # NoScript /\ step <= Trigger(script)

\* The first one has, and the next instruction may verify it.
JustTriggered == started = 1 /\ script # NoScript /\ step = Trigger(script) + 1

VerdictInv ==
  /\ started = 0 => script = NoScript /\ measured = {}
  /\ Untriggered => Silent /\ ~dut.due /\ ~valid_request
  /\ JustTriggered =>
       /\ \A t, u \in Inquiry : pc[t] # "idle" /\ pc[u] # "idle" => t = u
       /\ dut.due => Silent
       /\ valid_request => \E t \in Inquiry : pc[t] # "idle" /\ Acceptable(body[t])
  /\ started = 1 =>
       \A m \in measured :
         First(m) => /\ m.inquiry \in Inquiry /\ pc[m.inquiry] # "idle"
                     /\ Acceptable(body[m.inquiry])

LEMMA InitVerdict ==
  SessionInit => VerdictInv /\ ChecksInv
BY DEF SessionInit, Init, VerdictInv, ChecksInv, Checked, Untriggered, JustTriggered,
       Silent, ResetDut

\* Once begun an inquiry stays begun, with its body.
LEMMA BegunStays ==
  ASSUME NEW t \in Inquiry,
         \/ Rests
         \/ \E u \in Inquiry : HandlerMoves(u) \/ RequestArrives(u),
         pc[t] # "idle"
  PROVE  pc'[t] # "idle" /\ body'[t] = body[t]
BY DEF Rests, HandlerMoves, RequestArrives

LEMMA NextChecks ==
  ASSUME TypeInv, ChecksInv,
         \/ Rests
         \/ \E u \in Inquiry : HandlerMoves(u) \/ RequestArrives(u)
  PROVE  ChecksInv'
<1>1. recv_request \in Inquiry \cup {NoBody}
  BY DEF TypeInv, TypeOK
<1>2. CASE Rests
  BY <1>2 DEF Rests, ChecksInv
<1>3. ASSUME NEW u \in Inquiry, HandlerMoves(u) PROVE ChecksInv'
  BY <1>1, <1>3 DEF HandlerMoves, ChecksInv
<1>4. ASSUME NEW u \in Inquiry, RequestArrives(u) PROVE ChecksInv'
  BY <1>1, <1>4 DEF RequestArrives, ChecksInv
<1> QED BY <1>2, <1>3, <1>4

\* An instruction of the session's first script.
LEMMA InstructionKeepsVerdict ==
  ASSUME SessionTypeOK, ChecksInv, VerdictInv, ScriptStep, ~Teardown, Rests, started = 1
  PROVE  VerdictInv'
<1>1. /\ script # NoScript /\ step \in DOMAIN Program(script)
      /\ Advance \/ Return
      /\ UNCHANGED <<script, started>>
  BY Zenon
  DEF ScriptStep, Configure, Reconfigure, PowerCycle, Monitor, PostResponse, PostReset,
      SendRequest, CheckRequest, PollRequest, CheckNoRequest, ReleaseResponse,
      ValidateRf, MonitorNothingGranted, VerifyRequest, At
<1>2. Shaped(script, Program(script)) /\ Trigger(script) \in {3, 4}
  BY ProgramShape DEF Trigger
<1>3. /\ Len(Program(script)) \in Nat /\ DOMAIN Program(script) = 1..Len(Program(script))
      /\ Len(Program(script)) >= Trigger(script) + 1
  BY <1>2, LengthType DEF Shaped
<1>4. step' = step + 1 \/ step' = Len(Program(script)) + 2
  BY <1>1 DEF Advance, Return, Stopped, Length
<1>5. /\ step < Trigger(script) => Instruction[1] \notin Triggers \cup Verifies
      /\ step = Trigger(script) => Instruction[1] \notin Verifies
      /\ step > Trigger(script) + 1 /\ Instruction[1] \in Verifies => Instruction[2] = 2
  BY <1>1, <1>2, <1>3 DEF Shaped, Instruction
<1>6. Silent => Silent'
  BY DEF Silent, Rests
\* The measurements.
<1>7. ASSUME NEW m \in measured', First(m)
      PROVE  /\ m.inquiry \in Inquiry /\ pc'[m.inquiry] # "idle"
             /\ Acceptable(body'[m.inquiry])
  <2>1. CASE m \in measured
    BY <1>7, <2>1, BegunStays DEF VerdictInv
  <2>2. CASE m \notin measured
    <3>1. /\ Instruction[1] \in Verifies /\ Instruction[2] = 1
          /\ recv_request # NoBody /\ m.inquiry = recv_request /\ valid_request
      BY <1>7, <2>2, VerdictIsRead
    <3>2. step = Trigger(script) + 1
      BY <1>1, <1>2, <1>3, <1>5, <3>1
    <3>3. m.inquiry \in Inquiry /\ pc[m.inquiry] # "idle"
      BY <3>1 DEF ChecksInv, SessionTypeOK, TypeOK
    <3>4. Acceptable(body[m.inquiry])
      BY <1>1, <3>1, <3>2, <3>3 DEF VerdictInv, JustTriggered
    <3> QED BY <3>3, <3>4, BegunStays
  <2> QED BY <2>1, <2>2
\* Before the trigger.
<1>8. CASE step < Trigger(script)
  <2>1. Silent /\ ~dut.due /\ ~valid_request
    BY <1>1, <1>2, <1>3, <1>8 DEF VerdictInv, Untriggered
  <2>2. ~dut'.due
    <3>1. Instruction[1] \notin Triggers
      BY <1>5, <1>8
    <3>2. dut' = dut \/ dut' = ResetDut
      BY <3>1, Zenon
      DEF ScriptStep, Configure, Reconfigure, PowerCycle, Monitor, PostResponse, PostReset,
          SendRequest, CheckRequest, PollRequest, CheckNoRequest, ReleaseResponse,
          ValidateRf, MonitorNothingGranted, Teardown, At, Triggers
    <3> QED BY <2>1, <3>2 DEF ResetDut
  <2>3. Silent' /\ ~valid_request'
    BY <1>6, <2>1 DEF Rests
  <2> QED BY <1>1, <1>7, <2>2, <2>3 DEF VerdictInv, Silent
\* The trigger, and everything after it.
<1>9. CASE step >= Trigger(script)
  <2>1. ~Untriggered'
    BY <1>1, <1>2, <1>3, <1>4, <1>9 DEF Untriggered
  <2>2. ASSUME JustTriggered' PROVE Silent' /\ ~valid_request'
    <3>1. step = Trigger(script)
      BY <1>1, <1>2, <1>3, <1>4, <1>9, <2>2 DEF JustTriggered
    <3>2. Silent /\ ~valid_request
      BY <1>1, <1>2, <3>1 DEF VerdictInv, Untriggered
    <3> QED BY <1>6, <3>2 DEF Rests
  <2> QED BY <1>1, <1>7, <2>1, <2>2 DEF VerdictInv, Silent
<1> QED BY <1>1, <1>2, <1>3, <1>8, <1>9

\* Every step of a session.
LEMMA NextVerdict ==
  ASSUME Triggered, ~Overlap, SessionTypeOK, TypeInv, SequentialInv, ChecksInv,
         VerdictInv, [SessionNext]_allVars
  PROVE  VerdictInv' /\ ChecksInv'
<1>1. started \in Nat
  BY DEF SessionTypeOK
<1>2. dut.due \in BOOLEAN /\ "due" \in DOMAIN dut
  BY DEF SessionTypeOK
<1>3. ChecksInv'
  BY SessionStep, NextChecks
<1>4. ASSUME NEW t \in Inquiry, Handler(t), HandlerMoves(t) PROVE VerdictInv'
  <2>1. UNCHANGED <<script, step, started, measured, dut>>
    BY <1>4 DEF Handler, session
  <2>2. ~Untriggered
    BY <1>4 DEF HandlerMoves, VerdictInv, Silent
  <2>3. ASSUME JustTriggered
        PROVE  /\ \A u \in Inquiry \ {t} : pc'[u] = "idle"
               /\ ~dut.due /\ pc'[t] # "idle" /\ body'[t] = body[t]
               /\ valid_request' => Acceptable(body[t])
    BY <1>4, <2>3 DEF HandlerMoves, VerdictInv, Silent
  <2>4. started = 1 => \A m \in measured : First(m) =>
          /\ m.inquiry \in Inquiry /\ pc'[m.inquiry] # "idle"
          /\ Acceptable(body'[m.inquiry])
    BY <1>4, BegunStays DEF VerdictInv
  <2>5. started = 0 => script = NoScript /\ measured = {}
    BY DEF VerdictInv
  <2> QED BY <2>1, <2>2, <2>3, <2>4, <2>5
      DEF VerdictInv, Untriggered, JustTriggered
<1>5. ASSUME NEW t \in Inquiry, NEW b \in Body, DutSends(t, b), RequestArrives(t)
      PROVE  VerdictInv'
  <2>1. UNCHANGED <<script, step, started, measured>> /\ dut.due /\ ~dut'.due
    BY <1>2, <1>5 DEF DutSends
  <2>2. ~Untriggered
    BY <2>1 DEF VerdictInv
  <2>3. ASSUME JustTriggered
        PROVE  (\A u \in Inquiry \ {t} : pc'[u] = "idle") /\ ~valid_request'
    BY <1>5, <2>1, <2>3 DEF RequestArrives, VerdictInv, Silent
  <2>4. started = 1 => \A m \in measured : First(m) =>
          /\ m.inquiry \in Inquiry /\ pc'[m.inquiry] # "idle"
          /\ Acceptable(body'[m.inquiry])
    BY <1>5, BegunStays DEF VerdictInv
  <2>5. started = 0 => script = NoScript /\ measured = {}
    BY DEF VerdictInv
  <2> QED BY <2>1, <2>2, <2>3, <2>4, <2>5
      DEF VerdictInv, Untriggered, JustTriggered
<1>6. ASSUME NEW s \in Scripts, Setup(s), Rests, ~valid_request' PROVE VerdictInv'
  <2>1. started' = started + 1 /\ measured' = {} /\ ~dut'.due
    BY <1>6 DEF Setup, ResetDut
  <2>2. started' = 1 => Silent'
    BY <1>1, <1>6, <2>1 DEF VerdictInv, Untriggered, Silent, Rests
  <2> QED BY <1>1, <1>6, <2>1, <2>2 DEF VerdictInv, Untriggered, JustTriggered, Silent
<1>7. ASSUME ScriptStep, Rests PROVE VerdictInv'
  <2>1. script # NoScript /\ started' = started
    BY <1>7, Zenon
    DEF ScriptStep, Configure, Reconfigure, PowerCycle, Monitor, PostResponse, PostReset,
        SendRequest, CheckRequest, PollRequest, CheckNoRequest, ReleaseResponse,
        ValidateRf, MonitorNothingGranted, Teardown, At
  <2>2. started # 0
    BY <2>1 DEF VerdictInv
  <2>3. CASE started # 1
    BY <2>1, <2>2, <2>3 DEF VerdictInv, Untriggered, JustTriggered
  <2>4. CASE started = 1 /\ Teardown
    <3>1. script' = NoScript /\ measured' = measured
      BY <2>4 DEF Teardown
    <3> QED BY <1>7, <2>1, <2>4, <3>1, BegunStays
        DEF VerdictInv, Untriggered, JustTriggered
  <2>5. CASE started = 1 /\ ~Teardown
    BY <1>7, <2>5, InstructionKeepsVerdict
  <2> QED BY <2>3, <2>4, <2>5
<1>8. ASSUME UNCHANGED <<script, step, started, measured>>, dut'.due => dut.due, Rests
      PROVE  VerdictInv'
  <2>1. started = 1 => \A m \in measured : First(m) =>
          /\ m.inquiry \in Inquiry /\ pc'[m.inquiry] # "idle"
          /\ Acceptable(body'[m.inquiry])
    BY <1>8, BegunStays DEF VerdictInv
  <2> QED BY <1>8, <2>1 DEF VerdictInv, Untriggered, JustTriggered, Silent, Rests
<1>9. ASSUME DutDoesNotSend, Rests PROVE VerdictInv'
  <2>1. UNCHANGED <<script, step, started, measured>> /\ ~dut'.due
    BY <1>2, <1>9 DEF DutDoesNotSend
  <2> QED BY <1>8, <1>9, <2>1
<1> QED BY <1>3, <1>4, <1>5, <1>6, <1>7, <1>8, <1>9, SessionStep, Zenon

\* Whatever a DUT posts that inquires when it is asked to and one inquiry at a
\* time: if the first script of a session records the request of its first
\* phase as valid, the request was.
THEOREM FirstVerdictIsRight ==
  ASSUME Triggered, ~Overlap PROVE SessionSpec => []FirstVerdict
<1> DEFINE Inv == SessionTypeOK /\ TypeInv /\ SequentialInv /\ ChecksInv /\ VerdictInv
<1>1. SessionInit => Inv
  BY InitSessionType, InitSequential, InitVerdict DEF SessionInit
<1>2. Inv /\ [SessionNext]_allVars => Inv'
  <2> SUFFICES ASSUME Inv, [SessionNext]_allVars PROVE Inv'
    OBVIOUS
  <2>1. [Next]_vars
    BY SessionMoves, SimulatorMoves
  <2>2. SessionTypeOK' /\ TypeInv'
    BY NextSessionType
  <2>3. SequentialInv'
    BY <2>1, <2>2, NextSequential
  <2>4. VerdictInv' /\ ChecksInv'
    BY NextVerdict
  <2> QED BY <2>2, <2>3, <2>4
<1>3. Inv => FirstVerdict
  BY DEF VerdictInv, First, FirstVerdict
<1> QED BY <1>1, <1>2, <1>3, PTL DEF SessionSpec
-----------------------------------------------------------------------------
(* The order of the instructions. *)

\* Which instruction may follow which in a script.
Follow(s, i, j) ==
  \/ /\ s.family = "USV" /\ i[2] = 1 /\ j[2] = 1
     /\ \/ i[1] = "configure" /\ j[1] = "reset"
        \/ i[1] = "reset" /\ j[1] = "send_request"
        \/ i[1] = "send_request" /\ j[1] = "check_no_request"
  \/ /\ s.family # "USV" /\ i[2] = 1 /\ j[2] = 1
     /\ \/ i[1] = "configure" /\ j[1] \in {"monitor", "set_response"}
        \/ i[1] = "monitor" /\ j[1] = "set_response"
        \/ i[1] = "set_response" /\ j[1] = "send_request"
        \/ i[1] = "send_request" /\ j[1] = "check_request"
        \/ i[1] = "check_request" /\ j[1] = "validate_rf" /\ s.family # "USA"
        \/ i[1] = "check_request" /\ j[1] = "monitor_nothing_granted" /\ s.family = "USA"
  \/ /\ s.family # "USV" /\ i[2] = 1 /\ j[2] = 2
     /\ i[1] = "validate_rf" /\ j[1] = "set_response"
  \/ /\ s.family = "RSA" /\ i[2] = 2 /\ j[2] = 2
     /\ \/ i[1] = "set_response" /\ j[1] = "send_request"
        \/ i[1] = "send_request" /\ j[1] = "check_request"
        \/ i[1] = "check_request" /\ j[1] = "validate_rf"
  \/ /\ s.family \in {"SAU", "UAU"} /\ i[2] = 2 /\ j[2] = 2
     /\ \/ i[1] = "set_response" /\ j[1] = "power_cycle"
        \/ i[1] = "power_cycle" /\ j[1] = "reconfigure"
        \/ i[1] = "reconfigure" /\ j[1] = "poll_request"
        \/ i[1] = "poll_request" /\ j[1] = "monitor_nothing_granted" /\ s.family = "UAU"
        \/ i[1] = "poll_request" /\ j[1] = "monitor" /\ s.family = "SAU"
        \/ i[1] = "monitor" /\ j[1] = "release_response" /\ s.family = "SAU"
        \/ i[1] = "release_response" /\ j[1] = "validate_rf" /\ s.family = "SAU"

Chain(s, p, from, to) ==
  /\ p \in Seq(Instructions) /\ Len(p) >= 1 /\ p[1] = from /\ p[Len(p)] = to
  /\ \A i \in 1..(Len(p) - 1) : Follow(s, p[i], p[i + 1])

LEMMA ChainJoined ==
  ASSUME NEW s, NEW p, NEW q, NEW a, NEW b, NEW c, NEW d,
         Chain(s, p, a, b), Chain(s, q, c, d), Follow(s, b, c)
  PROVE  Chain(s, p \o q, a, d)
<1>1. Len(p) \in Nat /\ Len(q) \in Nat
  BY DEF Chain
<1>2. /\ Len(p \o q) = Len(p) + Len(q)
      /\ \A i \in 1..Len(p) : (p \o q)[i] = p[i]
      /\ \A i \in DOMAIN (p \o q) :
           i > Len(p) => i - Len(p) \in DOMAIN q /\ (p \o q)[i] = q[i - Len(p)]
  BY ConcatElement DEF Chain
<1>3. p \o q \in Seq(Instructions) /\ DOMAIN (p \o q) = 1..Len(p \o q)
  BY ConcatType DEF Chain
<1>4. (p \o q)[1] = a /\ (p \o q)[Len(p \o q)] = d
  BY <1>1, <1>2, <1>3 DEF Chain
<1>5. ASSUME NEW i \in 1..(Len(p \o q) - 1)
      PROVE  Follow(s, (p \o q)[i], (p \o q)[i + 1])
  <2>1. CASE i < Len(p)
    <3>1. (p \o q)[i] = p[i] /\ (p \o q)[i + 1] = p[i + 1]
      BY <1>1, <1>2, <2>1
    <3> QED BY <1>1, <2>1, <3>1 DEF Chain
  <2>2. CASE i = Len(p)
    <3>1. (p \o q)[i] = b /\ (p \o q)[i + 1] = c
      BY <1>1, <1>2, <1>3, <2>2 DEF Chain
    <3> QED BY <3>1
  <2>3. CASE i > Len(p)
    <3>1. (p \o q)[i] = q[i - Len(p)] /\ (p \o q)[i + 1] = q[(i - Len(p)) + 1]
      BY <1>1, <1>2, <1>3, <2>3
    <3>2. i - Len(p) \in 1..(Len(q) - 1)
      BY <1>1, <1>2, <2>3
    <3> QED BY <3>1, <3>2 DEF Chain
  <2> QED BY <1>1, <2>1, <2>2, <2>3
<1> QED BY <1>1, <1>2, <1>3, <1>4, <1>5 DEF Chain

LEMMA PhaseChain ==
  ASSUME NEW s, NEW phi \in 1..2, NEW ops \in Seq(Operation), Len(ops) >= 1,
         \A i \in 1..(Len(ops) - 1) : Follow(s, <<ops[i], phi>>, <<ops[i + 1], phi>>)
  PROVE  Chain(s, Phase(phi, ops), <<ops[1], phi>>, <<ops[Len(ops)], phi>>)
<1>1. DOMAIN ops = 1..Len(ops) /\ Len(ops) \in Nat
  OBVIOUS
<1>2. Phase(phi, ops) \in Seq(Instructions)
  BY PhaseType
<1>3. \A i \in 1..Len(ops) : Phase(phi, ops)[i] = <<ops[i], phi>>
  BY <1>1 DEF Phase
<1>4. Len(Phase(phi, ops)) = Len(ops)
  BY PhaseElement
<1>5. /\ Phase(phi, ops)[1] = <<ops[1], phi>>
      /\ Phase(phi, ops)[Len(Phase(phi, ops))] = <<ops[Len(ops)], phi>>
  BY <1>1, <1>3, <1>4
<1>6. ASSUME NEW i \in 1..(Len(Phase(phi, ops)) - 1)
      PROVE  Follow(s, Phase(phi, ops)[i], Phase(phi, ops)[i + 1])
  <2>1. i \in 1..(Len(ops) - 1) /\ i \in 1..Len(ops) /\ i + 1 \in 1..Len(ops)
    BY <1>1, <1>4
  <2>2. Phase(phi, ops)[i] = <<ops[i], phi>> /\ Phase(phi, ops)[i + 1] = <<ops[i + 1], phi>>
    BY <1>3, <2>1
  <2> QED BY <2>1, <2>2
<1> QED BY <1>1, <1>2, <1>4, <1>5, <1>6 DEF Chain

LEMMA PhaseConcat ==
  ASSUME NEW phi \in 1..2, NEW a \in Seq(Operation), NEW b \in Seq(Operation)
  PROVE  Phase(phi, a \o b) = Phase(phi, a) \o Phase(phi, b)
<1>1. a \o b \in Seq(Operation)
  BY ConcatType
<1>2. /\ Phase(phi, a \o b) \in Seq(Instructions)
      /\ Phase(phi, a) \in Seq(Instructions) /\ Phase(phi, b) \in Seq(Instructions)
  <2>1. phi = 1 \/ phi = 2
    OBVIOUS
  <2>2. CASE phi = 1
    BY <1>1, <2>2, PhaseType
  <2>3. CASE phi = 2
    BY <1>1, <2>3, PhaseType
  <2> QED BY <2>1, <2>2, <2>3
<1>3. Phase(phi, a) \o Phase(phi, b) \in Seq(Instructions)
  BY <1>2, ConcatType
<1>4. /\ DOMAIN (a \o b) = 1..Len(a \o b) /\ Len(a \o b) = Len(a) + Len(b)
      /\ DOMAIN a = 1..Len(a) /\ DOMAIN b = 1..Len(b)
      /\ Len(a) \in Nat /\ Len(b) \in Nat
  BY <1>1, ConcatElement
<1>5. /\ Len(Phase(phi, a \o b)) = Len(a \o b)
      /\ Len(Phase(phi, a)) = Len(a) /\ Len(Phase(phi, b)) = Len(b)
  BY <1>1, PhaseElement
<1>6. Len(Phase(phi, a) \o Phase(phi, b)) = Len(a) + Len(b)
  BY <1>2, <1>5, ConcatElement
<1>7. ASSUME NEW i \in 1..(Len(a) + Len(b))
      PROVE  Phase(phi, a \o b)[i] = (Phase(phi, a) \o Phase(phi, b))[i]
  <2>1. Phase(phi, a \o b)[i] = <<(a \o b)[i], phi>>
    BY <1>4 DEF Phase
  <2>2. CASE i <= Len(a)
    <3>1. (a \o b)[i] = a[i] /\ i \in DOMAIN a
      BY <1>4, <2>2, ConcatElement
    <3>2. (Phase(phi, a) \o Phase(phi, b))[i] = Phase(phi, a)[i]
      BY <1>2, <1>4, <1>5, <2>2, ConcatElement
    <3>3. Phase(phi, a)[i] = <<a[i], phi>>
      BY <3>1 DEF Phase
    <3> QED BY <2>1, <3>1, <3>2, <3>3
  <2>3. CASE i > Len(a)
    <3>1. (a \o b)[i] = b[i - Len(a)] /\ i - Len(a) \in DOMAIN b
      BY <1>4, <2>3, ConcatElement
    <3>2. (Phase(phi, a) \o Phase(phi, b))[i] = Phase(phi, b)[i - Len(a)]
      BY <1>2, <1>3, <1>4, <1>5, <1>6, <2>3, ConcatElement
    <3>3. Phase(phi, b)[i - Len(a)] = <<b[i - Len(a)], phi>>
      BY <3>1 DEF Phase
    <3> QED BY <2>1, <3>1, <3>2, <3>3, Zenon
  <2>4. i <= Len(a) \/ i > Len(a)
    BY <1>4
  <2> QED BY <2>2, <2>3, <2>4, Zenon
<1> QED BY <1>2, <1>3, <1>4, <1>5, <1>6, <1>7, SeqEqual

\* The chains of which the programs are made.
LEMMA ChainsOfOne ==
  ASSUME NEW s, NEW op \in Operation, NEW phi \in 1..2
  PROVE  Chain(s, Phase(phi, <<op>>), <<op, phi>>, <<op, phi>>)
<1> DEFINE ops == <<op>>
<1>1. ops \in Seq(Operation) /\ Len(ops) = 1 /\ ops[1] = op
  OBVIOUS
<1> HIDE DEF ops
<1>2. \A i \in 1..(Len(ops) - 1) : Follow(s, <<ops[i], phi>>, <<ops[i + 1], phi>>)
  BY <1>1
<1>a. Len(ops) >= 1
  BY <1>1
<1>3. Chain(s, Phase(phi, ops), <<ops[1], phi>>, <<ops[Len(ops)], phi>>)
  BY <1>1, <1>2, <1>a, PhaseChain, Zenon
<1> QED BY <1>1, <1>3 DEF ops

LEMMA ChainsOfTwo ==
  ASSUME NEW s, NEW a \in Operation, NEW b \in Operation, NEW phi \in 1..2,
         Follow(s, <<a, phi>>, <<b, phi>>)
  PROVE  Chain(s, Phase(phi, <<a, b>>), <<a, phi>>, <<b, phi>>)
<1> DEFINE ops == <<a, b>>
<1>1. ops \in Seq(Operation) /\ Len(ops) = 2 /\ ops[1] = a /\ ops[2] = b
  OBVIOUS
<1> HIDE DEF ops
<1>2. \A i \in 1..(Len(ops) - 1) : Follow(s, <<ops[i], phi>>, <<ops[i + 1], phi>>)
  BY <1>1
<1>3. Chain(s, Phase(phi, ops), <<ops[1], phi>>, <<ops[Len(ops)], phi>>)
  <2>1. Len(ops) >= 1
    BY <1>1
  <2> QED BY <1>1, <1>2, <2>1, PhaseChain, Zenon
<1> QED BY <1>1, <1>3 DEF ops

LEMMA ChainsOfThree ==
  ASSUME NEW s, NEW a \in Operation, NEW b \in Operation, NEW c \in Operation,
         NEW phi \in 1..2,
         Follow(s, <<a, phi>>, <<b, phi>>), Follow(s, <<b, phi>>, <<c, phi>>)
  PROVE  Chain(s, Phase(phi, <<a, b, c>>), <<a, phi>>, <<c, phi>>)
<1> DEFINE ops == <<a, b, c>>
<1>1. ops \in Seq(Operation) /\ Len(ops) = 3 /\ ops[1] = a /\ ops[2] = b /\ ops[3] = c
  OBVIOUS
<1> HIDE DEF ops
<1>2. \A i \in 1..(Len(ops) - 1) : Follow(s, <<ops[i], phi>>, <<ops[i + 1], phi>>)
  BY <1>1
<1>3. Chain(s, Phase(phi, ops), <<ops[1], phi>>, <<ops[Len(ops)], phi>>)
  <2>1. Len(ops) >= 1
    BY <1>1
  <2> QED BY <1>1, <1>2, <2>1, PhaseChain, Zenon
<1> QED BY <1>1, <1>3 DEF ops

LEMMA ChainsOfFour ==
  ASSUME NEW s, NEW a \in Operation, NEW b \in Operation, NEW c \in Operation,
         NEW d \in Operation, NEW phi \in 1..2,
         Follow(s, <<a, phi>>, <<b, phi>>), Follow(s, <<b, phi>>, <<c, phi>>),
         Follow(s, <<c, phi>>, <<d, phi>>)
  PROVE  Chain(s, Phase(phi, <<a, b, c, d>>), <<a, phi>>, <<d, phi>>)
<1> DEFINE ops == <<a, b, c, d>>
<1>1. /\ ops \in Seq(Operation) /\ Len(ops) = 4
      /\ ops[1] = a /\ ops[2] = b /\ ops[3] = c /\ ops[4] = d
  OBVIOUS
<1> HIDE DEF ops
<1>2. ASSUME NEW i \in 1..(Len(ops) - 1)
      PROVE  Follow(s, <<ops[i], phi>>, <<ops[i + 1], phi>>)
  <2>1. i \in {1, 2, 3}
    BY <1>1
  <2>2. CASE i = 1
    <3>1. ops[i] = a /\ ops[i + 1] = b
      BY <1>1, <2>2
    <3> QED BY <3>1
  <2>3. CASE i = 2
    <3>1. ops[i] = b /\ ops[i + 1] = c
      BY <1>1, <2>3
    <3> QED BY <3>1
  <2>4. CASE i = 3
    <3>1. ops[i] = c /\ ops[i + 1] = d
      BY <1>1, <2>4
    <3> QED BY <3>1
  <2> QED BY <2>1, <2>2, <2>3, <2>4
<1>3. Chain(s, Phase(phi, ops), <<ops[1], phi>>, <<ops[Len(ops)], phi>>)
  <2>1. Len(ops) >= 1
    BY <1>1
  <2> QED BY <1>1, <1>2, <2>1, PhaseChain, Zenon
<1> QED BY <1>1, <1>3 DEF ops

LEMMA FirstPhaseChain ==
  ASSUME NEW s, s.family \in {"RSA", "USA", "SAU", "UAU"}
  PROVE  Chain(s, FirstPhase(s), <<"configure", 1>>, <<"check_request", 1>>)
<1> DEFINE opening == IF s.role = "AP" THEN <<"configure", "monitor">> ELSE <<"configure">>
           first == <<"set_response", "send_request", "check_request">>
<1>1. /\ "configure" \in Operation /\ "monitor" \in Operation
      /\ "set_response" \in Operation /\ "send_request" \in Operation
      /\ "check_request" \in Operation /\ 1 \in 1..2
  BY DEF Operation
<1>2. Chain(s, Phase(1, first), <<"set_response", 1>>, <<"check_request", 1>>)
  <2>1. /\ Follow(s, <<"set_response", 1>>, <<"send_request", 1>>)
        /\ Follow(s, <<"send_request", 1>>, <<"check_request", 1>>)
    BY DEF Follow
  <2> QED BY <1>1, <2>1, ChainsOfThree
<1>3. opening \in Seq(Operation) /\ first \in Seq(Operation)
  <2>1. /\ <<"configure", "monitor">> \in Seq(Operation)
        /\ <<"configure">> \in Seq(Operation)
        /\ first \in Seq(Operation)
    BY DEF Operation
  <2> QED BY <2>1
<1>4. FirstPhase(s) = Phase(1, opening \o first)
  BY DEF FirstPhase
<1>5. FirstPhase(s) = Phase(1, opening) \o Phase(1, first)
  <2> HIDE DEF opening, first
  <2> QED BY <1>1, <1>3, <1>4, PhaseConcat
<1>6. CASE s.role = "AP"
  <2>1. Chain(s, Phase(1, <<"configure", "monitor">>), <<"configure", 1>>, <<"monitor", 1>>)
    <3>1. Follow(s, <<"configure", 1>>, <<"monitor", 1>>)
      BY DEF Follow
    <3> QED BY <1>1, <3>1, ChainsOfTwo
  <2>2. Follow(s, <<"monitor", 1>>, <<"set_response", 1>>)
    BY DEF Follow
  <2>3. opening = <<"configure", "monitor">>
    BY <1>6
  <2> HIDE DEF opening, first
  <2> QED BY <1>2, <1>5, <2>1, <2>2, <2>3, ChainJoined
<1>7. CASE s.role # "AP"
  <2>1. Chain(s, Phase(1, <<"configure">>), <<"configure", 1>>, <<"configure", 1>>)
    BY <1>1, ChainsOfOne
  <2>2. Follow(s, <<"configure", 1>>, <<"set_response", 1>>)
    BY DEF Follow
  <2>3. opening = <<"configure">>
    BY <1>7
  <2> HIDE DEF opening, first
  <2> QED BY <1>2, <1>5, <2>1, <2>2, <2>3, ChainJoined
<1> QED BY <1>6, <1>7

\* What follows what in the programs, and where they begin and end.
LEMMA ProgramChain ==
  ASSUME NEW s \in Script
  PROVE  \E last : /\ Chain(s, Program(s), <<"configure", 1>>, last)
                   /\ s.family \in {"RSA", "SAU"} => last = <<"validate_rf", 2>>
                   /\ last[1] \notin {"configure", "monitor", "set_response"}
<1>0. s.family \in {"RSA", "USA", "SAU", "UAU", "USV"}
  BY DEF Script
<1>a. /\ "configure" \in Operation /\ "reconfigure" \in Operation
      /\ "power_cycle" \in Operation /\ "monitor" \in Operation
      /\ "set_response" \in Operation /\ "reset" \in Operation
      /\ "send_request" \in Operation /\ "check_request" \in Operation
      /\ "poll_request" \in Operation /\ "check_no_request" \in Operation
      /\ "release_response" \in Operation /\ "validate_rf" \in Operation
      /\ "monitor_nothing_granted" \in Operation
      /\ 1 \in 1..2 /\ 2 \in 1..2
  BY DEF Operation
<1>1. ASSUME s.family \in {"RSA", "SAU", "UAU"}
      PROVE  Chain(s, FirstPhase(s) \o Phase(1, <<"validate_rf">>),
                   <<"configure", 1>>, <<"validate_rf", 1>>)
  <2>1. Chain(s, FirstPhase(s), <<"configure", 1>>, <<"check_request", 1>>)
    BY <1>1, FirstPhaseChain
  <2>2. Chain(s, Phase(1, <<"validate_rf">>), <<"validate_rf", 1>>, <<"validate_rf", 1>>)
    BY <1>a, ChainsOfOne
  <2>3. Follow(s, <<"check_request", 1>>, <<"validate_rf", 1>>)
    BY <1>1 DEF Follow
  <2> QED BY <2>1, <2>2, <2>3, ChainJoined
<1>2. ASSUME s.family \in {"RSA", "SAU", "UAU"}, NEW q, NEW last,
             Program(s) = (FirstPhase(s) \o Phase(1, <<"validate_rf">>)) \o q,
             Chain(s, q, <<"set_response", 2>>, last)
      PROVE  Chain(s, Program(s), <<"configure", 1>>, last)
  <2>1. Follow(s, <<"validate_rf", 1>>, <<"set_response", 2>>)
    BY <1>2 DEF Follow
  <2> QED BY <1>1, <1>2, <2>1, ChainJoined
<1>3. CASE s.family = "RSA"
  <2> DEFINE q == Phase(2, <<"set_response", "send_request", "check_request",
                             "validate_rf">>)
  <2>1. Chain(s, q, <<"set_response", 2>>, <<"validate_rf", 2>>)
    <3>1. /\ Follow(s, <<"set_response", 2>>, <<"send_request", 2>>)
          /\ Follow(s, <<"send_request", 2>>, <<"check_request", 2>>)
          /\ Follow(s, <<"check_request", 2>>, <<"validate_rf", 2>>)
      BY <1>3 DEF Follow
    <3> QED BY <1>a, <3>1, ChainsOfFour, Zenon DEF q
  <2>2. Program(s) = (FirstPhase(s) \o Phase(1, <<"validate_rf">>)) \o q
    BY <1>3, Zenon DEF Program, RSAProgram
  <2> HIDE DEF q
  <2> QED BY <1>2, <1>3, <2>1, <2>2
<1>4. ASSUME s.family \in {"SAU", "UAU"}
      PROVE  Chain(s, Phase(2, PowerCycled), <<"set_response", 2>>, <<"poll_request", 2>>)
  <2>1. /\ Follow(s, <<"set_response", 2>>, <<"power_cycle", 2>>)
        /\ Follow(s, <<"power_cycle", 2>>, <<"reconfigure", 2>>)
        /\ Follow(s, <<"reconfigure", 2>>, <<"poll_request", 2>>)
    BY <1>4 DEF Follow
  <2> QED BY <1>a, <2>1, ChainsOfFour, Zenon DEF PowerCycled
<1>5. PowerCycled \in Seq(Operation)
  BY DEF PowerCycled, Operation
<1>6. CASE s.family = "SAU"
  <2> DEFINE rest == <<"monitor", "release_response", "validate_rf">>
             q == Phase(2, PowerCycled \o rest)
  <2>1. Chain(s, Phase(2, rest), <<"monitor", 2>>, <<"validate_rf", 2>>)
    <3>1. /\ Follow(s, <<"monitor", 2>>, <<"release_response", 2>>)
          /\ Follow(s, <<"release_response", 2>>, <<"validate_rf", 2>>)
      BY <1>6 DEF Follow
    <3> QED BY <1>a, <3>1, ChainsOfThree
  <2>2. Follow(s, <<"poll_request", 2>>, <<"monitor", 2>>)
    BY <1>6 DEF Follow
  <2>3. rest \in Seq(Operation)
    BY <1>a
  <2>4. Program(s) = (FirstPhase(s) \o Phase(1, <<"validate_rf">>)) \o q
    BY <1>6, Zenon DEF Program, SAUProgram
  <2> HIDE DEF rest
  <2>5. q = Phase(2, PowerCycled) \o Phase(2, rest)
    BY <1>a, <1>5, <2>3, PhaseConcat
  <2> HIDE DEF q
  <2>6. Chain(s, q, <<"set_response", 2>>, <<"validate_rf", 2>>)
    BY <1>4, <1>6, <2>1, <2>2, <2>5, ChainJoined
  <2> QED BY <1>2, <1>6, <2>4, <2>6
<1>7. CASE s.family = "UAU"
  <2> DEFINE rest == <<"monitor_nothing_granted">>
             q == Phase(2, PowerCycled \o rest)
  <2>1. Chain(s, Phase(2, rest), <<"monitor_nothing_granted", 2>>,
              <<"monitor_nothing_granted", 2>>)
    BY <1>a, ChainsOfOne
  <2>2. Follow(s, <<"poll_request", 2>>, <<"monitor_nothing_granted", 2>>)
    BY <1>7 DEF Follow
  <2>3. rest \in Seq(Operation)
    BY <1>a
  <2>4. Program(s) = (FirstPhase(s) \o Phase(1, <<"validate_rf">>)) \o q
    BY <1>7, Zenon DEF Program, UAUProgram
  <2> HIDE DEF rest
  <2>5. q = Phase(2, PowerCycled) \o Phase(2, rest)
    BY <1>a, <1>5, <2>3, PhaseConcat
  <2> HIDE DEF q
  <2>6. Chain(s, q, <<"set_response", 2>>, <<"monitor_nothing_granted", 2>>)
    BY <1>4, <1>7, <2>1, <2>2, <2>5, ChainJoined
  <2>7. Chain(s, Program(s), <<"configure", 1>>, <<"monitor_nothing_granted", 2>>)
    BY <1>2, <1>7, <2>4, <2>6
  <2> QED BY <1>7, <2>7
<1>8. CASE s.family = "USA"
  <2>1. Program(s) = FirstPhase(s) \o Phase(1, <<"monitor_nothing_granted">>)
    BY <1>8, Zenon DEF Program, USAProgram
  <2>2. Chain(s, FirstPhase(s), <<"configure", 1>>, <<"check_request", 1>>)
    BY <1>8, FirstPhaseChain
  <2>5. Chain(s, Phase(1, <<"monitor_nothing_granted">>),
              <<"monitor_nothing_granted", 1>>, <<"monitor_nothing_granted", 1>>)
    BY <1>a, ChainsOfOne
  <2>3. Follow(s, <<"check_request", 1>>, <<"monitor_nothing_granted", 1>>)
    BY <1>8 DEF Follow
  <2>4. Chain(s, Program(s), <<"configure", 1>>, <<"monitor_nothing_granted", 1>>)
    BY <2>1, <2>2, <2>3, <2>5, ChainJoined
  <2> QED BY <1>8, <2>4
<1>9. CASE s.family = "USV"
  <2>1. /\ Follow(s, <<"configure", 1>>, <<"reset", 1>>)
        /\ Follow(s, <<"reset", 1>>, <<"send_request", 1>>)
        /\ Follow(s, <<"send_request", 1>>, <<"check_no_request", 1>>)
    BY <1>9 DEF Follow
  <2>2. Program(s) = Phase(1, <<"configure", "reset", "send_request", "check_no_request">>)
    BY <1>9, Zenon DEF Program, USVProgram
  <2>3. Chain(s, Phase(1, <<"configure", "reset", "send_request", "check_no_request">>),
              <<"configure", 1>>, <<"check_no_request", 1>>)
    BY <1>a, <2>1, ChainsOfFour, Zenon
  <2>4. Chain(s, Program(s), <<"configure", 1>>, <<"check_no_request", 1>>)
    BY <2>2, <2>3
  <2> QED BY <1>9, <2>4
<1> QED BY <1>0, <1>3, <1>6, <1>7, <1>8, <1>9

\* What an instruction that has been reached knows of the one before.
LEMMA ProgramSteps ==
  ASSUME NEW s \in Script
  PROVE  /\ DOMAIN Program(s) = 1..Len(Program(s)) /\ Len(Program(s)) \in Nat \ {0}
         /\ Program(s)[1] = <<"configure", 1>>
         /\ \A i \in DOMAIN Program(s) :
              /\ Program(s)[i][1] \in Operation /\ Program(s)[i][2] \in 1..2
              /\ i + 1 \in DOMAIN Program(s) => Follow(s, Program(s)[i], Program(s)[i + 1])
              /\ i + 1 \notin DOMAIN Program(s) /\ s.family \in {"RSA", "SAU"}
                   => Program(s)[i][1] = "validate_rf"
              /\ i + 1 \notin DOMAIN Program(s)
                   => Program(s)[i][1] \notin {"configure", "monitor", "set_response"}
<1>1. PICK last : /\ Chain(s, Program(s), <<"configure", 1>>, last)
                  /\ s.family \in {"RSA", "SAU"} => last = <<"validate_rf", 2>>
                  /\ last[1] \notin {"configure", "monitor", "set_response"}
  BY ProgramChain
<1>2. /\ Len(Program(s)) \in Nat /\ DOMAIN Program(s) = 1..Len(Program(s))
      /\ \A i \in DOMAIN Program(s) : Program(s)[i] \in Operation \X (1..2)
  BY LengthType
<1>3. ASSUME NEW i \in DOMAIN Program(s), i + 1 \notin DOMAIN Program(s)
      PROVE  Program(s)[i] = last
  <2>1. i = Len(Program(s))
    BY <1>2, <1>3
  <2> QED BY <1>1, <2>1 DEF Chain
<1> QED BY <1>1, <1>2, <1>3 DEF Chain
-----------------------------------------------------------------------------
(* What the simulator's answers are, when one inquiry is sent at a time. *)

\* An error grants no spectrum, and only an error has another code than 0.
ObjectInv == \A t \in Inquiry : /\ heap[<<t, "error">>].spectrum = NoSpectrum
                               /\ heap[<<t, "answer">>].code = 0

\* A vector that is being built is taken away only together with the request.
BuildsInv == \A t \in Inquiry :
  pc[t] = "append" /\ recv_request # NoBody => "responses" \in vectors.keys

\* An answer to a script about frequencies lists no channels, one to a script
\* about channels no frequencies.
OfVector(sp) == /\ script_test_vector = 1 => sp.chan = {}
                /\ script_test_vector = 2 => sp.freq = {}
VectorInv ==
  /\ script_test_vector # 0 => filename_prefix # "default"
  /\ OfVector(vectors.responses)
  /\ \A t \in Inquiry :
       sent_response = <<t, "answer">> => OfVector(heap[<<t, "answer">>].spectrum)

GrantInv == ObjectInv /\ BuildsInv /\ VectorInv

LEMMA InitGrant == Init => GrantInv
BY DEF Init, GrantInv, ObjectInv, BuildsInv, VectorInv, OfVector, EmptyVectors, NoSpectrum,
       BlankResponse, Unsent, Object

\* What a step of t makes of the response objects.
ObjectsStep(t) ==
  /\ \A u \in Inquiry \ {t} : /\ heap'[<<u, "answer">>] = heap[<<u, "answer">>]
                             /\ heap'[<<u, "error">>] = heap[<<u, "error">>]
  /\ heap'[<<t, "error">>].spectrum \in {NoSpectrum, heap[<<t, "error">>].spectrum}
  /\ heap'[<<t, "answer">>].code \in {0, heap[<<t, "answer">>].code}
  /\ \A u \in Inquiry : sent_response' = <<u, "answer">> =>
       \/ sent_response = <<u, "answer">>
       \/ u = t /\ heap'[<<t, "answer">>].spectrum = vectors.responses
  /\ \/ heap'[<<t, "answer">>].spectrum = vectors.responses
     \/ /\ heap'[<<t, "answer">>].spectrum.chan \subseteq heap[<<t, "answer">>].spectrum.chan
        /\ heap'[<<t, "answer">>].spectrum.freq \subseteq heap[<<t, "answer">>].spectrum.freq

LEMMA FailureObjects ==
  ASSUME TypeOK, NEW t \in Inquiry, NEW id, NEW code, gen_err_resp(t, id, code)
  PROVE  ObjectsStep(t)
<1>1. /\ heap' = [heap EXCEPT ![<<t, "error">>] = ErrorObject(id, code)]
      /\ sent_response' = <<t, "error">>
  BY DEF gen_err_resp
<1>2. heap \in [Object -> Response]
  BY DEF TypeOK
<1>3. /\ heap'[<<t, "error">>] = ErrorObject(id, code)
      /\ \A u \in Inquiry : heap'[<<u, "answer">>] = heap[<<u, "answer">>]
      /\ \A u \in Inquiry \ {t} : heap'[<<u, "error">>] = heap[<<u, "error">>]
  BY <1>1, <1>2 DEF Object
<1> QED BY <1>1, <1>3 DEF ObjectsStep, ErrorObject

LEMMA SameObjects ==
  ASSUME NEW t \in Inquiry, UNCHANGED <<heap, sent_response>>
  PROVE  ObjectsStep(t)
BY DEF ObjectsStep

LEMMA StepObjects ==
  ASSUME TypeInv, SequentialInv, NEW t \in Inquiry,
         (\E b \in Body : Receive(t, b)) \/ Handle(t)
  PROVE  ObjectsStep(t)
<1>1. heap \in [Object -> Response]
  BY DEF TypeInv, TypeOK
<1>2. FillsOwnObject(t)
  BY DEF SequentialInv, HandlerInv
<1>3. ASSUME NEW id, NEW code, gen_err_resp(t, id, code) PROVE ObjectsStep(t)
  BY <1>3, FailureObjects DEF TypeInv
<1>4. ASSUME NEW b \in Body, Receive(t, b) PROVE ObjectsStep(t)
  BY <1>3, <1>4, SameObjects, Zenon DEF Receive
<1>5. CASE Parse(t) \/ Validate(t) \/ CheckVector(t) \/ Load(t)
  BY <1>3, <1>5, SameObjects, Zenon DEF Parse, Validate, CheckVector, Load
<1>6. CASE \/ Build(t) \/ Publish(t) \/ AppendResponse(t) \/ Accept(t) \/ Release(t)
           \/ Send(t)
  BY <1>6, SameObjects DEF Build, Publish, AppendResponse, Accept, Release, Send, globals
<1>7. CASE Copy(t)
  <2>1. CASE gen_err_resp(t, req[t], -1)
    BY <1>3, <2>1
  <2>2. CASE sent_response' = Unsent /\ UNCHANGED heap
    BY <2>2 DEF ObjectsStep, Unsent
  <2>3. CASE /\ heap' = [heap EXCEPT ![<<t, "answer">>] =
                            [requestId |-> 0, code |-> 0, spectrum |-> vectors.responses]]
             /\ sent_response' = <<t, "answer">>
    <3>1. /\ heap'[<<t, "answer">>].code = 0
          /\ heap'[<<t, "answer">>].spectrum = vectors.responses
          /\ \A u \in Inquiry : heap'[<<u, "error">>] = heap[<<u, "error">>]
          /\ \A u \in Inquiry \ {t} : heap'[<<u, "answer">>] = heap[<<u, "answer">>]
      BY <1>1, <2>3 DEF Object
    <3> QED BY <2>3, <3>1 DEF ObjectsStep
  <2> QED BY <1>7, <2>1, <2>2, <2>3, Zenon DEF Copy
<1>8. CASE Stamp(t)
  <2>1. sent_response \in {<<t, "answer">>, Unsent}
    BY <1>2, <1>8 DEF FillsOwnObject, Stamp
  <2>2. CASE gen_err_resp(t, req[t], -1)
    BY <1>3, <2>2
  <2>3. CASE /\ sent_response # Unsent
             /\ heap' = [heap EXCEPT ![sent_response].requestId = req[t],
                                     ![<<t, "error">>] = ErrorObject(req[t], -1)]
             /\ sent_response' = <<t, "error">>
    <3>1. /\ heap'[<<t, "error">>] = ErrorObject(req[t], -1)
          /\ heap'[<<t, "answer">>].code = heap[<<t, "answer">>].code
          /\ heap'[<<t, "answer">>].spectrum = heap[<<t, "answer">>].spectrum
          /\ \A u \in Inquiry \ {t} : /\ heap'[<<u, "answer">>] = heap[<<u, "answer">>]
                                     /\ heap'[<<u, "error">>] = heap[<<u, "error">>]
      BY <1>1, <2>1, <2>3 DEF Object, Response
    <3>2. \A u \in Inquiry : sent_response' # <<u, "answer">>
      BY <2>3
    <3>3. heap'[<<t, "error">>].spectrum = NoSpectrum
      BY <3>1 DEF ErrorObject
    <3> QED BY <3>1, <3>2, <3>3 DEF ObjectsStep
  <2>4. CASE /\ sent_response # Unsent
             /\ heap' = [heap EXCEPT ![sent_response].requestId = req[t]]
             /\ sent_response' = sent_response
    <3>1. /\ heap'[<<t, "answer">>].code = heap[<<t, "answer">>].code
          /\ heap'[<<t, "answer">>].spectrum = heap[<<t, "answer">>].spectrum
          /\ \A u \in Inquiry : heap'[<<u, "error">>] = heap[<<u, "error">>]
          /\ \A u \in Inquiry \ {t} : heap'[<<u, "answer">>] = heap[<<u, "answer">>]
      BY <1>1, <2>1, <2>4 DEF Object, Response
    <3> QED BY <2>4, <3>1 DEF ObjectsStep
  <2> QED BY <1>8, <2>2, <2>3, <2>4, Zenon DEF Stamp
<1>9. CASE Filter(t)
  <2>1. /\ resp[t] = <<t, "answer">> /\ sent_response' = sent_response
        /\ \E chan, freq :
             /\ chan \subseteq heap[<<t, "answer">>].spectrum.chan
             /\ freq \subseteq heap[<<t, "answer">>].spectrum.freq
             /\ heap' = [heap EXCEPT ![<<t, "answer">>].spectrum
                                      = [chan |-> chan, freq |-> freq]]
    <3> DEFINE b == body[req[t]]
               old == heap[<<t, "answer">>].spectrum
               chan == IF b.has_channel THEN old.chan \cap FilterCfi(b) ELSE {}
               freq == IF b.has_freq_range THEN old.freq \cap b.freq ELSE {}
    <3>1. resp[t] = <<t, "answer">> /\ sent_response' = sent_response
      BY <1>2, <1>9 DEF FillsOwnObject, Filter, globals
    <3>2. heap' = [heap EXCEPT ![<<t, "answer">>].spectrum = [chan |-> chan, freq |-> freq]]
      BY <1>9, <3>1 DEF Filter
    <3>3. chan \subseteq old.chan /\ freq \subseteq old.freq
      OBVIOUS
    <3> HIDE DEF chan, freq
    <3> QED BY <3>1, <3>2, <3>3
  <2>2. PICK chan, freq :
             /\ chan \subseteq heap[<<t, "answer">>].spectrum.chan
             /\ freq \subseteq heap[<<t, "answer">>].spectrum.freq
             /\ heap' = [heap EXCEPT ![<<t, "answer">>].spectrum
                                      = [chan |-> chan, freq |-> freq]]
    BY <2>1
  <2>3. /\ heap'[<<t, "answer">>].code = heap[<<t, "answer">>].code
        /\ heap'[<<t, "answer">>].spectrum = [chan |-> chan, freq |-> freq]
        /\ \A u \in Inquiry : heap'[<<u, "error">>] = heap[<<u, "error">>]
        /\ \A u \in Inquiry \ {t} : heap'[<<u, "answer">>] = heap[<<u, "answer">>]
    BY <1>1, <2>2 DEF Object, Response
  <2> QED BY <2>1, <2>2, <2>3 DEF ObjectsStep
<1> QED BY <1>4, <1>5, <1>6, <1>7, <1>8, <1>9, Zenon DEF Handle

\* What a step of t makes of the vector.
LEMMA StepVector ==
  ASSUME TypeInv, NEW t \in Inquiry, (\E b \in Body : Receive(t, b)) \/ Handle(t),
         VectorInv
  PROVE  OfVector(vectors'.responses)
<1>1. CASE vectors' = vectors
  BY <1>1 DEF VectorInv
<1>2. CASE Publish(t)
  BY <1>2 DEF Publish, OfVector, NoSpectrum
<1>3. CASE AppendResponse(t)
  <2>1. CASE /\ "listed" \notin vectors.keys
             /\ vectors' = [keys |-> vectors.keys \cup {"listed"},
                            responses |-> [chan |-> IF NeedsChannel THEN picks[t] ELSE {},
                                           freq |-> IF NeedsFreqRange THEN picks[t] ELSE {}]]
    BY <2>1 DEF OfVector, NeedsChannel, NeedsFreqRange
  <2> QED BY <1>1, <1>3, <2>1, Zenon DEF AppendResponse
<1>4. CASE Load(t)
  <2> DEFINE vec == TestVector(body[req[t]])
  <2>1. CASE /\ FileName(vec) \in DOMAIN VectorFile
             /\ vectors' = [keys |-> {"testCaseID", "responses", "listed"},
                            responses |-> VectorFile[FileName(vec)]]
    <3>1. SUFFICES ASSUME script_test_vector \in {1, 2}
                   PROVE  OfVector(VectorFile[FileName(vec)])
      BY <2>1 DEF OfVector
    <3>2. vec = script_test_vector
      BY <3>1 DEF TestVector
    <3>3. FileName(vec) = <<country_code, filename_prefix, vec, phase>>
      BY <3>1 DEF FileName, VectorInv
    <3>4. FileName(vec)[3] = script_test_vector
      BY <3>2, <3>3
    <3> QED BY <2>1, <3>4, FilesAssumption DEF OfVector
  <2>2. \/ vectors' = vectors
        \/ /\ FileName(vec) \in DOMAIN VectorFile
           /\ vectors' = [keys |-> {"testCaseID", "responses", "listed"},
                          responses |-> VectorFile[FileName(vec)]]
    <3>1. vec # 0 /\ ~is_random /\ ~(~is_random /\ vec # 0 /\ FileName(vec) \notin DOMAIN VectorFile)
            => FileName(vec) \in DOMAIN VectorFile
      OBVIOUS
    <3> HIDE DEF vec
    <3> QED BY <1>4, <3>1, Zenon DEF Load, vec
  <2> QED BY <1>1, <2>1, <2>2
<1>5. \/ vectors' = vectors
      \/ Publish(t) \/ AppendResponse(t) \/ Load(t)
  BY Zenon DEF Receive, Handle, Parse, Validate, CheckVector, Build, Accept, Release, Copy, Stamp,
               Filter, Send, globals
<1> QED BY <1>1, <1>2, <1>3, <1>4, <1>5

LEMMA NextGrant ==
  ASSUME ~Overlap, TypeInv, SequentialInv, GrantInv, [Next]_vars
  PROVE  GrantInv'
<1>1. ASSUME NEW t \in Inquiry, (\E b \in Body : Receive(t, b)) \/ Handle(t)
      PROVE  GrantInv'
  <2>1. ObjectsStep(t)
    BY <1>1, StepObjects
  <2>2. OthersRest(t)
    BY <1>1, HandlerFrame DEF SequentialInv
  <2>3. ObjectInv'
    BY <2>1 DEF ObjectsStep, GrantInv, ObjectInv
  <2>4. BuildsInv'
    <3>1. SUFFICES ASSUME NEW u \in Inquiry, pc'[u] = "append", recv_request' # NoBody
                   PROVE  "responses" \in vectors'.keys
      BY DEF BuildsInv
    <3>2. u = t
      BY <2>2, <3>1 DEF OthersRest, Active
    <3>3. CASE Publish(t)
      BY <3>3 DEF Publish
    <3>4. CASE ~Publish(t)
      <4>1. pc'[t] # "append"
        BY <1>1, <3>4 DEF Receive, Handle, Parse, Validate, CheckVector, Build,
                          AppendResponse, Accept, Load, Release, Copy, Stamp, Filter, Send,
                          gen_err_resp, Goto, TypeInv, TypeOK
      <4> QED BY <3>1, <3>2, <4>1
    <3> QED BY <3>3, <3>4
  <2>5. UNCHANGED <<script_test_vector, filename_prefix>>
    BY <1>1, Zenon DEF Receive, Handle, Parse, Validate, CheckVector, Build, Publish,
                AppendResponse, Accept, Load, Release, Copy, Stamp, Filter, Send, globals,
                settings
  <2>6. OfVector(vectors'.responses)
    BY <1>1, StepVector DEF GrantInv
  <2>7. ASSUME NEW u \in Inquiry, sent_response' = <<u, "answer">>
        PROVE  OfVector(heap'[<<u, "answer">>].spectrum)
    <3>1. CASE u = t /\ heap'[<<t, "answer">>].spectrum = vectors.responses
      BY <3>1 DEF GrantInv, VectorInv
    <3>2. CASE sent_response = <<u, "answer">>
      <4>1. OfVector(heap[<<u, "answer">>].spectrum) /\ OfVector(vectors.responses)
        BY <3>2 DEF GrantInv, VectorInv
      <4> QED BY <2>1, <4>1 DEF ObjectsStep, OfVector
    <3> QED BY <2>1, <2>7, <3>1, <3>2 DEF ObjectsStep
  <2>8. VectorInv'
    BY <2>5, <2>6, <2>7 DEF GrantInv, VectorInv, OfVector
  <2> QED BY <2>3, <2>4, <2>8 DEF GrantInv
<1>2. ASSUME NEW tc \in Setting, SetResponse(tc) PROVE GrantInv'
  <2>1. tc.purpose # "default"
    BY ConstantsAssumption DEF IsSetting, Purpose
  <2>2. /\ vectors' = [keys |-> {"testCaseID"}, responses |-> NoSpectrum]
        /\ recv_request' = NoBody /\ sent_response' = Unsent
        /\ UNCHANGED <<heap, pc>> /\ filename_prefix' = tc.purpose
    BY <1>2 DEF SetResponse, NewExchange
  <2> QED BY <2>1, <2>2 DEF GrantInv, ObjectInv, BuildsInv, VectorInv, OfVector, NoSpectrum,
                            Unsent
<1>3. ASSUME NEW h \in BOOLEAN, SetParams(h) PROVE GrantInv'
  BY <1>3 DEF SetParams, settings, GrantInv, ObjectInv, BuildsInv, VectorInv, OfVector
<1>4. CASE Reset
  <2>1. /\ vectors' = [keys |-> {}, responses |-> NoSpectrum]
        /\ recv_request' = NoBody /\ sent_response' = Unsent
        /\ UNCHANGED <<heap, pc>> /\ script_test_vector' = 0
    BY <1>4 DEF Reset, NewExchange
  <2> QED BY <2>1 DEF GrantInv, ObjectInv, BuildsInv, VectorInv, OfVector, NoSpectrum, Unsent
<1>5. CASE UNCHANGED vars
  BY <1>5 DEF vars, globals, settings, GrantInv, ObjectInv, BuildsInv, VectorInv, OfVector
<1> QED BY <1>1, <1>2, <1>3, <1>4, <1>5, Zenon DEF Next
-----------------------------------------------------------------------------
(* The settings the scripts post. *)

\* The scripts keep their vector, and only the second phase of SAU holds its
\* response.
LEMMA PostedFacts ==
  ASSUME NEW s, s.family \in {"RSA", "USA", "SAU", "UAU"}, NEW phi
  PROVE  /\ Posted(s, phi).testVector = s.vector
         /\ "holdResponse" \in DOMAIN Posted(s, phi) => s.family = "SAU" /\ phi = 2
<1>1. CASE s.family = "RSA"
  BY <1>1 DEF Posted, set_afc_response, Optional
<1>2. CASE s.family = "SAU"
  BY <1>2 DEF Posted, set_afc_response, Optional
<1>3. CASE s.family = "UAU"
  BY <1>3 DEF Posted, set_afc_response, Optional
<1>4. CASE s.family = "USA"
  BY <1>4 DEF Posted, set_afc_response, Optional
<1> QED BY <1>1, <1>2, <1>3, <1>4
-----------------------------------------------------------------------------
(* The script and the DUT. *)
Idle == \A t \in Inquiry : ~Active(t)

\* The DUT has the answer of t before it, or has taken it.
Heard(t) ==
  \/ /\ t \in dut.awaiting
     /\ reply[t] = [status |-> "200", response |-> heap[<<t, "answer">>]]
  \/ dut.awaiting = {} /\ dut.permitted = heap[<<t, "answer">>].spectrum

\* A DUT that has yet to inquire awaits nothing, and nobody else has inquired;
\* an inquiry that get-status shows is the one whose answer the DUT awaits,
\* until it has the answer that get-status shows.
AwaitInv ==
  /\ dut.due => recv_request = NoBody /\ dut.awaiting = {}
  /\ \A t, u \in dut.awaiting : t = u
  /\ \A t \in Inquiry : Active(t) /\ recv_request # NoBody => t \in dut.awaiting
  /\ recv_request # NoBody /\ Idle =>
       \A t \in Inquiry : sent_response = <<t, "answer">> => Heard(t)

Running == script # NoScript /\ step \in DOMAIN Program(script)

\* What a script knows when it reaches an instruction.  A DUT inquires between
\* a trigger and the check that waits for it; the response is held from the
\* setting to the release in the second phase of SAU only; what the power is
\* compared with has been read when nobody was at work.
Unasked == {"configure", "set_response", "reset", "power_cycle", "reconfigure",
            "send_request"}
Held(i) == script.family = "SAU" /\ i[2] = 2
Place(i) ==
  /\ i[1] \in Unasked \/ (i[1] = "monitor" /\ i[2] = 1) =>
       ~dut.due /\ dut.awaiting = {}
  /\ i[1] \in {"power_cycle", "reconfigure", "send_request"} => recv_request = NoBody
  /\ i[1] = "validate_rf" \/ ~Held(i) => ~hold_response
  /\ i[1] \in {"validate_rf", "release_response"} \/ (i[1] = "monitor" /\ i[2] = 2) =>
       recv_request # NoBody
  /\ i[1] = "validate_rf" /\ ~Held(i) =>
       ~dut.due /\ dut.awaiting = {} /\ Idle /\ afc_resp.sentResponse = Dumped
  /\ script.family # "USV"
     /\ ~(i[1] \in {"configure", "monitor", "set_response"} /\ i[2] = 1) =>
       script_test_vector = script.vector
  /\ i[1] = "validate_rf" => script.family # "USV"
PlaceInv == \A i \in Instructions : Running /\ Instruction = i => Place(i)

LEMMA InitPlace == SessionInit => AwaitInv /\ PlaceInv
BY DEF SessionInit, Init, AwaitInv, PlaceInv, Running, ResetDut, Active

\* A step of a handler leaves these alone.
LEMMA HandlerKeeps ==
  ASSUME NEW t \in Inquiry, Handle(t)
  PROVE  UNCHANGED <<recv_request, hold_response, script_test_vector>> /\ Active(t)
BY DEF Handle, Parse, Validate, CheckVector, Build, Publish, AppendResponse, Accept, Load,
       Release, Copy, Stamp, Filter, Send, globals, settings, Active

\* The handler that ends while its request is shown has sent what it filled.
LEMMA HandlerEnds ==
  ASSUME TypeInv, SequentialInv, GrantInv, NEW t \in Inquiry, Handle(t), ~Active(t)',
         recv_request # NoBody, NEW u \in Inquiry, sent_response' = <<u, "answer">>
  PROVE  /\ u = t /\ heap' = heap
         /\ reply'[t] = [status |-> "200", response |-> heap[<<t, "answer">>]]
<1>1. CASE Send(t)
  <2>1. /\ pc[t] \in {"send", "sendError"} /\ reply'[t] = Dumped
        /\ sent_response' = sent_response /\ heap' = heap
    BY <1>1 DEF Send, globals, TypeInv, TypeOK
  <2>2. FillsOwnObject(t)
    BY DEF SequentialInv, HandlerInv
  <2>3. u = t
    BY <2>1, <2>2 DEF FillsOwnObject, Unsent
  <2>4. sent_response # Unsent
    BY <2>1 DEF Unsent
  <2> QED BY <2>1, <2>3, <2>4 DEF Dumped
<1>2. CASE AppendResponse(t)
  <2>1. "responses" \in vectors.keys
    BY <1>2 DEF AppendResponse, GrantInv, BuildsInv
  <2>2. pc'[t] = "accept"
    BY <1>2, <2>1 DEF AppendResponse, Goto, TypeInv, TypeOK
  <2> QED BY <2>2 DEF Active
<1>3. CASE ~Send(t) /\ ~AppendResponse(t)
  <2>1. Active(t)'
    BY <1>3 DEF Handle, Parse, Validate, CheckVector, Build, Publish, Accept, Load, Release,
                Copy, Stamp, Filter, gen_err_resp, Goto, TypeInv, TypeOK, Active
  <2> QED BY <2>1
<1> QED BY <1>1, <1>2, <1>3

\* What a session does to the DUT.
LEMMA AnswerTaken ==
  ASSUME SessionTypeOK, NEW t \in Inquiry, DutTakesAnswer(t)
  PROVE  /\ UNCHANGED vars /\ UNCHANGED <<script, step, afc_resp, measured, started>>
         /\ t \in dut.awaiting /\ reply[t].status # "none"
         /\ dut'.due = dut.due /\ dut'.awaiting = dut.awaiting \ {t}
         /\ Granted(t) => dut'.permitted = reply[t].response.spectrum
<1> DEFINE heard == [dut EXCEPT !.awaiting = @ \ {t}]
           granted == reply[t].response.spectrum
<1>1. /\ heard.due = dut.due /\ heard.awaiting = dut.awaiting \ {t}
      /\ DOMAIN heard = {"due", "awaiting", "permitted", "op_channel", "handshake"}
  BY DEF SessionTypeOK
<1>2. \/ ~Granted(t) /\ dut' = heard
      \/ Granted(t) /\ dut' = [heard EXCEPT !.permitted = granted, !.op_channel = 0]
      \/ /\ Granted(t)
         /\ \E c \in Usable(granted) :
              dut' = [heard EXCEPT !.permitted = granted, !.op_channel = c]
  BY Zenon DEF DutTakesAnswer
<1>3. /\ dut'.due = dut.due /\ dut'.awaiting = dut.awaiting \ {t}
      /\ Granted(t) => dut'.permitted = granted
  <2> HIDE DEF heard, granted
  <2> QED BY <1>1, <1>2
<1> QED BY <1>3 DEF DutTakesAnswer

LEMMA InquirySent ==
  ASSUME Triggered, SessionTypeOK, NEW t \in Inquiry, NEW b \in Body, DutSends(t, b)
  PROVE  /\ UNCHANGED <<script, step, afc_resp, measured, started>>
         /\ dut.due /\ ~dut'.due /\ dut'.awaiting = dut.awaiting \cup {t}
BY DEF DutSends, SessionTypeOK

LEMMA DutRests ==
  ASSUME SessionTypeOK, DutDoesNotSend \/ \E c \in Cfi \cup {0} : DutStrays(c)
  PROVE  /\ UNCHANGED vars /\ UNCHANGED <<script, step, afc_resp, measured, started>>
         /\ dut'.due => dut.due
         /\ dut'.awaiting = dut.awaiting /\ dut'.permitted = dut.permitted
BY DEF DutDoesNotSend, DutStrays, SessionTypeOK

\* Instructions: where they come from, and what they do to the DUT.
LEMMA AtInstruction ==
  ASSUME SessionTypeOK, ScriptStep, ~Teardown
  PROVE  /\ Running /\ UNCHANGED <<script, started>> /\ (Advance \/ Return)
         /\ Instruction \in Instructions
<1>1. Running /\ UNCHANGED <<script, started>> /\ (Advance \/ Return)
  BY Zenon
  DEF ScriptStep, Configure, Reconfigure, PowerCycle, Monitor, PostResponse, PostReset,
      SendRequest, CheckRequest, PollRequest, CheckNoRequest, ReleaseResponse,
      ValidateRf, MonitorNothingGranted, VerifyRequest, At, Running
<1> QED BY <1>1, LengthType DEF Running, Instruction, Instructions

\* What the simulator shows is either kept or taken away with the request.
LEMMA InstructionExchange ==
  ASSUME ScriptStep \/ \E s \in Scripts : Setup(s)
  PROVE  /\ UNCHANGED <<heap, pc, body, reply>>
         /\ UNCHANGED <<recv_request, sent_response>> \/ recv_request' = NoBody
<1>1. ASSUME Reset PROVE UNCHANGED <<heap, pc, body, reply>> /\ recv_request' = NoBody
  BY <1>1 DEF Reset, NewExchange, threads
<1>2. ASSUME NEW tc, SetResponse(tc)
      PROVE  UNCHANGED <<heap, pc, body, reply>> /\ recv_request' = NoBody
  BY <1>2 DEF SetResponse, NewExchange, threads
<1>3. ASSUME SetParams(FALSE)
      PROVE  UNCHANGED <<heap, pc, body, reply, recv_request, sent_response>>
  BY <1>3 DEF SetParams, threads
<1>4. ASSUME UNCHANGED vars
      PROVE  UNCHANGED <<heap, pc, body, reply, recv_request, sent_response>>
  BY <1>4 DEF vars, globals, threads
<1> QED BY <1>1, <1>2, <1>3, <1>4, Zenon
    DEF ScriptStep, Configure, Reconfigure, PowerCycle, Monitor, PostResponse, PostReset,
        SendRequest, CheckRequest, PollRequest, CheckNoRequest, ReleaseResponse, ValidateRf,
        MonitorNothingGranted, Teardown, Setup

\* Nothing has happened to what AwaitInv speaks of.
LEMMA AwaitKept ==
  ASSUME AwaitInv, UNCHANGED <<heap, pc, reply>>,
         UNCHANGED <<recv_request, sent_response>> \/ recv_request' = NoBody,
         dut'.due => dut.due, dut'.awaiting = dut.awaiting, dut'.permitted = dut.permitted
  PROVE  AwaitInv'
BY DEF AwaitInv, Idle, Active, Heard

\* The DUT before which nothing lies is triggered or power cycled.
LEMMA AwaitAnew ==
  ASSUME dut'.awaiting = {}, recv_request' = NoBody
  PROVE  AwaitInv'
BY DEF AwaitInv

LEMMA ScriptAwait ==
  ASSUME SessionTypeOK, AwaitInv, PlaceInv, ScriptStep
  PROVE  AwaitInv'
<1>1. /\ UNCHANGED <<heap, pc, body, reply>>
      /\ UNCHANGED <<recv_request, sent_response>> \/ recv_request' = NoBody
  BY InstructionExchange
<1>2. CASE dut' = dut
  BY <1>1, <1>2, AwaitKept
<1>3. CASE Reconfigure \/ PowerCycle \/ SendRequest
  <2>1. /\ Instruction[1] \in {"power_cycle", "reconfigure", "send_request"} /\ ~Teardown
    BY <1>3 DEF Reconfigure, PowerCycle, SendRequest, Teardown, At
  <2>2. Place(Instruction)
    BY <2>1, AtInstruction DEF PlaceInv
  <2>3. recv_request = NoBody /\ dut.awaiting = {}
    BY <2>1, <2>2 DEF Place, Unasked
  <2>4. recv_request' = NoBody
    BY <1>1, <2>3
  <2>5. dut'.awaiting = {}
    BY <1>3, <2>3 DEF Reconfigure, PowerCycle, SendRequest, ResetDut, SessionTypeOK
  <2> QED BY <2>4, <2>5, AwaitAnew
<1> QED BY <1>2, <1>3, Zenon
    DEF ScriptStep, Configure, Monitor, PostResponse, PostReset, CheckRequest, PollRequest,
        CheckNoRequest, ReleaseResponse, ValidateRf, MonitorNothingGranted, Teardown

LEMMA HandlerAwait ==
  ASSUME ~Overlap, SessionTypeOK, TypeInv, SequentialInv, GrantInv, AwaitInv,
         NEW t \in Inquiry, Handler(t)
  PROVE  AwaitInv'
<1>1. Handle(t) /\ dut' = dut /\ Active(t) /\ recv_request' = recv_request
  BY HandlerKeeps DEF Handler, session
<1>2. OthersRest(t)
  BY <1>1, HandlerFrame DEF SequentialInv
<1>3. ASSUME recv_request # NoBody PROVE t \in dut.awaiting
  BY <1>1, <1>3 DEF AwaitInv
<1>4. ASSUME NEW u \in Inquiry, Active(u)', recv_request # NoBody
      PROVE  u \in dut.awaiting
  <2>1. u = t
    BY <1>2, <1>4 DEF OthersRest, Active
  <2> QED BY <1>3, <1>4, <2>1
<1>5. ASSUME recv_request # NoBody, Idle', NEW u \in Inquiry,
             sent_response' = <<u, "answer">>
      PROVE  Heard(u)'
  <2>1. ~Active(t)'
    BY <1>5 DEF Idle
  <2>2. /\ u = t /\ heap' = heap
        /\ reply'[t] = [status |-> "200", response |-> heap[<<t, "answer">>]]
    BY <1>1, <1>5, <2>1, HandlerEnds
  <2> QED BY <1>1, <1>3, <1>5, <2>2 DEF Heard
<1> QED BY <1>1, <1>4, <1>5 DEF AwaitInv

LEMMA InquiryAwait ==
  ASSUME Triggered, ~Overlap, SessionTypeOK, TypeInv, SequentialInv, AwaitInv,
         NEW t \in Inquiry, NEW b \in Body, DutSends(t, b)
  PROVE  AwaitInv'
<1>1. recv_request = NoBody /\ ~dut'.due /\ dut'.awaiting = {t}
  BY InquirySent DEF AwaitInv
<1>2. Receive(t, b) /\ OthersRest(t)
  BY HandlerFrame DEF DutSends, SequentialInv
<1>3. \A u \in Inquiry : Active(u)' => u = t
  BY <1>2 DEF OthersRest, Active
<1>4. recv_request' # NoBody => Active(t)'
  <2>1. CASE b.json /\ "unparsable" \notin b.faults
    BY <1>2, <2>1 DEF Receive, Goto, Active, TypeInv, TypeOK
  <2>2. CASE ~(b.json /\ "unparsable" \notin b.faults)
    BY <1>1, <1>2, <2>2 DEF Receive
  <2> QED BY <2>1, <2>2
<1> QED BY <1>1, <1>3, <1>4 DEF AwaitInv, Idle

LEMMA AnswerAwait ==
  ASSUME SessionTypeOK, SequentialInv, GrantInv, AwaitInv,
         NEW t \in Inquiry, DutTakesAnswer(t)
  PROVE  AwaitInv'
<1>1. /\ UNCHANGED <<heap, pc, reply, recv_request, sent_response>>
      /\ t \in dut.awaiting /\ reply[t].status # "none"
      /\ dut'.due = dut.due /\ dut'.awaiting = dut.awaiting \ {t}
      /\ Granted(t) => dut'.permitted = reply[t].response.spectrum
  BY AnswerTaken DEF vars, globals, threads
<1>2. dut'.awaiting = {} /\ ~dut'.due
  BY <1>1 DEF AwaitInv
<1>3. pc[t] = "done"
  BY <1>1 DEF SequentialInv, HandlerInv, AnsweredWhenDone
<1>4. ASSUME NEW u \in Inquiry, Active(u)', recv_request' # NoBody PROVE FALSE
  BY <1>1, <1>3, <1>4 DEF AwaitInv, Active
<1>5. ASSUME recv_request' # NoBody, Idle', NEW u \in Inquiry,
             sent_response' = <<u, "answer">>
      PROVE  Heard(u)'
  <2>1. Heard(u)
    BY <1>1, <1>5 DEF AwaitInv, Idle, Active
  <2>2. u = t /\ reply[t] = [status |-> "200", response |-> heap[<<t, "answer">>]]
    BY <1>1, <2>1 DEF Heard, AwaitInv
  <2>3. Granted(t)
    <3>1. reply[t].status = "200" /\ reply[t].response = heap[<<t, "answer">>]
      BY <2>2
    <3>2. heap[<<t, "answer">>].code = 0
      BY DEF GrantInv, ObjectInv
    <3> QED BY <3>1, <3>2 DEF Granted
  <2> QED BY <1>1, <1>2, <2>2, <2>3 DEF Heard
<1> QED BY <1>2, <1>4, <1>5 DEF AwaitInv

LEMMA NextAwait ==
  ASSUME Triggered, ~Overlap, SessionTypeOK, TypeInv, SequentialInv, GrantInv, AwaitInv,
         PlaceInv, [SessionNext]_allVars
  PROVE  AwaitInv'
<1>1. ASSUME NEW s \in Scripts, Setup(s) PROVE AwaitInv'
  <2>1. dut'.awaiting = {} /\ recv_request' = NoBody
    BY <1>1 DEF Setup, Reset, NewExchange, ResetDut
  <2> QED BY <2>1, AwaitAnew
<1>2. CASE DutDoesNotSend \/ \E c \in Cfi \cup {0} : DutStrays(c)
  BY <1>2, DutRests, AwaitKept DEF vars, globals, threads
<1>3. CASE UNCHANGED allVars
  BY <1>3, AwaitKept DEF allVars, vars, globals, threads, session
<1> QED BY <1>1, <1>2, <1>3, ScriptAwait, HandlerAwait, InquiryAwait, AnswerAwait, Zenon
    DEF SessionNext

\* Nothing but a script's instruction moves it on, and while it stays where it
\* is what it knew remains true.
LEMMA PlaceKept ==
  ASSUME PlaceInv, UNCHANGED <<script, step, afc_resp>>,
         UNCHANGED <<recv_request, hold_response, script_test_vector, heap, sent_response, pc>>,
         dut'.due => dut.due, dut'.awaiting \subseteq dut.awaiting
  PROVE  PlaceInv'
<1>1. SUFFICES ASSUME NEW i \in Instructions, Running, Instruction = i PROVE Place(i)'
  BY DEF PlaceInv, Running, Instruction
<1>2. Place(i)
  BY <1>1 DEF PlaceInv
<1> QED BY <1>2 DEF Place, Held, Idle, Active, Dumped

LEMMA HandlerPlace ==
  ASSUME PlaceInv, NEW t \in Inquiry, Handler(t)
  PROVE  PlaceInv'
<1>0. /\ Handle(t) /\ UNCHANGED <<script, step, afc_resp, dut>>
      /\ UNCHANGED <<recv_request, hold_response, script_test_vector>> /\ Active(t)
  BY HandlerKeeps DEF Handler, session
<1>1. SUFFICES ASSUME NEW i \in Instructions, Running, Instruction = i PROVE Place(i)'
  BY <1>0 DEF PlaceInv, Running, Instruction
<1>2. Place(i) /\ ~Idle
  BY <1>0, <1>1 DEF PlaceInv, Idle
<1> QED BY <1>0, <1>2 DEF Place, Held

LEMMA InquiryPlace ==
  ASSUME Triggered, SessionTypeOK, AwaitInv, PlaceInv,
         NEW t \in Inquiry, NEW b \in Body, DutSends(t, b)
  PROVE  PlaceInv'
<1>0. /\ UNCHANGED <<script, step, afc_resp>> /\ dut.due /\ recv_request = NoBody
      /\ UNCHANGED <<hold_response, script_test_vector>>
  BY InquirySent DEF AwaitInv, DutSends, Receive, settings
<1>1. SUFFICES ASSUME NEW i \in Instructions, Running, Instruction = i PROVE Place(i)'
  BY <1>0 DEF PlaceInv, Running, Instruction
<1>2. Place(i)
  BY <1>1 DEF PlaceInv
<1> QED BY <1>0, <1>2 DEF Place, Held, Unasked

\* An instruction that goes on to the next.
LEMMA NextInstruction ==
  ASSUME SessionTypeOK, ScriptStep, ~Teardown, Running', NEW j \in Instructions,
         Instruction' = j
  PROVE  Follow(script, Instruction, j) /\ Advance
<1>1. Running /\ script' = script /\ (Advance \/ Return)
  BY AtInstruction
<1>2. script \in Script
  BY <1>1, SessionAssumption DEF Running, SessionTypeOK
<1>3. /\ Len(Program(script)) \in Nat /\ DOMAIN Program(script) = 1..Len(Program(script))
  BY LengthType
<1>4. step' = step + 1 /\ Advance
  BY <1>1, <1>3 DEF Running, Advance, Return, Stopped, Length
<1> QED BY <1>1, <1>2, <1>4, ProgramSteps DEF Running, Instruction

\* What a check knows of the answer that it reads.
LEMMA QuietIsIdle ==
  ASSUME Quiet, ~hold_response, SessionTypeOK
  PROVE  Idle /\ ~dut.due /\ dut.awaiting = {}
BY DEF Quiet, Idle, Active, SessionTypeOK

LEMMA RequestSeen ==
  ASSUME CheckRequest \/ PollRequest, Advance
  PROVE  recv_request # NoBody /\ afc_resp'.sentResponse = Dumped
<1>1. ~Return
  <2>1. step \in DOMAIN Program(script)
    BY DEF CheckRequest, PollRequest, At
  <2> QED BY <2>1, LengthType DEF Advance, Return, Stopped, Length
<1>2. GetStatus.receivedRequest # NoBody /\ afc_resp' = GetStatus
  BY <1>1, Zenon DEF CheckRequest, PollRequest, VerifyRequest
<1> QED BY <1>2 DEF GetStatus

\* Each instruction makes true what the next one relies on.
LEMMA ScriptPlace ==
  ASSUME SessionTypeOK, PlaceInv, ScriptStep
  PROVE  PlaceInv'
<1>1. CASE Teardown
  BY <1>1 DEF Teardown, PlaceInv, Running
<1>2. CASE ~Teardown
  <2>1. SUFFICES ASSUME NEW j \in Instructions, Running', Instruction' = j
                 PROVE  Place(j)'
    BY DEF PlaceInv
  <2> DEFINE i == Instruction
  <2>2. /\ Follow(script, i, j) /\ Advance /\ script' = script
        /\ Running /\ i \in Instructions /\ Place(i)
    BY <1>2, <2>1, AtInstruction, NextInstruction DEF PlaceInv
  <2>3. Held(j)' = Held(j)
    BY <2>2 DEF Held
  <2> USE DEF Place, Held, Unasked, Follow
  <2>4. CASE Configure \/ Monitor
    <3>1. /\ i[1] \in {"configure", "monitor"} /\ dut' = dut
          /\ UNCHANGED <<recv_request, hold_response, script_test_vector>>
      BY <2>4 DEF Configure, Monitor, At, vars, globals, settings
    <3> HIDE DEF i
    <3> QED BY <2>2, <2>3, <3>1
  <2>5. CASE PostReset
    <3>1. /\ i[1] = "reset" /\ dut' = dut
          /\ recv_request' = NoBody /\ ~hold_response'
      BY <2>5 DEF PostReset, At, Reset, NewExchange
    <3> HIDE DEF i
    <3> QED BY <2>2, <2>3, <3>1
  <2>6. CASE PostResponse
    <3>1. /\ i[1] = "set_response" /\ dut' = dut /\ recv_request' = NoBody
          /\ script_test_vector' = Posted(script, i[2]).testVector
          /\ hold_response' = Given(Posted(script, i[2]), "holdResponse", hold_response)
      BY <2>6 DEF PostResponse, At, SetResponse, NewExchange, ThisPhase
    <3>2. script.family \in {"RSA", "USA", "SAU", "UAU"}
      <4>1. script \in Script
        BY <2>2, SessionAssumption DEF Running, SessionTypeOK
      <4> HIDE DEF i
      <4> QED BY <2>2, <3>1, <4>1 DEF Script
    <3>3. /\ script_test_vector' = script.vector
          /\ ~(script.family = "SAU" /\ i[2] = 2) => hold_response' = hold_response
      BY <3>1, <3>2, PostedFacts DEF Given
    <3> HIDE DEF i
    <3> QED BY <2>2, <2>3, <3>1, <3>3
  <2>7. CASE PowerCycle
    <3>1. /\ i[1] = "power_cycle" /\ ~dut'.due /\ dut'.awaiting = {}
          /\ UNCHANGED <<recv_request, hold_response, script_test_vector>>
      BY <2>7 DEF PowerCycle, At, ResetDut, vars, globals, settings
    <3> HIDE DEF i
    <3> QED BY <2>2, <2>3, <3>1
  <2>8. CASE Reconfigure \/ SendRequest
    <3>1. /\ i[1] \in {"reconfigure", "send_request"}
          /\ UNCHANGED <<recv_request, hold_response, script_test_vector>>
      BY <2>8 DEF Reconfigure, SendRequest, At, vars, globals, settings
    <3> HIDE DEF i
    <3> QED BY <2>2, <2>3, <3>1
  <2>9. CASE CheckRequest
    <3>1. /\ i[1] = "check_request" /\ dut' = dut /\ Quiet
          /\ UNCHANGED <<recv_request, hold_response, script_test_vector, heap, pc,
                         sent_response>>
      BY <2>9 DEF CheckRequest, At, vars, globals, settings
    <3>2. recv_request # NoBody /\ afc_resp'.sentResponse = Dumped
      BY <2>2, <2>9, RequestSeen
    <3>3. Idle /\ ~dut.due /\ dut.awaiting = {}
      <4>1. ~hold_response
        <5> HIDE DEF i
        <5> QED BY <2>2, <3>1
      <4> QED BY <3>1, <4>1, QuietIsIdle
    <3>4. Idle' /\ Dumped' = Dumped
      BY <3>1, <3>3 DEF Idle, Active, Dumped
    <3> HIDE DEF i
    <3> QED BY <2>2, <2>3, <3>1, <3>2, <3>3, <3>4
  <2>10. CASE PollRequest
    <3>1. /\ i[1] = "poll_request" /\ dut' = dut
          /\ UNCHANGED <<recv_request, hold_response, script_test_vector>>
      BY <2>10 DEF PollRequest, At, vars, globals, settings
    <3>2. recv_request # NoBody
      BY <2>2, <2>10, RequestSeen
    <3> HIDE DEF i
    <3> QED BY <2>2, <2>3, <3>1, <3>2
  <2>11. CASE ReleaseResponse
    <3>1. /\ i[1] = "release_response" /\ dut' = dut /\ ~hold_response'
          /\ UNCHANGED <<recv_request, script_test_vector>>
      BY <2>11 DEF ReleaseResponse, At, SetParams, settings
    <3> HIDE DEF i
    <3> QED BY <2>2, <2>3, <3>1
  <2>12. CASE ValidateRf
    <3>1. /\ i[1] = "validate_rf" /\ dut' = dut
          /\ UNCHANGED <<recv_request, hold_response, script_test_vector>>
      BY <2>12 DEF ValidateRf, At, vars, globals, settings
    <3> HIDE DEF i
    <3> QED BY <2>2, <2>3, <3>1
  <2>13. CASE CheckNoRequest \/ MonitorNothingGranted
    <3>1. i[1] \in {"check_no_request", "monitor_nothing_granted"}
      BY <2>13 DEF CheckNoRequest, MonitorNothingGranted, At
    <3> HIDE DEF i
    <3> QED BY <2>2, <3>1
  <2> QED BY <1>2, <2>4, <2>5, <2>6, <2>7, <2>8, <2>9, <2>10, <2>11, <2>12, <2>13, Zenon
      DEF ScriptStep
<1> QED BY <1>1, <1>2

LEMMA NextPlace ==
  ASSUME Triggered, SessionTypeOK, AwaitInv, PlaceInv, [SessionNext]_allVars
  PROVE  PlaceInv'
<1>1. ASSUME NEW s \in Scripts, Setup(s) PROVE PlaceInv'
  <2>1. /\ script' = s /\ step' = 1 /\ ~dut'.due /\ dut'.awaiting = {}
        /\ ~hold_response'
    BY <1>1 DEF Setup, Reset, ResetDut
  <2>2. Program(s)[1] = <<"configure", 1>>
    BY SessionAssumption, ProgramSteps
  <2>3. Instruction' = <<"configure", 1>>
    BY <2>1, <2>2 DEF Instruction
  <2> QED BY <2>1, <2>3 DEF PlaceInv, Place
<1>2. CASE DutDoesNotSend \/ \E c \in Cfi \cup {0} : DutStrays(c)
  BY <1>2, DutRests, PlaceKept DEF vars, globals, settings
<1>3. ASSUME NEW t \in Inquiry, DutTakesAnswer(t) PROVE PlaceInv'
  BY <1>3, AnswerTaken, PlaceKept DEF vars, globals, settings
<1>4. CASE UNCHANGED allVars
  BY <1>4, PlaceKept DEF allVars, vars, globals, settings, session
<1> QED BY <1>1, <1>2, <1>3, <1>4, ScriptPlace, HandlerPlace, InquiryPlace, Zenon
    DEF SessionNext

\* A verdict on a channel comes from a comparison with what get-status showed.
LEMMA VerdictOnChannel ==
  ASSUME [SessionNext]_allVars, NEW m \in measured' \ measured,
         m.name = "CONFORM", m.value, m.channel # 0 \/ ~MonitorNothingGranted
  PROVE  /\ ValidateRf /\ m.channel = dut.op_channel /\ m.channel # 0
         /\ dut.op_channel \in SpLimits(
              IF script.family = "SAU" /\ ThisPhase = 2 THEN Dumped
              ELSE afc_resp.sentResponse)
<1>1. ScriptStep
  BY Zenon DEF SessionNext, Setup, DutSends, DutDoesNotSend, DutTakesAnswer, Handler, DutStrays,
         session, allVars
<1>2. ASSUME NEW other, VerifyRequest(other), m \notin other PROVE FALSE
  <2>1. m = [Measure("REQUEST_VALID", GetStatus.valid_request)
               EXCEPT !.inquiry = GetStatus.receivedRequest]
    BY <1>2 DEF VerifyRequest, AppendMeasurements
  <2> QED BY <2>1 DEF Measure
<1>3. m \notin {Measure("SEND_REQUEST", FALSE), Measure("SEND_REQUEST", TRUE),
                Measure("NO_REQUEST", dut.op_channel # 0),
                Measure("SP_OPERATION", dut.op_channel # 0), Measure("CONFORM", FALSE)}
  BY DEF Measure
<1>4. ~Monitor /\ ~CheckRequest /\ ~PollRequest /\ ~CheckNoRequest
  <2>1. ~Monitor
    BY <1>3 DEF Monitor, AppendMeasurements
  <2>2. ~CheckRequest
    BY <1>2, <1>3, Zenon DEF CheckRequest, AppendMeasurements
  <2>3. ~PollRequest
    BY <1>2, <1>3, Zenon DEF PollRequest, AppendMeasurements
  <2>4. ~CheckNoRequest
    BY <1>3, Zenon DEF CheckNoRequest, AppendMeasurements
  <2> QED BY <2>1, <2>2, <2>3, <2>4
<1>5. ~MonitorNothingGranted
  <2>1. SUFFICES ASSUME MonitorNothingGranted PROVE FALSE
    OBVIOUS
  <2>2. m = [Measure("CONFORM", dut.op_channel = 0) EXCEPT !.channel = dut.op_channel]
    BY <2>1 DEF MonitorNothingGranted, AppendMeasurements
  <2>3. m.channel = dut.op_channel
    BY <2>2 DEF Measure
  <2>4. m.value = (dut.op_channel = 0)
    BY <2>2 DEF Measure
  <2>5. m.channel # 0
    BY <2>1, Zenon
  <2>6. ~m.value
    BY <2>3, <2>4, <2>5
  <2> QED BY <2>6, Zenon
<1>6. ValidateRf
  BY <1>1, <1>4, <1>5, Zenon
  DEF ScriptStep, Configure, Reconfigure, PowerCycle, PostResponse, PostReset, SendRequest,
      ReleaseResponse, Teardown
<1> DEFINE status == IF script.family = "SAU" /\ ThisPhase = 2 THEN GetStatus ELSE afc_resp
           Result(value) == [Measure("CONFORM", value) EXCEPT !.channel = dut.op_channel]
<1>7. ~Result(FALSE).value /\ Result(TRUE).channel = dut.op_channel
  BY DEF Measure
<1>8. /\ dut.op_channel \in SpLimits(status.sentResponse) /\ dut.op_channel # 0
      /\ \E value \in BOOLEAN : m = Result(value)
  <2>1. \/ AppendMeasurements({Measure("CONFORM", FALSE)})
        \/ UNCHANGED measured
        \/ AppendMeasurements({Result(FALSE)})
        \/ /\ dut.op_channel \in SpLimits(status.sentResponse) /\ dut.op_channel # 0
           /\ \E value \in BOOLEAN : AppendMeasurements({Result(value)})
    BY <1>6 DEF ValidateRf
  <2>2. m # Result(FALSE)
    BY <1>7
  <2> HIDE DEF Result
  <2> QED BY <1>3, <2>1, <2>2 DEF AppendMeasurements
<1>9. m.channel = dut.op_channel
  BY <1>8 DEF Measure
<1>10. status.sentResponse = IF script.family = "SAU" /\ ThisPhase = 2 THEN Dumped
                             ELSE afc_resp.sentResponse
  BY DEF GetStatus
<1> HIDE DEF status
<1> QED BY <1>6, <1>8, <1>9, <1>10

\* A limit for the DUT's channel is found only in the answer that the DUT has.
LEMMA LimitIsOwn ==
  ASSUME SessionTypeOK, GrantInv, AwaitInv, Idle, recv_request # NoBody,
         dut.awaiting = {}, script_test_vector = script.vector,
         NEW c, c \in SpLimits(Dumped)
  PROVE  c \in Usable(dut.permitted)
<1>1. Dumped.response.spectrum # NoSpectrum
  BY DEF SpLimits, NoSpectrum
<1>2. sent_response \in Object
  <2>1. sent_response # Unsent
    BY <1>1 DEF Dumped, EmptyReply, BlankResponse
  <2> QED BY <2>1 DEF SessionTypeOK, TypeOK
<1>3. Dumped.response = heap[sent_response]
  BY <1>2 DEF Dumped, Unsent, Object
<1>4. PICK t \in Inquiry : sent_response \in {<<t, "answer">>, <<t, "error">>}
  BY <1>2 DEF Object
<1>5. sent_response = <<t, "answer">>
  BY <1>1, <1>3, <1>4 DEF GrantInv, ObjectInv
<1> DEFINE sp == heap[<<t, "answer">>].spectrum
<1>6. dut.permitted = sp
  BY <1>5 DEF AwaitInv, Heard
<1>7. OfVector(sp)
  BY <1>5 DEF GrantInv, VectorInv
<1>8. c \in IF script.vector = 1 THEN sp.freq
           ELSE IF script.vector = 2 THEN sp.chan ELSE sp.chan \cap sp.freq
  BY <1>3, <1>5 DEF SpLimits
<1> HIDE DEF sp
<1> QED BY <1>6, <1>7, <1>8 DEF OfVector, Usable

LEMMA StepJudged ==
  ASSUME SessionTypeOK, GrantInv, AwaitInv, PlaceInv, [SessionNext]_allVars,
         NEW m \in measured' \ measured, m.name = "CONFORM", m.value, m.channel # 0
  PROVE  m.channel \in Usable(dut.permitted)
<1>1. /\ ValidateRf /\ m.channel = dut.op_channel
      /\ dut.op_channel \in SpLimits(
           IF script.family = "SAU" /\ ThisPhase = 2 THEN Dumped
           ELSE afc_resp.sentResponse)
  BY VerdictOnChannel
<1>2. Quiet /\ Instruction[1] = "validate_rf" /\ Place(Instruction)
  <2>1. ScriptStep /\ ~Teardown /\ Instruction[1] = "validate_rf" /\ Quiet
    BY <1>1 DEF ScriptStep, ValidateRf, At, Teardown
  <2> QED BY <2>1, AtInstruction DEF PlaceInv
<1>3. /\ ~hold_response /\ recv_request # NoBody /\ script_test_vector = script.vector
      /\ ~Held(Instruction) => afc_resp.sentResponse = Dumped
  BY <1>2 DEF Place
<1>4. Idle /\ dut.awaiting = {}
  BY <1>2, <1>3, QuietIsIdle
<1>5. dut.op_channel \in SpLimits(Dumped)
  BY <1>1, <1>3 DEF Held, ThisPhase
<1> QED BY <1>1, <1>3, <1>4, <1>5, LimitIsOwn

\* Whatever the DUT does on the air: when it inquires as it is asked to and one
\* inquiry at a time, no power measurement of any script passes on a channel
\* that the answer it was last given does not permit.
THEOREM OwnAnswerJudges ==
  ASSUME Triggered, ~Overlap PROVE SessionSpec => JudgedByOwnAnswer
<1> DEFINE Inv == /\ SessionTypeOK /\ TypeInv /\ SequentialInv /\ GrantInv /\ AwaitInv
                  /\ PlaceInv
<1>1. SessionInit => Inv
  BY InitSessionType, InitSequential, InitGrant, InitPlace DEF SessionInit
<1>2. Inv /\ [SessionNext]_allVars => Inv'
  <2> SUFFICES ASSUME Inv, [SessionNext]_allVars PROVE Inv'
    OBVIOUS
  <2>1. [Next]_vars
    BY SessionMoves, SimulatorMoves
  <2>2. SessionTypeOK' /\ TypeInv'
    BY NextSessionType
  <2>3. SequentialInv' /\ GrantInv'
    BY <2>1, <2>2, NextSequential, NextGrant
  <2>4. AwaitInv' /\ PlaceInv'
    BY NextAwait, NextPlace
  <2> QED BY <2>2, <2>3, <2>4
<1>3. Inv /\ [SessionNext]_allVars =>
        [\A m \in measured' \ measured :
           m.name = "CONFORM" /\ m.value /\ m.channel # 0 =>
             m.channel \in Usable(dut.permitted)]_allVars
  BY StepJudged
<1> QED BY <1>1, <1>2, <1>3, PTL DEF SessionSpec, JudgedByOwnAnswer
=============================================================================
