------------------------- MODULE TestSessionVerdict -------------------------
(***************************************************************************)
(* Proofs about a whole script: its second phase, and its verdict on a DUT *)
(* that does all that the test plan asks of it.                            *)
(*                                                                         *)
(* SecondPhaseMoves: an answer is made of random_picks, which only the     *)
(* building of a vector changes, once between two set-responses.  The      *)
(* channel that passed in phase 1 is one of the picks when the script      *)
(* posts its update, and the update takes them away from what is inquired. *)
(*                                                                         *)
(* ConformantPasses: that a verdict is right depends on everything that    *)
(* led to it, so the invariant says, for each instruction a script may     *)
(* stand at, what the settings in force, the handler, the answers given    *)
(* and the state of the DUT are by then.  Its parts, from the simulator    *)
(* outwards:                                                               *)
(*   SettledInv   the settings in force are those of the running script;   *)
(*   BodyInv      what is inquired is a body that fits the script;         *)
(*   OfferInv     what the simulator may still answer has a channel for    *)
(*                the script's vector, also after an update;               *)
(*   ServedInv    what a handler is about to answer, likewise;             *)
(*   DutInv       the DUT operates where its last answer allows;           *)
(*   ExpectsInv   what each instruction finds when its turn comes;         *)
(*   PassInv      so all that has been measured is what is wanted.         *)
(***************************************************************************)
EXTENDS TestSessionProofs

(* Where a random answer comes from. *)

Building == {"build", "publish", "append"}
RandomInv == ~is_random => \A t \in Inquiry : pc[t] \notin Building

\* The channels and ranges of a random answer are the last picks.
OfPicks(sp) == sp.chan \subseteq random_picks /\ sp.freq \subseteq random_picks
PickedInv ==
  /\ \A t \in Inquiry : /\ pc[t] = "publish" => picks[t] = {}
                        /\ pc[t] = "append" => picks[t] \subseteq random_picks
  /\ OfPicks(vectors.responses)
  /\ \A t \in Inquiry :
       sent_response = <<t, "answer">> => OfPicks(heap[<<t, "answer">>].spectrum)

\* A vector is built once: nothing has been answered with it before.
BuildInv ==
  /\ \A t \in Inquiry : /\ pc[t] \in {"idle", "parse", "validate", "check", "build"} =>
                             picks[t] = {}
                        /\ pc[t] = "build" => "responses" \notin vectors.keys
                        /\ sent_response = <<t, "answer">> => "responses" \in vectors.keys
  /\ "responses" \notin vectors.keys => vectors.responses = NoSpectrum

PickInv == /\ RandomInv /\ BuildInv
           /\ is_random /\ ~only_random_power => PickedInv

LEMMA InitPicks == Init => PickInv
BY DEF Init, PickInv, RandomInv, BuildInv, PickedInv, OfPicks, EmptyVectors, NoSpectrum,
       Unsent, Building

\* What a handler does to the picks and the vector.
LEMMA HandlerBuild ==
  ASSUME ~Overlap, TypeInv, SequentialInv, NEW t \in Inquiry,
         (\E b \in Body : Receive(t, b)) \/ Handle(t),
         RandomInv, BuildInv
  PROVE  RandomInv' /\ BuildInv'
<1>1. OthersRest(t)
  BY HandlerFrame DEF SequentialInv
<1>2. ObjectsStep(t)
  BY StepObjects
<1>3. UNCHANGED settings
  BY Zenon DEF Receive, Handle, Parse, Validate, CheckVector, Build, Publish, AppendResponse,
               Accept, Load, Release, Copy, Stamp, Filter, Send, globals
<1>4. \A u \in Inquiry \ {t} : picks'[u] = picks[u]
  BY DEF Receive, Handle, Parse, Validate, CheckVector, Build, Publish, AppendResponse,
         Accept, Load, Release, Copy, Stamp, Filter, Send, threads, TypeInv, TypeOK
<1>5. /\ pc'[t] = "build" => CheckVector(t) /\ is_random /\ "responses" \notin vectors.keys
      /\ pc'[t] = "publish" => Build(t)
      /\ pc'[t] = "append" => Publish(t)
  BY DEF Receive, Handle, Parse, Validate, CheckVector, Build, Publish, AppendResponse,
         Accept, Load, Release, Copy, Stamp, Filter, Send, gen_err_resp, Goto, TypeInv, TypeOK
<1>6. /\ "responses" \in vectors.keys => "responses" \in vectors'.keys
      /\ "responses" \notin vectors'.keys => vectors' = vectors
  BY DEF Receive, Handle, Parse, Validate, CheckVector, Build, Publish, AppendResponse,
         Accept, Load, Release, Copy, Stamp, Filter, Send, globals, TypeInv, TypeOK
<1>7. pc'[t] \in {"idle", "parse", "validate", "check", "build"} =>
        pc[t] \in {"idle", "parse", "validate", "check"} /\ picks' = picks
  BY DEF Receive, Handle, Parse, Validate, CheckVector, Build, Publish, AppendResponse,
         Accept, Load, Release, Copy, Stamp, Filter, Send, gen_err_resp, Goto, threads,
         TypeInv, TypeOK
<1>8. sent_response' = <<t, "answer">> => "responses" \in vectors.keys
  BY DEF Receive, Handle, Parse, Validate, CheckVector, Build, Publish, AppendResponse,
         Accept, Load, Release, Copy, Stamp, Filter, Send, gen_err_resp, globals, BuildInv
<1>9. RandomInv'
  BY <1>1, <1>3, <1>5 DEF RandomInv, Building, OthersRest, Active, settings, CheckVector,
     Build, Publish
<1>10. BuildInv'
  <2>1. \A u \in Inquiry : pc'[u] = "build" => "responses" \notin vectors'.keys
    BY <1>1, <1>5 DEF OthersRest, Active, CheckVector
  <2>2. \A u \in Inquiry : sent_response' = <<u, "answer">> => "responses" \in vectors'.keys
    BY <1>2, <1>6, <1>8 DEF ObjectsStep, BuildInv
  <2>3. \A u \in Inquiry : pc'[u] \in {"idle", "parse", "validate", "check", "build"} =>
                             picks'[u] = {}
    BY <1>1, <1>4, <1>7 DEF OthersRest, BuildInv
  <2> QED BY <1>6, <2>1, <2>2, <2>3 DEF BuildInv
<1> QED BY <1>9, <1>10

LEMMA HandlerPicked ==
  ASSUME ~Overlap, TypeInv, SequentialInv, BuildInv, PickedInv, is_random,
         ~only_random_power, NEW t \in Inquiry,
         (\E b \in Body : Receive(t, b)) \/ Handle(t)
  PROVE  PickedInv'
<1>1. OthersRest(t)
  BY HandlerFrame DEF SequentialInv
<1>2. ObjectsStep(t)
  BY StepObjects
<1>3. \A u \in Inquiry \ {t} : pc'[u] \notin Building
  BY <1>1 DEF OthersRest, Active, Building
<1>4. CASE Build(t)
  <2>1. /\ "responses" \notin vectors.keys /\ vectors.responses = NoSpectrum
        /\ \A u \in Inquiry : sent_response # <<u, "answer">>
        /\ picks[t] = {}
    BY <1>4 DEF Build, BuildInv
  <2>2. vectors' = vectors /\ sent_response' = sent_response /\ picks' = picks
    BY <1>4 DEF Build
  <2>3. pc'[t] = "publish"
    BY <1>4 DEF Build, Goto, TypeInv, TypeOK
  <2> QED BY <1>3, <2>1, <2>2, <2>3 DEF PickedInv, OfPicks, NoSpectrum, Building
<1>5. CASE ~Build(t)
  <2>1. random_picks' = random_picks
    BY <1>5, Zenon
    DEF Receive, Handle, Parse, Validate, CheckVector, Publish, AppendResponse,
        Accept, Load, Release, Copy, Stamp, Filter, Send, globals
  <2>2. pc'[t] = "append" => Publish(t)
    BY DEF Receive, Handle, Parse, Validate, CheckVector, Build, Publish, AppendResponse,
           Accept, Load, Release, Copy, Stamp, Filter, Send, gen_err_resp, Goto, TypeInv,
           TypeOK
  <2>3. pc'[t] # "publish"
    BY <1>5
    DEF Receive, Handle, Parse, Validate, CheckVector, Publish, AppendResponse,
        Accept, Load, Release, Copy, Stamp, Filter, Send, gen_err_resp, Goto, TypeInv, TypeOK
  <2>4. Publish(t) => picks'[t] \subseteq random_picks
    BY DEF Publish, PickedInv, TypeInv, TypeOK
  <2>5. \/ vectors'.responses \in {vectors.responses, NoSpectrum}
        \/ /\ picks[t] \subseteq random_picks
           /\ vectors'.responses = [chan |-> IF NeedsChannel THEN picks[t] ELSE {},
                                    freq |-> IF NeedsFreqRange THEN picks[t] ELSE {}]
    <3>1. CASE AppendResponse(t)
      <4>1. picks[t] \subseteq random_picks
        BY <3>1 DEF AppendResponse, PickedInv
      <4>2. \/ vectors' = vectors
            \/ vectors' = [keys |-> vectors.keys \cup {"listed"},
                           responses |-> [chan |-> IF NeedsChannel THEN picks[t] ELSE {},
                                          freq |-> IF NeedsFreqRange THEN picks[t] ELSE {}]]
        BY <3>1, Zenon DEF AppendResponse
      <4> QED BY <4>1, <4>2
    <3>2. CASE Publish(t)
      BY <3>2 DEF Publish
    <3>3. CASE Load(t)
      BY <3>3 DEF Load
    <3>4. \/ vectors' = vectors
          \/ AppendResponse(t) \/ Publish(t) \/ Load(t)
      BY <1>5, Zenon DEF Receive, Handle, Parse, Validate, CheckVector, Accept, Release, Copy,
                         Stamp, Filter, Send, globals
    <3> QED BY <3>1, <3>2, <3>3, <3>4
  <2>6. OfPicks(vectors'.responses)
    BY <2>5 DEF PickedInv, OfPicks, NoSpectrum
  <2>7. ASSUME NEW u \in Inquiry, sent_response' = <<u, "answer">>
        PROVE  OfPicks(heap'[<<u, "answer">>].spectrum)
    <3>1. CASE u = t /\ heap'[<<t, "answer">>].spectrum = vectors.responses
      BY <3>1 DEF PickedInv
    <3>2. CASE sent_response = <<u, "answer">>
      <4>1. OfPicks(heap[<<u, "answer">>].spectrum) /\ OfPicks(vectors.responses)
        BY <3>2 DEF PickedInv
      <4> QED BY <1>2, <4>1 DEF ObjectsStep, OfPicks
    <3> QED BY <1>2, <2>7, <3>1, <3>2 DEF ObjectsStep
  <2> QED BY <1>3, <2>1, <2>2, <2>3, <2>4, <2>6, <2>7 DEF PickedInv, OfPicks, Building
<1> QED BY <1>4, <1>5

LEMMA HandlerPicks ==
  ASSUME ~Overlap, TypeInv, SequentialInv, PickInv, NEW t \in Inquiry,
         (\E b \in Body : Receive(t, b)) \/ Handle(t)
  PROVE  PickInv'
<1>1. UNCHANGED settings
  BY Zenon DEF Receive, Handle, Parse, Validate, CheckVector, Build, Publish, AppendResponse,
               Accept, Load, Release, Copy, Stamp, Filter, Send, globals
<1> QED BY <1>1, HandlerBuild, HandlerPicked DEF PickInv, settings

-----------------------------------------------------------------------------
(* What a script sets, and when. *)
RandomScript == script.family \in {"RSA", "SAU"}
Mover == RandomScript /\ script.role = "AP"

\* No inquiry is to come and none is under way that is not held.
Still == ~dut.due /\ \A t \in Inquiry : Active(t) => pc[t] = "hold" /\ hold_response

\* What a script knows of the settings when it reaches an instruction.
Before(i) == i[2] = 1 /\ i[1] \in {"configure", "monitor", "set_response"}
Update(i) == i[2] = 2 /\ i[1] = "set_response"
Tuned(i) ==
  /\ Before(i) => ~is_random
  /\ Mover /\ ~Before(i) => /\ is_random /\ ~only_random_power
                            /\ difference_last_picks <=> i[2] = 2 /\ ~Update(i)
  /\ i[2] = 2 \/ i[1] \in {"validate_rf", "poll_request"} => valid_request
  /\ Update(i) => Still
  /\ i[1] \in {"monitor_nothing_granted", "reset", "check_no_request"} => ~RandomScript
TunedInv ==
  /\ is_random => RandomScript
  /\ RandomScript /\ ~Running => Still
  /\ \A i \in Instructions : Running /\ Instruction = i => Tuned(i)

LEMMA InitTuned == SessionInit => TunedInv
BY DEF SessionInit, Init, TunedInv, RandomScript, NoScript, Running

\* What set-response makes of what the scripts post.
RandomMembers(s, phi, tc) ==
  /\ "random" \in DOMAIN tc <=> s.family \in {"RSA", "SAU"}
  /\ "random" \in DOMAIN tc => tc["random"] = TRUE
  /\ s.role = "AP" => "onlyRandomPower" \notin DOMAIN tc
  /\ s.family \in {"RSA", "SAU"} /\ s.role = "AP" =>
       ("difference_last_picks" \in DOMAIN tc <=> phi = 2)
  /\ "difference_last_picks" \in DOMAIN tc => tc["difference_last_picks"] = TRUE

LEMMA PostedRandom ==
  ASSUME NEW s, s.family \in {"RSA", "USA", "SAU", "UAU"}, NEW phi \in 1..2
  PROVE  RandomMembers(s, phi, Posted(s, phi))
<1>1. CASE s.family = "RSA"
  BY <1>1 DEF Posted, set_afc_response, Optional, RandomMembers
<1>2. CASE s.family = "SAU"
  BY <1>2 DEF Posted, set_afc_response, Optional, RandomMembers
<1>3. CASE s.family = "UAU"
  BY <1>3 DEF Posted, set_afc_response, Optional, RandomMembers
<1>4. CASE s.family = "USA"
  BY <1>4 DEF Posted, set_afc_response, Optional, RandomMembers
<1> QED BY <1>1, <1>2, <1>3, <1>4

LEMMA ResponsePosted ==
  ASSUME SessionTypeOK, PostResponse
  PROVE  /\ Running /\ Instruction[1] = "set_response" /\ Instruction \in Instructions
         /\ UNCHANGED <<script, dut, pc, body, picks, heap, random_picks, valid_request,
                        measured, reply>>
         /\ vectors' = [keys |-> {"testCaseID"}, responses |-> NoSpectrum]
         /\ sent_response' = Unsent
         /\ (is_random' <=> RandomScript)
         /\ Mover => /\ ~only_random_power'
                     /\ difference_last_picks' <=> Instruction[2] = 2
<1>1. /\ Running /\ Instruction[1] = "set_response"
      /\ SetResponse(Posted(script, Instruction[2])) /\ UNCHANGED <<script, dut, measured>>
  BY DEF PostResponse, At, Running, ThisPhase
<1>2. script \in Script /\ Instruction \in Instructions /\ Instruction[2] \in 1..2
  BY <1>1, SessionAssumption, LengthType
  DEF Running, SessionTypeOK, Instruction, Instructions
<1>3. script.family # "USV"
  <2>1. SUFFICES ASSUME script.family = "USV" PROVE FALSE
    OBVIOUS
  <2>2. Program(script) = <<<<"configure", 1>>, <<"reset", 1>>, <<"send_request", 1>>,
                            <<"check_no_request", 1>>>>
    BY <2>1 DEF Program, USVProgram, Phase
  <2> QED BY <1>1, <2>2 DEF Running, Instruction
<1>4. script.family \in {"RSA", "USA", "SAU", "UAU"}
  BY <1>2, <1>3 DEF Script
<1> DEFINE tc == Posted(script, Instruction[2])
<1>5. /\ UNCHANGED <<pc, body, picks, heap, random_picks, valid_request, reply>>
      /\ vectors' = [keys |-> {"testCaseID"}, responses |-> NoSpectrum]
      /\ sent_response' = Unsent
      /\ is_random' = Given(tc, "random", FALSE)
      /\ is_random' => /\ only_random_power' = Given(tc, "onlyRandomPower", FALSE)
                       /\ difference_last_picks' = Given(tc, "difference_last_picks", FALSE)
  <2> HIDE DEF tc
  <2> QED BY <1>1 DEF SetResponse, NewExchange, threads, tc
<1>6. RandomMembers(script, Instruction[2], tc)
  BY <1>2, <1>4, PostedRandom
<1> HIDE DEF tc
<1>7. is_random' <=> RandomScript
  BY <1>5, <1>6 DEF RandomScript, RandomMembers, Given
<1>8. Mover => ~only_random_power' /\ (difference_last_picks' <=> Instruction[2] = 2)
  <2>1. SUFFICES ASSUME Mover
                 PROVE  ~only_random_power' /\ (difference_last_picks' <=> Instruction[2] = 2)
    OBVIOUS
  <2>2. /\ only_random_power' = Given(tc, "onlyRandomPower", FALSE)
        /\ difference_last_picks' = Given(tc, "difference_last_picks", FALSE)
    BY <1>5, <1>7, <2>1 DEF Mover
  <2>3. Given(tc, "onlyRandomPower", FALSE) = FALSE
    BY <1>6, <2>1 DEF Mover, RandomScript, RandomMembers, Given
  <2>4. Instruction[2] = 2 => Given(tc, "difference_last_picks", FALSE) = TRUE
    BY <1>6, <2>1 DEF Mover, RandomScript, RandomMembers, Given
  <2>5. Instruction[2] # 2 => Given(tc, "difference_last_picks", FALSE) = FALSE
    BY <1>6, <2>1 DEF Mover, RandomScript, RandomMembers, Given
  <2> QED BY <2>2, <2>3, <2>4, <2>5
<1> QED BY <1>1, <1>2, <1>5, <1>7, <1>8

LEMMA ResetPosted ==
  ASSUME Reset
  PROVE  /\ UNCHANGED <<pc, body, picks, heap, random_picks, reply>>
         /\ vectors' = [keys |-> {}, responses |-> NoSpectrum]
         /\ sent_response' = Unsent /\ ~is_random'
BY DEF Reset, NewExchange, threads

\* All other instructions leave alone what is said here of the simulator.
LEMMA InstructionRest ==
  ASSUME ScriptStep, ~PostResponse, ~PostReset, ~Teardown
  PROVE  /\ UNCHANGED <<pc, body, picks, heap, random_picks, valid_request, vectors,
                        sent_response, is_random, only_random_power,
                        difference_last_picks, reply>>
         /\ ~ReleaseResponse => UNCHANGED hold_response
<1>1. ASSUME SetParams(FALSE)
      PROVE  UNCHANGED <<pc, body, picks, heap, random_picks, valid_request, vectors,
                         sent_response, is_random, only_random_power,
                         difference_last_picks, reply>>
  BY <1>1 DEF SetParams, settings, threads
<1>2. ASSUME UNCHANGED vars
      PROVE  UNCHANGED <<pc, body, picks, heap, random_picks, valid_request, vectors,
                         sent_response, is_random, only_random_power,
                         difference_last_picks, reply, hold_response>>
  BY <1>2 DEF vars, globals, settings, threads
<1> QED BY <1>1, <1>2, Zenon
    DEF ScriptStep, Configure, Reconfigure, PowerCycle, Monitor, SendRequest, CheckRequest,
        PollRequest, CheckNoRequest, ReleaseResponse, ValidateRf, MonitorNothingGranted

\* When the settings change, no random vector is being built.
LEMMA ScriptPicks ==
  ASSUME SessionTypeOK, TunedInv, PickInv, ScriptStep \/ \E s \in Scripts : Setup(s)
  PROVE  PickInv'
<1>1. ASSUME Reset, ~is_random \/ Still PROVE PickInv'
  <2>1. \A t \in Inquiry : pc[t] \notin Building
    BY <1>1 DEF PickInv, RandomInv, Still, Active, Building
  <2> QED BY <1>1, <2>1, ResetPosted
          DEF PickInv, RandomInv, BuildInv, Unsent
<1>2. ASSUME NEW s \in Scripts, Setup(s) PROVE PickInv'
  <2>1. Reset /\ ~is_random
    BY <1>2 DEF Setup, TunedInv, RandomScript, NoScript
  <2> QED BY <1>1, <2>1
<1>3. CASE Teardown
  <2>1. Reset /\ ~Running
    BY <1>3 DEF Teardown, Running
  <2> QED BY <1>1, <2>1 DEF TunedInv
<1>4. CASE PostReset
  <2>1. Reset /\ ScriptStep /\ ~Teardown /\ Instruction[1] = "reset"
    BY <1>4 DEF PostReset, ScriptStep, Teardown, At
  <2>2. ~is_random
    BY <2>1, AtInstruction DEF TunedInv, Tuned
  <2> QED BY <1>1, <2>1, <2>2
<1>5. CASE PostResponse
  <2>1. /\ Running /\ Instruction[1] = "set_response" /\ Instruction \in Instructions
        /\ UNCHANGED <<pc, picks>>
        /\ vectors' = [keys |-> {"testCaseID"}, responses |-> NoSpectrum]
        /\ sent_response' = Unsent
        /\ (is_random' <=> RandomScript)
    BY <1>5, ResponsePosted
  <2>2. ~is_random \/ Still
    BY <2>1 DEF TunedInv, Tuned, Before, Update, Instructions
  <2>3. \A t \in Inquiry : pc[t] \notin Building
    BY <2>2 DEF PickInv, RandomInv, Still, Active, Building
  <2> QED BY <2>1, <2>3
          DEF PickInv, RandomInv, BuildInv, PickedInv, OfPicks, NoSpectrum, Unsent, Building
<1>6. CASE ScriptStep /\ ~PostResponse /\ ~PostReset /\ ~Teardown
  BY <1>6, InstructionRest DEF PickInv, RandomInv, BuildInv, PickedInv, OfPicks
<1> QED BY <1>2, <1>3, <1>4, <1>5, <1>6

\* A script that returns early, or ends, has waited.
LEMMA QuietIsStill == Quiet => Still
BY DEF Quiet, Still

LEMMA HandlersRest ==
  ASSUME Still, NEW t \in Inquiry, Handler(t)
  PROVE  FALSE
<1>1. Handle(t) /\ Active(t)
  BY HandlerKeeps DEF Handler
<1>2. pc[t] = "hold" /\ hold_response
  BY <1>1 DEF Still
<1> QED BY <1>1, <1>2
    DEF Handle, Parse, Validate, CheckVector, Build, Publish, AppendResponse, Accept, Load,
        Release, Copy, Stamp, Filter, Send

LEMMA CheckPasses ==
  ASSUME CheckRequest \/ PollRequest, Advance
  PROVE  valid_request
<1>1. ~Return
  <2>1. step \in DOMAIN Program(script)
    BY DEF CheckRequest, PollRequest, At
  <2> QED BY <2>1, LengthType DEF Advance, Return, Stopped, Length
<1>2. GetStatus.valid_request
  BY <1>1, Zenon DEF CheckRequest, PollRequest, VerifyRequest
<1> QED BY <1>2 DEF GetStatus

LEMMA ScriptEnds ==
  ASSUME SessionTypeOK, TunedInv, ScriptStep, ~Teardown, ~Running', RandomScript
  PROVE  Quiet /\ UNCHANGED <<pc, hold_response, dut>>
<1>1. /\ Running /\ Instruction \in Instructions /\ script' = script
      /\ (Advance \/ Return) /\ Tuned(Instruction)
  BY AtInstruction DEF TunedInv
<1>2. script \in Script
  BY <1>1, SessionAssumption DEF Running, SessionTypeOK
<1>3. Return \/ Instruction[1] = "validate_rf"
  <2>1. SUFFICES ASSUME Advance PROVE Instruction[1] = "validate_rf"
    BY <1>1
  <2>2. step \in DOMAIN Program(script) /\ step + 1 \notin DOMAIN Program(script)
    BY <1>1, <2>1 DEF Running, Advance
  <2> QED BY <1>2, <2>2, ProgramSteps DEF RandomScript, Instruction
<1>4. CheckRequest \/ PollRequest \/ ValidateRf
  <2>1. Return => CheckRequest \/ PollRequest \/ CheckNoRequest \/ ValidateRf
    <3>1. SUFFICES ASSUME Advance, Return PROVE FALSE
      BY Zenon DEF ScriptStep, Configure, Reconfigure, PowerCycle, Monitor, PostResponse,
                   PostReset, SendRequest, ReleaseResponse, MonitorNothingGranted
    <3> QED BY <1>1, <3>1, LengthType DEF Running, Advance, Return, Stopped, Length
  <2>2. Instruction[1] = "validate_rf" => ValidateRf
    BY DEF ScriptStep, Configure, Reconfigure, PowerCycle, Monitor, PostResponse, PostReset,
           SendRequest, CheckRequest, PollRequest, CheckNoRequest, ReleaseResponse,
           MonitorNothingGranted, At
  <2>3. ~CheckNoRequest
    BY <1>1 DEF CheckNoRequest, At, Tuned
  <2> QED BY <1>3, <2>1, <2>2, <2>3
<1>5. Quiet
  <2>1. CASE PollRequest
    <3>1. Instruction[1] = "poll_request" /\ Return
      BY <1>3, <2>1 DEF PollRequest, At
    <3>2. valid_request
      BY <1>1, <3>1 DEF Tuned
    <3>3. ~VerifyRequest({}) \/ Advance
      BY <3>2 DEF VerifyRequest, GetStatus
    <3>4. ~Advance
      BY <1>1, <3>1, LengthType DEF Running, Advance, Return, Stopped, Length
    <3> QED BY <2>1, <3>3, <3>4, Zenon DEF PollRequest
  <2> QED BY <1>4, <2>1 DEF CheckRequest, ValidateRf
<1>6. UNCHANGED <<pc, hold_response, dut>>
  BY <1>4 DEF CheckRequest, PollRequest, ValidateRf, vars, globals
<1> QED BY <1>5, <1>6

\* While no instruction is taken, what a script knows of the settings stays.
LEMMA TunedKept ==
  ASSUME TunedInv, UNCHANGED <<script, step, settings>>, valid_request => valid_request',
         Still => Still'
  PROVE  TunedInv'
<1>1. Running' = Running /\ Instruction' = Instruction
  BY DEF Running, Instruction
<1>2. RandomScript' = RandomScript /\ Mover' = Mover
  BY DEF RandomScript, Mover
<1> QED BY <1>1, <1>2 DEF TunedInv, Tuned, settings

LEMMA ScriptTuned ==
  ASSUME SessionTypeOK, TunedInv, ScriptStep
  PROVE  TunedInv'
<1>1. CASE Teardown
  <2>1. script' = NoScript /\ ~is_random'
    BY <1>1, ResetPosted DEF Teardown
  <2> QED BY <2>1 DEF TunedInv, RandomScript, NoScript, Running
<1>2. CASE ~Teardown
  <2> DEFINE i == Instruction
  <2>1. /\ Running /\ i \in Instructions /\ UNCHANGED script /\ Tuned(i)
        /\ RandomScript' = RandomScript /\ Mover' = Mover
    BY <1>2, AtInstruction DEF TunedInv, RandomScript, Mover
  <2>2. is_random' => RandomScript
    <3>1. CASE PostResponse
      BY <3>1, ResponsePosted
    <3>2. CASE PostReset
      BY <3>2, ResetPosted DEF PostReset
    <3>3. CASE ~PostResponse /\ ~PostReset
      BY <1>2, <3>3, InstructionRest DEF TunedInv
    <3> QED BY <3>1, <3>2, <3>3
  <2>3. RandomScript /\ ~Running' => Still'
    <3>1. SUFFICES ASSUME RandomScript, ~Running' PROVE Still'
      OBVIOUS
    <3>2. Quiet /\ UNCHANGED <<pc, hold_response, dut>>
      BY <1>2, <3>1, ScriptEnds
    <3> QED BY <3>2, QuietIsStill DEF Still, Active
  <2>4. ASSUME NEW j \in Instructions, Running', Instruction' = j PROVE Tuned(j)'
    <3>1. Follow(script, i, j) /\ Advance
      BY <1>2, <2>4, NextInstruction
    <3> USE DEF Tuned, Before, Update, Follow
    <3>2. CASE PostResponse
      <4>1. /\ i[1] = "set_response" /\ valid_request' = valid_request
            /\ (is_random' <=> RandomScript)
            /\ Mover => /\ ~only_random_power'
                        /\ difference_last_picks' <=> i[2] = 2
        BY <3>2, ResponsePosted
      <4>2. Mover => RandomScript
        BY DEF Mover
      <4> HIDE DEF i
      <4> QED BY <2>1, <3>1, <4>1, <4>2
    <3>3. CASE PostReset
      <4>1. i[1] = "reset" /\ ~is_random'
        BY <3>3, ResetPosted DEF PostReset, At
      <4>2. Mover => RandomScript
        BY DEF Mover
      <4> HIDE DEF i
      <4> QED BY <2>1, <3>1, <4>1, <4>2
    <3>4. CASE ~PostResponse /\ ~PostReset
      <4>1. UNCHANGED <<pc, valid_request, is_random, only_random_power,
                        difference_last_picks>>
        BY <1>2, <3>4, InstructionRest
      <4>2. i[1] \notin {"set_response", "reset"}
        BY <1>2, <3>4, Zenon
        DEF ScriptStep, Configure, Reconfigure, PowerCycle, Monitor, PostResponse, PostReset,
            SendRequest, CheckRequest, PollRequest, CheckNoRequest, ReleaseResponse,
            ValidateRf, MonitorNothingGranted, At
      <4>3. i[1] \in {"check_request", "poll_request"} => valid_request
        <5>1. i[1] \in {"check_request", "poll_request"} => CheckRequest \/ PollRequest
          BY <1>2, Zenon
          DEF ScriptStep, Configure, Reconfigure, PowerCycle, Monitor, PostResponse,
              PostReset, SendRequest, CheckNoRequest, ReleaseResponse, ValidateRf,
              MonitorNothingGranted, At
        <5> QED BY <3>1, <5>1, CheckPasses
      <4>4. ASSUME i[1] = "validate_rf" PROVE Still'
        <5>1. ValidateRf
          BY <1>2, <4>4, Zenon
          DEF ScriptStep, Configure, Reconfigure, PowerCycle, Monitor, PostResponse,
              PostReset, SendRequest, CheckRequest, PollRequest, CheckNoRequest,
              ReleaseResponse, MonitorNothingGranted, At
        <5>2. Quiet /\ UNCHANGED <<pc, hold_response, dut>>
          BY <5>1 DEF ValidateRf, vars, globals
        <5> QED BY <5>2, QuietIsStill DEF Still, Active
      <4>5. Mover => RandomScript
        BY DEF Mover
      <4>6. RandomScript => script.family \in {"RSA", "SAU"}
        BY DEF RandomScript
      <4> HIDE DEF i
      <4> QED BY <2>1, <3>1, <4>1, <4>2, <4>3, <4>4, <4>5, <4>6
    <3> QED BY <3>2, <3>3, <3>4
  <2> QED BY <2>1, <2>2, <2>3, <2>4 DEF TunedInv
<1> QED BY <1>1, <1>2

LEMMA NextTuned ==
  ASSUME Triggered, SessionTypeOK, TunedInv, [SessionNext]_allVars
  PROVE  TunedInv'
<1>1. ASSUME NEW s \in Scripts, Setup(s) PROVE TunedInv'
  <2>1. script' = s /\ step' = 1 /\ ~is_random'
    BY <1>1, ResetPosted DEF Setup
  <2>2. Program(s)[1] = <<"configure", 1>> /\ 1 \in DOMAIN Program(s)
    BY SessionAssumption, ProgramSteps
  <2>3. (Instruction' = <<"configure", 1>> /\ Running') \/ s = NoScript
    BY <2>1, <2>2 DEF Instruction, Running
  <2> QED BY <2>1, <2>3 DEF TunedInv, Tuned, Before, Update, RandomScript, NoScript, Running
<1>2. ASSUME NEW t \in Inquiry, Handler(t) PROVE TunedInv'
  <2>1. UNCHANGED <<script, step, settings>>
    BY <1>2, Zenon
    DEF Handler, session, Handle, Parse, Validate, CheckVector, Build, Publish,
        AppendResponse, Accept, Load, Release, Copy, Stamp, Filter, Send, globals
  <2>3. valid_request => valid_request'
    BY <1>2
    DEF Handler, Handle, Parse, Validate, CheckVector, Build, Publish, AppendResponse,
        Accept, Load, Release, Copy, Stamp, Filter, Send, globals
  <2>2. ~Still
    BY <1>2, HandlersRest
  <2> QED BY <2>1, <2>2, <2>3, TunedKept
<1>3. ASSUME NEW t \in Inquiry, NEW b \in Body, DutSends(t, b) PROVE TunedInv'
  <2>1. UNCHANGED <<script, step>> /\ dut.due
    BY <1>3, InquirySent
  <2>2. UNCHANGED <<settings, valid_request>>
    BY <1>3 DEF DutSends, Receive
  <2> QED BY <2>1, <2>2, TunedKept DEF Still
<1>4. CASE DutDoesNotSend \/ \E c \in Cfi \cup {0} : DutStrays(c)
  BY <1>4, DutRests, TunedKept DEF vars, globals, Still, Active
<1>5. ASSUME NEW t \in Inquiry, DutTakesAnswer(t) PROVE TunedInv'
  BY <1>5, AnswerTaken, TunedKept DEF vars, globals, Still, Active
<1>6. CASE UNCHANGED allVars
  BY <1>6, TunedKept DEF allVars, vars, globals, session, Still, Active
<1> QED BY <1>1, <1>2, <1>3, <1>4, <1>5, <1>6, ScriptTuned, Zenon DEF SessionNext

-----------------------------------------------------------------------------
(* What the first phase measured is not offered again. *)
Conform(m, phi) == m.name = "CONFORM" /\ m.value /\ m.phase = phi
Built == "responses" \in vectors.keys \/ \E t \in Inquiry : pc[t] = "publish"

\* An inquiry about fewer than two channels has begun, or is done.
Few(t) == Cardinality(req_cfi_bwX(body[t])) < 2
Narrow == \E t \in Inquiry : pc[t] # "idle" /\ Few(t)
NarrowDone == \E t \in Inquiry : pc[t] = "done" /\ Few(t)

\* Until the second vector is built the channel is one of the first picks, then
\* none of the second.
Offered(c) ==
  IF difference_last_picks /\ Built THEN c \notin random_picks \/ Narrow
  ELSE c \in random_picks

MovesInv == Mover =>
  /\ Running /\ Instruction[2] = 1 =>
       \A m \in measured : m.phase = 1 /\ ~Conform(m, 1)
  /\ Running => \A m \in measured : Conform(m, 1) => Offered(m.channel)
  /\ \A m, n \in measured :
       Conform(m, 1) /\ Conform(n, 2) => m.channel # n.channel \/ NarrowDone

LEMMA NarrowStays ==
  ASSUME \A t \in Inquiry : pc[t] # "idle" => pc'[t] # "idle" /\ body'[t] = body[t],
         \A t \in Inquiry : pc[t] = "done" => pc'[t] = "done"
  PROVE  (Narrow => Narrow') /\ (NarrowDone => NarrowDone')
<1>1. ASSUME NEW t \in Inquiry, body'[t] = body[t] PROVE Few(t)' = Few(t)
  BY <1>1 DEF Few, req_cfi_bwX
<1> QED BY <1>1 DEF Narrow, NarrowDone

\* The handler of an update takes the picks away from what is inquired.
LEMMA BuildOffers ==
  ASSUME TypeInv, SequentialInv, BuildInv, NEW t \in Inquiry, Build(t), ~only_random_power,
         difference_last_picks, NEW c, Offered(c)
  PROVE  Offered(c)'
<1>1. /\ pc[t] = "build" /\ req[t] = t /\ body' = body /\ vectors' = vectors
      /\ random_picks' \in RandomPicks(req_cfi_bwX(body[t]))
      /\ difference_last_picks' = difference_last_picks
      /\ pc' = [pc EXCEPT ![t] = "publish"]
  BY DEF Build, Goto, settings, SequentialInv, HandlerInv, ReadsOwnBody, Checked
<1>2. ~Built
  <2>1. "responses" \notin vectors.keys
    BY <1>1 DEF BuildInv
  <2>2. \A u \in Inquiry : pc[u] # "publish"
    BY <1>1 DEF SequentialInv, OneAtATime, Active
  <2> QED BY <2>1, <2>2 DEF Built
<1>3. c \in random_picks
  BY <1>2 DEF Offered
<1>4. pc'[t] = "publish"
  BY <1>1 DEF TypeInv, TypeOK
<1>5. CASE Few(t)
  <2>1. Few(t)' = Few(t)
    BY <1>1 DEF Few, req_cfi_bwX
  <2>2. Narrow'
    BY <1>4, <1>5, <2>1 DEF Narrow
  <2>3. Built'
    BY <1>4 DEF Built
  <2> QED BY <1>1, <2>2, <2>3 DEF Offered
<1>6. CASE ~Few(t)
  <2>1. random_picks' = req_cfi_bwX(body[t]) \ random_picks
    BY <1>1, <1>6 DEF RandomPicks, Few
  <2>2. Built'
    BY <1>4 DEF Built
  <2> QED BY <1>1, <1>3, <2>1, <2>2 DEF Offered
<1> QED BY <1>5, <1>6

LEMMA HandlerOffers ==
  ASSUME ~Overlap, TypeInv, SequentialInv, BuildInv, NEW t \in Inquiry,
         (\E b \in Body : Receive(t, b)) \/ Handle(t), is_random, ~only_random_power,
         difference_last_picks \/ ~Handle(t),
         Narrow => Narrow', NEW c, Offered(c)
  PROVE  Offered(c)'
<1>1. CASE Build(t)
  BY <1>1, BuildOffers DEF Handle
<1>2. CASE ~Build(t)
  <2>1. UNCHANGED <<random_picks, difference_last_picks>>
    BY <1>2, Zenon
    DEF Receive, Handle, Parse, Validate, CheckVector, Publish, AppendResponse,
        Accept, Load, Release, Copy, Stamp, Filter, Send, globals, settings
  <2>2. Built' = Built
    <3>1. \A u \in Inquiry \ {t} : pc'[u] # "publish" /\ (pc[u] = "publish" => FALSE)
      BY HandlerFrame DEF SequentialInv, OthersRest, Active
    <3>2. CASE Publish(t)
      BY <3>2 DEF Publish, Built, TypeInv, TypeOK
    <3>3. CASE ~Publish(t)
      <4>1. /\ pc[t] # "publish" /\ pc'[t] # "publish"
            /\ "responses" \in vectors'.keys <=> "responses" \in vectors.keys
        BY <1>2, <3>3
        DEF Receive, Handle, Parse, Validate, CheckVector, AppendResponse, Accept, Load,
            Release, Copy, Stamp, Filter, Send, gen_err_resp, Goto, globals, TypeInv, TypeOK
      <4> QED BY <3>1, <4>1 DEF Built
    <3> QED BY <3>2, <3>3
  <2> QED BY <2>1, <2>2 DEF Offered
<1> QED BY <1>1, <1>2

\* A limit is found only in an answer, and that is made of the picks.
LEMMA LimitIsPicked ==
  ASSUME TypeOK, ObjectInv, BuildInv, PickedInv, NEW c, c \in SpLimits(Dumped)
  PROVE  c \in random_picks /\ Built
<1>1. Dumped.response.spectrum # NoSpectrum
  BY DEF SpLimits, NoSpectrum
<1>2. sent_response \in Object
  <2>1. sent_response # Unsent
    BY <1>1 DEF Dumped, EmptyReply, BlankResponse
  <2> QED BY <2>1 DEF TypeOK
<1>3. Dumped.response = heap[sent_response]
  BY <1>2 DEF Dumped, Unsent, Object
<1>4. PICK t \in Inquiry : sent_response \in {<<t, "answer">>, <<t, "error">>}
  BY <1>2 DEF Object
<1>5. sent_response = <<t, "answer">>
  BY <1>1, <1>3, <1>4 DEF ObjectInv
<1> DEFINE sp == heap[<<t, "answer">>].spectrum
<1>6. OfPicks(sp) /\ "responses" \in vectors.keys
  BY <1>5 DEF PickedInv, BuildInv
<1>7. c \in sp.freq \/ c \in sp.chan
  BY <1>3, <1>5 DEF SpLimits
<1> HIDE DEF sp
<1> QED BY <1>6, <1>7 DEF OfPicks, Built

\* What an instruction measures is of its phase.
LEMMA MeasuredInPhase ==
  ASSUME ScriptStep, NEW m \in measured' \ measured
  PROVE  m.phase = Instruction[2]
<1>1. \A name, value : Measure(name, value).phase = Instruction[2]
  BY DEF Measure, ThisPhase
<1>4. ASSUME NEW other, other \subseteq {Measure("SEND_REQUEST", TRUE)}, VerifyRequest(other)
      PROVE  m.phase = Instruction[2]
  <2>1. \/ m \in other
        \/ m = [Measure("REQUEST_VALID", GetStatus.valid_request)
                  EXCEPT !.inquiry = GetStatus.receivedRequest]
    BY <1>4 DEF VerifyRequest, AppendMeasurements
  <2> QED BY <1>4, <2>1 DEF Measure, ThisPhase
<1>5. CASE Monitor
  BY <1>1, <1>5 DEF Monitor, AppendMeasurements
<1>6. CASE CheckRequest
  <2>1. \/ AppendMeasurements({Measure("SEND_REQUEST", FALSE)})
        \/ VerifyRequest({Measure("SEND_REQUEST", TRUE)})
    BY <1>6, Zenon DEF CheckRequest
  <2> QED BY <1>1, <1>4, <2>1 DEF AppendMeasurements
<1>7. CASE PollRequest
  <2>1. \/ AppendMeasurements({Measure("NO_REQUEST", dut.op_channel # 0)})
        \/ VerifyRequest({})
    BY <1>7, Zenon DEF PollRequest
  <2> QED BY <1>1, <1>4, <2>1 DEF AppendMeasurements
<1>8. CASE CheckNoRequest
  <2>1. \/ AppendMeasurements({Measure("SEND_REQUEST", TRUE)})
        \/ AppendMeasurements({Measure("SEND_REQUEST", FALSE)})
        \/ UNCHANGED measured
    BY <1>8, Zenon DEF CheckNoRequest
  <2> QED BY <1>1, <2>1 DEF AppendMeasurements
<1>9. CASE ValidateRf
  <2>1. \/ AppendMeasurements({Measure("CONFORM", FALSE)})
        \/ UNCHANGED measured
        \/ \E value : AppendMeasurements({[Measure("CONFORM", value) EXCEPT
                                             !.channel = dut.op_channel]})
    BY <1>9 DEF ValidateRf
  <2>2. \/ m = Measure("CONFORM", FALSE)
        \/ \E value : m = [Measure("CONFORM", value) EXCEPT !.channel = dut.op_channel]
    BY <2>1 DEF AppendMeasurements
  <2>3. ASSUME NEW value, m = [Measure("CONFORM", value) EXCEPT !.channel = dut.op_channel]
        PROVE  m.phase = Instruction[2]
    BY <2>3 DEF Measure, ThisPhase
  <2> QED BY <1>1, <2>2, <2>3
<1>10. CASE MonitorNothingGranted
  <2>1. m = [Measure("CONFORM", dut.op_channel = 0) EXCEPT !.channel = dut.op_channel]
    BY <1>10 DEF MonitorNothingGranted, AppendMeasurements
  <2> QED BY <2>1 DEF Measure, ThisPhase
<1>11. \/ UNCHANGED measured
       \/ Monitor \/ CheckRequest \/ PollRequest \/ CheckNoRequest \/ ValidateRf
       \/ MonitorNothingGranted
  BY Zenon DEF ScriptStep, Configure, Reconfigure, PowerCycle, PostResponse, PostReset,
               SendRequest, ReleaseResponse, Teardown
<1> QED BY <1>5, <1>6, <1>7, <1>8, <1>9, <1>10, <1>11

LEMMA BegunRemains ==
  ASSUME ~Overlap, TypeInv, SequentialInv, [SimulatorStep]_vars
  PROVE  /\ \A t \in Inquiry : pc[t] # "idle" => pc'[t] # "idle" /\ body'[t] = body[t]
         /\ \A t \in Inquiry : pc[t] = "done" => pc'[t] = "done"
<1>1. ASSUME NEW u \in Inquiry, (\E b \in Body : Receive(u, b)) \/ Handle(u)
      PROVE  /\ \A t \in Inquiry : pc[t] # "idle" => pc'[t] # "idle" /\ body'[t] = body[t]
             /\ \A t \in Inquiry : pc[t] = "done" => pc'[t] = "done"
  <2>1. \A t \in Inquiry \ {u} : pc'[t] = pc[t] /\ body'[t] = body[t]
    BY <1>1, HandlerFrame DEF SequentialInv, OthersRest
  <2>2. CASE \E b \in Body : Receive(u, b)
    BY <2>1, <2>2 DEF Receive
  <2>3. CASE Handle(u)
    <3>1. Active(u) /\ body' = body
      BY <2>3, HandlerKeeps
      DEF Handle, Parse, Validate, CheckVector, Build, Publish, AppendResponse, Accept, Load,
          Release, Copy, Stamp, Filter, Send, threads
    <3>2. pc'[u] # "idle"
      BY <2>3 DEF Handle, Parse, Validate, CheckVector, Build, Publish, AppendResponse,
             Accept, Load, Release, Copy, Stamp, Filter, Send, gen_err_resp, Goto, TypeInv,
             TypeOK
    <3> QED BY <2>1, <3>1, <3>2 DEF Active
  <2> QED BY <1>1, <2>2, <2>3
<1>2. CASE UNCHANGED <<pc, body>>
  BY <1>2
<1>3. ASSUME SimulatorStep, ~\E u \in Inquiry : (\E b \in Body : Receive(u, b)) \/ Handle(u)
      PROVE  UNCHANGED <<pc, body>>
  BY <1>3 DEF SimulatorStep, SetResponse, SetParams, Reset, threads
<1> QED BY <1>1, <1>2, <1>3 DEF vars, threads

LEMMA MovesKept ==
  ASSUME MovesInv, UNCHANGED <<script, step, measured, pc, body, vectors, random_picks,
                               difference_last_picks>>
  PROVE  MovesInv'
<1>1. Running' = Running /\ Instruction' = Instruction /\ Mover' = Mover
  BY DEF Running, Instruction, Mover, RandomScript
<1>2. /\ Narrow' = Narrow /\ NarrowDone' = NarrowDone /\ Built' = Built
  BY DEF Narrow, NarrowDone, Few, req_cfi_bwX, Built
<1>3. \A c : Offered(c)' = Offered(c)
  BY <1>2 DEF Offered
<1> QED BY <1>1, <1>2, <1>3 DEF MovesInv, Conform

LEMMA HandlerMovesOn ==
  ASSUME Triggered, ~Overlap, SessionTypeOK, TypeInv, SequentialInv, PickInv, TunedInv,
         MovesInv, NEW t \in Inquiry,
         Handler(t) \/ \E b \in Body : DutSends(t, b),
         Narrow => Narrow', NarrowDone => NarrowDone'
  PROVE  MovesInv'
<1>1. UNCHANGED <<script, step, measured>>
  BY DEF Handler, session, DutSends
<1>2. (\E b \in Body : Receive(t, b)) \/ Handle(t)
  BY DEF Handler, DutSends
<1>3. Running' = Running /\ Instruction' = Instruction /\ Mover' = Mover
  BY <1>1 DEF Running, Instruction, Mover, RandomScript
<1>4. ASSUME Mover, Running, NEW m \in measured, Conform(m, 1)
      PROVE  Offered(m.channel)'
  <2>1. Instruction \in Instructions
    BY <1>4, LengthType DEF Running, Instruction, Instructions
  <2>2. Tuned(Instruction) /\ Instruction[2] = 2 /\ Offered(m.channel)
    BY <1>4, <2>1 DEF TunedInv, MovesInv, Instructions
  <2>3. is_random /\ ~only_random_power
    BY <1>4, <2>2 DEF Tuned, Before
  <2>4. difference_last_picks \/ ~Handle(t)
    <3>1. CASE Handler(t)
      <4>1. ~Update(Instruction)
        BY <2>2, <3>1, HandlersRest DEF Tuned
      <4> QED BY <1>4, <2>2, <4>1 DEF Tuned, Before
    <3>2. CASE \E b \in Body : DutSends(t, b)
      <4>1. ~Active(t)
        BY <3>2 DEF DutSends, Receive, Active
      <4> QED BY <4>1, HandlerKeeps
    <3> QED BY <3>1, <3>2
  <2> QED BY <1>2, <2>2, <2>3, <2>4, HandlerOffers DEF PickInv
<1> QED BY <1>1, <1>3, <1>4 DEF MovesInv, Conform

\* A verdict of an access point's script on a channel is that it is one of the
\* last picks.
LEMMA VerdictIsPicked ==
  ASSUME SessionTypeOK, TypeInv, GrantInv, PlaceInv, PickInv, TunedInv, Mover,
         ScriptStep, ~Teardown, NEW m \in measured' \ measured, m.name = "CONFORM", m.value
  PROVE  /\ ValidateRf /\ Instruction[1] = "validate_rf" /\ Idle
         /\ m.channel \in random_picks /\ Built
<1>1. Running /\ Instruction \in Instructions /\ Tuned(Instruction) /\ Place(Instruction)
  BY AtInstruction DEF TunedInv, PlaceInv
<1>2. ~MonitorNothingGranted
  BY <1>1 DEF MonitorNothingGranted, At, Tuned, Mover
<1>3. /\ ValidateRf /\ m.channel = dut.op_channel
      /\ dut.op_channel \in SpLimits(
           IF script.family = "SAU" /\ ThisPhase = 2 THEN Dumped
           ELSE afc_resp.sentResponse)
  <2>1. [SessionNext]_allVars
    BY DEF SessionNext
  <2> QED BY <1>2, <2>1, VerdictOnChannel
<1>4. Instruction[1] = "validate_rf" /\ Quiet
  BY <1>3 DEF ValidateRf, At
<1>5. ~hold_response /\ (~Held(Instruction) => afc_resp.sentResponse = Dumped)
  BY <1>1, <1>4 DEF Place
<1>6. Idle
  BY <1>4, <1>5, QuietIsIdle
<1>7. dut.op_channel \in SpLimits(Dumped)
  BY <1>3, <1>5 DEF Held, ThisPhase
<1>8. is_random /\ ~only_random_power
  BY <1>1, <1>4 DEF Tuned, Before
<1> QED BY <1>3, <1>4, <1>6, <1>7, <1>8, LimitIsPicked DEF PickInv, GrantInv, TypeInv

LEMMA ScriptMovesOn ==
  ASSUME SessionTypeOK, TypeInv, GrantInv, PlaceInv, PickInv, TunedInv, MovesInv, ScriptStep,
         NarrowDone => NarrowDone'
  PROVE  MovesInv'
<1>1. CASE Teardown
  BY <1>1 DEF Teardown, MovesInv, Mover, RandomScript, NoScript
<1>2. CASE ~Teardown /\ Mover
  <2> DEFINE i == Instruction
  <2>1. /\ Running /\ i \in Instructions /\ UNCHANGED script /\ Tuned(i)
    BY <1>2, AtInstruction DEF TunedInv
  <2>2. \A m \in measured' : m \in measured \/ m.phase = i[2]
    BY MeasuredInPhase
  <2>3. ~PostReset
    BY <1>2, <2>1 DEF PostReset, At, Tuned, Mover
  <2>4. i[2] \in 1..2
    BY <2>1 DEF Instructions
  <2>5. ASSUME NEW m \in measured', m.name = "CONFORM", m.value, m \notin measured
        PROVE  /\ ValidateRf /\ i[1] = "validate_rf" /\ Idle
               /\ m.channel \in random_picks /\ Built
    BY <1>2, <2>5, VerdictIsPicked
  <2>6. (difference_last_picks <=> i[2] = 2) \/ i[1] # "validate_rf"
    BY <1>2, <2>1 DEF Tuned, Before, Update
  <2>7. /\ i[2] = 1 => \A m \in measured : m.phase = 1 /\ ~Conform(m, 1)
        /\ \A m \in measured : Conform(m, 1) => Offered(m.channel)
        /\ \A m, n \in measured :
             Conform(m, 1) /\ Conform(n, 2) => m.channel # n.channel \/ NarrowDone
    BY <1>2, <2>1 DEF MovesInv
  <2>8. Idle /\ Narrow => NarrowDone
    BY DEF Idle, Active, Narrow, NarrowDone
  \* The phase goes on only after the power was measured.
  <2>9. ASSUME Running', Instruction'[2] = 1, NEW m \in measured'
        PROVE  m.phase = 1 /\ ~Conform(m, 1)
    <3>1. Instruction' \in Instructions
      <4>1. Running' => Instruction' \in Instructions
        BY LengthType DEF Running, Instruction, Instructions
      <4> QED BY <2>9, <4>1
    <3>2. Follow(script, i, Instruction')
      BY <1>2, <2>9, <3>1, NextInstruction
    <3>3. i[2] = 1 /\ i[1] # "validate_rf"
      <4> HIDE DEF i
      <4> QED BY <2>9, <3>2 DEF Follow
    <3> HIDE DEF i
    <3> QED BY <2>2, <2>5, <2>7, <3>3 DEF Conform
  \* What was measured in the first phase is what is offered until the update.
  <2>10. ASSUME Running', NEW m \in measured', Conform(m, 1) PROVE Offered(m.channel)'
    <3>1. CASE PostResponse
      <4>1. /\ i[1] = "set_response" /\ UNCHANGED <<pc, random_picks, measured>>
            /\ vectors' = [keys |-> {"testCaseID"}, responses |-> NoSpectrum]
        BY <3>1, ResponsePosted
      <4>2. i[2] = 2 /\ Offered(m.channel)
        <5> HIDE DEF i
        <5> QED BY <2>4, <2>7, <2>10, <4>1
      <4>3. Update(i) /\ Still /\ ~difference_last_picks
        BY <1>2, <2>1, <4>1, <4>2 DEF Update, Tuned, Before
      <4>4. ~Built'
        BY <4>1, <4>3 DEF Built, Still, Active
      <4> QED BY <4>1, <4>2, <4>3, <4>4 DEF Offered
    <3>2. CASE ~PostResponse
      <4>1. UNCHANGED <<pc, body, random_picks, vectors, difference_last_picks>>
        BY <1>2, <2>3, <3>2, InstructionRest
      <4>2. Narrow' = Narrow /\ Built' = Built
        BY <4>1 DEF Narrow, Few, req_cfi_bwX, Built
      <4>3. Offered(m.channel)' = Offered(m.channel)
        BY <4>1, <4>2 DEF Offered
      <4>4. CASE m \in measured
        BY <2>7, <2>10, <4>3, <4>4
      <4>5. CASE m \notin measured
        <5>1. m.channel \in random_picks /\ i[1] = "validate_rf" /\ i[2] = 1
          <6> HIDE DEF i
          <6> QED BY <2>2, <2>5, <2>10, <4>5 DEF Conform
        <5>2. ~difference_last_picks
          <6> HIDE DEF i
          <6> QED BY <2>6, <5>1
        <5> QED BY <4>3, <5>1, <5>2 DEF Offered
      <4> QED BY <4>4, <4>5
    <3> QED BY <3>1, <3>2
  \* The second measurement is compared with the second picks.
  <2>11. ASSUME NEW m \in measured', NEW n \in measured', Conform(m, 1), Conform(n, 2)
         PROVE  m.channel # n.channel \/ NarrowDone'
    <3>1. CASE m \in measured /\ n \in measured
      BY <2>7, <2>11, <3>1
    <3>2. CASE m \notin measured
      <4> HIDE DEF i
      <4> QED BY <2>2, <2>7, <2>11, <3>2 DEF Conform
    <3>3. CASE m \in measured /\ n \notin measured
      <4>1. i[2] = 2 /\ i[1] = "validate_rf" /\ Idle /\ n.channel \in random_picks /\ Built
        <5> HIDE DEF i
        <5> QED BY <2>2, <2>5, <2>11, <3>3 DEF Conform
      <4>2. difference_last_picks /\ Offered(m.channel)
        <5> HIDE DEF i
        <5> QED BY <2>6, <2>7, <2>11, <3>3, <4>1
      <4>3. m.channel \notin random_picks \/ Narrow
        BY <4>1, <4>2 DEF Offered
      <4> QED BY <2>8, <4>1, <4>3
    <3> QED BY <3>1, <3>2, <3>3
  <2> QED BY <2>9, <2>10, <2>11 DEF MovesInv, Conform
<1>3. CASE ~Teardown /\ ~Mover
  <2>1. ~Mover'
    BY <1>3, AtInstruction DEF Mover, RandomScript
  <2> QED BY <2>1 DEF MovesInv
<1> QED BY <1>1, <1>2, <1>3

LEMMA NextMoves ==
  ASSUME Triggered, ~Overlap, SessionTypeOK, TypeInv, SequentialInv, GrantInv, PlaceInv,
         PickInv, TunedInv, MovesInv, [SessionNext]_allVars
  PROVE  MovesInv'
<1>1. (Narrow => Narrow') /\ (NarrowDone => NarrowDone')
  BY SessionMoves, BegunRemains, NarrowStays
<1>2. ASSUME NEW s \in Scripts, Setup(s) PROVE MovesInv'
  <2>1. measured' = {}
    BY <1>2 DEF Setup
  <2> QED BY <2>1 DEF MovesInv
<1>3. CASE \/ DutDoesNotSend
           \/ \E c \in Cfi \cup {0} : DutStrays(c)
           \/ UNCHANGED allVars
  BY <1>3, DutRests, MovesKept DEF vars, globals, settings, threads, allVars, session
<1>4. ASSUME NEW t \in Inquiry, DutTakesAnswer(t) PROVE MovesInv'
  BY <1>4, AnswerTaken, MovesKept DEF vars, globals, settings, threads
<1> QED BY <1>1, <1>2, <1>3, <1>4, HandlerMovesOn, ScriptMovesOn, Zenon DEF SessionNext

LEMMA NextPicks ==
  ASSUME ~Overlap, SessionTypeOK, TypeInv, SequentialInv, PickInv, TunedInv,
         [SessionNext]_allVars
  PROVE  PickInv'
<1>1. ASSUME UNCHANGED vars PROVE PickInv'
  BY <1>1 DEF vars, globals, settings, threads, PickInv, RandomInv, BuildInv, PickedInv, OfPicks
<1>2. ASSUME NEW t \in Inquiry, DutTakesAnswer(t) PROVE UNCHANGED vars
  BY <1>2, AnswerTaken
<1> QED BY <1>1, <1>2, HandlerPicks, ScriptPicks, DutRests, Zenon
    DEF SessionNext, Handler, DutSends, allVars

\* An access point that inquires about two channels or more and passes both
\* power measurements of a registration or an update has changed its channel.
THEOREM UpdateMoves ==
  ASSUME Triggered, ~Overlap PROVE SessionSpec => []SecondPhaseMoves
<1> DEFINE Inv == /\ SessionTypeOK /\ TypeInv /\ SequentialInv /\ GrantInv /\ AwaitInv
                  /\ PlaceInv /\ DoneIsAnswered /\ PickInv /\ TunedInv /\ MovesInv
<1>1. SessionInit => Inv
  <2>1. SessionInit => MovesInv
    BY DEF SessionInit, MovesInv
  <2> QED BY <2>1, InitSessionType, InitSequential, InitGrant, InitPlace, InitDone, InitPicks,
             InitTuned DEF SessionInit
<1>2. Inv /\ [SessionNext]_allVars => Inv'
  <2> SUFFICES ASSUME Inv, [SessionNext]_allVars PROVE Inv'
    OBVIOUS
  <2>1. [Next]_vars
    BY SessionMoves, SimulatorMoves
  <2>2. SessionTypeOK' /\ TypeInv'
    BY NextSessionType
  <2>3. SequentialInv' /\ GrantInv' /\ DoneIsAnswered'
    BY <2>1, <2>2, NextSequential, NextGrant, NextDone
  <2>4. AwaitInv' /\ PlaceInv'
    BY NextAwait, NextPlace
  <2>5. PickInv' /\ TunedInv' /\ MovesInv'
    BY NextPicks, NextTuned, NextMoves
  <2> QED BY <2>2, <2>3, <2>4, <2>5
<1>3. Inv => SecondPhaseMoves
  <2> SUFFICES ASSUME Inv, script.family \in {"RSA", "SAU"}, script.role = "AP",
                      \A t \in Inquiry : reply[t].status # "none" =>
                        Cardinality(req_cfi_bwX(body[t])) >= 2,
                      NEW m \in measured, NEW n \in measured,
                      m.name = "CONFORM", n.name = "CONFORM", m.value, n.value,
                      m.phase = 1, n.phase = 2
               PROVE  m.channel # n.channel
    BY DEF SecondPhaseMoves
  <2>1. ~NarrowDone
    <3>1. SUFFICES ASSUME NEW t \in Inquiry, pc[t] = "done", Few(t) PROVE FALSE
      BY DEF NarrowDone
    <3>2. reply[t].status # "none"
      BY <3>1 DEF DoneIsAnswered
    <3>3. body[t] \in BodyType /\ IsFiniteSet(Cfi)
      BY ConstantsAssumption DEF TypeInv, TypeOK
    <3>4. Cardinality(req_cfi_bwX(body[t])) \in Nat
      BY <3>3, InquiredType, FS_Subset, FS_CardinalityType
    <3> QED BY <3>1, <3>2, <3>4 DEF Few
  <2> QED BY <2>1 DEF MovesInv, Mover, RandomScript, Conform
<1> QED BY <1>1, <1>2, <1>3, PTL DEF SessionSpec
-----------------------------------------------------------------------------
(* What holds of every session. *)
SessionInv == /\ SessionTypeOK /\ TypeInv /\ SequentialInv /\ GrantInv /\ AwaitInv
              /\ PlaceInv /\ DoneIsAnswered /\ PickInv /\ TunedInv

LEMMA InitSession == SessionInit => SessionInv
BY InitSessionType, InitSequential, InitGrant, InitPlace, InitDone, InitPicks, InitTuned
DEF SessionInit, SessionInv

LEMMA NextSession ==
  ASSUME Triggered, ~Overlap, SessionInv, [SessionNext]_allVars
  PROVE  SessionInv'
<1> USE DEF SessionInv
<1>1. [Next]_vars
  BY SessionMoves, SimulatorMoves
<1>2. SessionTypeOK' /\ TypeInv'
  BY NextSessionType
<1>3. SequentialInv' /\ GrantInv' /\ DoneIsAnswered'
  BY <1>1, <1>2, NextSequential, NextGrant, NextDone
<1>4. AwaitInv' /\ PlaceInv'
  BY NextAwait, NextPlace
<1>5. PickInv' /\ TunedInv'
  BY NextPicks, NextTuned
<1> QED BY <1>2, <1>3, <1>4, <1>5
-----------------------------------------------------------------------------
(* A DUT that does all that the test plan asks for. *)

\* Which scripts have which instructions.
Where(s, i) ==
  /\ i[1] = "check_request" => s.family # "USV" /\ (i[2] = 2 => s.family = "RSA")
  /\ i[1] = "poll_request" => s.family \in {"SAU", "UAU"} /\ i[2] = 2
  /\ i[1] \in {"reset", "check_no_request"} => s.family = "USV"
  /\ i[1] = "validate_rf" => \/ s.family \in {"RSA", "SAU"}
                             \/ s.family = "UAU" /\ i[2] = 1
  /\ i[1] = "monitor" => i[2] = 1 \/ s.family = "SAU"
  /\ i[1] = "monitor_nothing_granted" => \/ s.family = "USA"
                                         \/ s.family = "UAU" /\ i[2] = 2
  /\ i[1] = "set_response" => s.family # "USV"

LEMMA ProgramWhere ==
  ASSUME NEW s \in Script, NEW k \in DOMAIN Program(s)
  PROVE  Where(s, Program(s)[k])
<1>1. s.family \in {"RSA", "USA", "SAU", "UAU", "USV"}
  BY DEF Script
<1>2. CASE k = 1
  <2>1. Program(s)[k] = <<"configure", 1>>
    BY <1>2, ProgramSteps
  <2> QED BY <2>1 DEF Where
<1>3. CASE k # 1
  <2>1. k - 1 \in DOMAIN Program(s) /\ (k - 1) + 1 = k
    BY <1>3, ProgramSteps
  <2>2. Follow(s, Program(s)[k - 1], Program(s)[k])
    BY <2>1, ProgramSteps
  <2> QED BY <1>1, <2>2 DEF Follow, Where
<1> QED BY <1>2, <1>3

LEMMA InstructionWhere ==
  ASSUME SessionTypeOK, Running
  PROVE  Where(script, Instruction) /\ Instruction \in Instructions /\ script \in Script
BY ProgramWhere, LengthType, SessionAssumption
DEF SessionTypeOK, Running, Instruction, Instructions
-----------------------------------------------------------------------------
(* The settings that are in force. *)

\* What set-response is sent for a script.
Members(s, phi, tc) ==
  /\ tc["purpose"] = s.family
  /\ "countryCode" \in DOMAIN tc /\ tc["countryCode"] = CountryCode
  /\ s.family \in {"SAU", "UAU"} => "phase" \in DOMAIN tc /\ tc["phase"] = phi
  /\ s.family = "USA" => "phase" \notin DOMAIN tc
  /\ s.family = "RSA" /\ s.width = 320 =>
       "channelWidth" \in DOMAIN tc /\ tc["channelWidth"] = 320
  /\ s.family \in {"RSA", "SAU"} => ("onlyRandomPower" \in DOMAIN tc <=> s.role = "STA")
  /\ "onlyRandomPower" \in DOMAIN tc => tc["onlyRandomPower"] = TRUE
  /\ s.family = "SAU" /\ phi = 2 =>
       "holdResponse" \in DOMAIN tc /\ tc["holdResponse"] = TRUE

LEMMA PostedMembers ==
  ASSUME NEW s, s.family \in {"RSA", "USA", "SAU", "UAU"}, NEW phi \in 1..2
  PROVE  Members(s, phi, Posted(s, phi))
<1>1. CASE s.family = "RSA"
  BY <1>1 DEF Posted, set_afc_response, Optional, Members
<1>2. CASE s.family = "SAU"
  BY <1>2 DEF Posted, set_afc_response, Optional, Members
<1>3. CASE s.family = "UAU"
  BY <1>3 DEF Posted, set_afc_response, Optional, Members
<1>4. CASE s.family = "USA"
  BY <1>4 DEF Posted, set_afc_response, Optional, Members
<1> QED BY <1>1, <1>2, <1>3, <1>4

\* The settings that the script that runs has posted are in force, unless it
\* has yet to post them.
Posting == script.family # "USV" /\ ~(Running /\ Before(Instruction))
Settled ==
  /\ filename_prefix = script.family /\ script_test_vector = script.vector
  /\ script.family \in {"SAU", "UAU"} => phase \in 1..2
  /\ script.family = "USA" => phase = 0
  /\ country_code = CountryCode
  /\ is_random <=> RandomScript
  /\ script.family = "RSA" /\ script.width = 320 => channel_width = 320
  /\ RandomScript => (only_random_power <=> script.role = "STA")
InPhase(i) == ~Before(i) /\ script.family \in {"SAU", "UAU"} =>
                phase = IF Update(i) THEN 1 ELSE i[2]
SettledInv ==
  /\ Posting => Settled
  /\ recv_request # NoBody => Posting
  /\ \A i \in Instructions : Running /\ Instruction = i => InPhase(i)

LEMMA SettingsPosted ==
  ASSUME SessionTypeOK, PostResponse
  PROVE  /\ script.family # "USV" /\ Settled' /\ recv_request' = NoBody
         /\ script.family \in {"SAU", "UAU"} => phase' = Instruction[2]
         /\ script.family = "SAU" /\ Instruction[2] = 2 => hold_response'
<1>1. /\ Running /\ Instruction[1] = "set_response"
      /\ SetResponse(Posted(script, Instruction[2])) /\ UNCHANGED script
  BY DEF PostResponse, At, Running, ThisPhase
<1>2. /\ script.family \in {"RSA", "USA", "SAU", "UAU"} /\ Instruction[2] \in 1..2
      /\ script \in Script
  BY <1>1, InstructionWhere DEF Where, Script, Instructions
<1> DEFINE tc == Posted(script, Instruction[2])
<1>3. Members(script, Instruction[2], tc) /\ tc.testVector = script.vector
  BY <1>2, PostedMembers, PostedFacts
<1>4. /\ recv_request' = NoBody
      /\ filename_prefix' = tc.purpose /\ script_test_vector' = tc.testVector
      /\ phase' = Given(tc, "phase", 0)
      /\ hold_response' = Given(tc, "holdResponse", hold_response)
      /\ country_code' = Given(tc, "countryCode", country_code)
      /\ channel_width' = Given(tc, "channelWidth", channel_width)
      /\ is_random' = Given(tc, "random", FALSE)
      /\ is_random' => only_random_power' = Given(tc, "onlyRandomPower", FALSE)
  <2> HIDE DEF tc
  <2> QED BY <1>1 DEF SetResponse, NewExchange, tc
<1>5. is_random' <=> RandomScript
  BY ResponsePosted
<1> HIDE DEF tc
<1>6. RandomScript' = RandomScript
  BY <1>1 DEF RandomScript
<1>7. RandomScript => (only_random_power' <=> script.role = "STA")
  BY <1>3, <1>4, <1>5 DEF RandomScript, Members, Given
<1>8. /\ filename_prefix' = script.family /\ script_test_vector' = script.vector
      /\ country_code' = CountryCode
      /\ script.family \in {"SAU", "UAU"} => phase' = Instruction[2]
      /\ script.family = "USA" => phase' = 0
      /\ script.family = "RSA" /\ script.width = 320 => channel_width' = 320
      /\ script.family = "SAU" /\ Instruction[2] = 2 => hold_response'
  BY <1>3, <1>4 DEF Members, Given
<1>9. script' = script /\ script'.family = script.family /\ script'.role = script.role
  BY <1>1
<1>10. /\ is_random' <=> RandomScript'
       /\ RandomScript' => (only_random_power' <=> script'.role = "STA")
  BY <1>5, <1>6, <1>7, <1>9, Zenon
<1>11. Settled'
  <2>1. /\ script'.family \in {"SAU", "UAU"} => phase' \in 1..2
        /\ script'.family = "USA" => phase' = 0
        /\ script'.family = "RSA" /\ script'.width = 320 => channel_width' = 320
        /\ filename_prefix' = script'.family /\ script_test_vector' = script'.vector
    BY <1>2, <1>8, <1>9
  <2> QED BY <1>8, <1>10, <2>1, Zenon DEF Settled
<1> QED BY <1>2, <1>4, <1>8, <1>11

\* Every other instruction leaves the settings and the request alone.
LEMMA SettingsRest ==
  ASSUME ScriptStep, ~PostResponse, ~PostReset, ~Teardown
  PROVE  UNCHANGED <<settings, recv_request>>
BY Zenon DEF ScriptStep, Configure, Reconfigure, PowerCycle, Monitor, SendRequest, CheckRequest,
       PollRequest, CheckNoRequest, ReleaseResponse, SetParams, ValidateRf,
       MonitorNothingGranted, vars, globals

LEMMA SettledKept ==
  ASSUME SettledInv, UNCHANGED <<script, step, settings>>,
         recv_request' # NoBody => recv_request # NoBody \/ Posting
  PROVE  SettledInv'
<1>1. Running' = Running /\ Instruction' = Instruction /\ RandomScript' = RandomScript
  BY DEF Running, Instruction, RandomScript
<1> QED BY <1>1 DEF SettledInv, Posting, Settled, InPhase, settings

\* Nothing is inquired before a script has posted its settings.
LEMMA InquiryPosting ==
  ASSUME Conformant, Triggered, PlaceInv, SessionTypeOK,
         NEW t \in Inquiry, NEW b \in Body, DutSends(t, b)
  PROVE  Posting
<1>1. dut.due /\ script.family # "USV"
  BY DEF DutSends, Refuses
<1>2. ASSUME Running, Before(Instruction) PROVE FALSE
  BY <1>1, <1>2, InstructionWhere DEF PlaceInv, Place, Unasked, Before
<1> QED BY <1>1, <1>2 DEF Posting

\* A script goes on after an instruction that precedes its settings.
LEMMA GoesOn ==
  ASSUME SessionTypeOK, Running, Advance, script' = script,
         Instruction[1] \in {"configure", "monitor", "set_response"}
  PROVE  Running'
<1>1. script \in Script /\ step + 1 \in DOMAIN Program(script)
  <2>1. script \in Script
    BY InstructionWhere
  <2> QED BY <2>1, ProgramSteps DEF Running, Instruction
<1> QED BY <1>1 DEF Running, Advance

LEMMA ScriptSettled ==
  ASSUME SessionTypeOK, SettledInv, ScriptStep
  PROVE  SettledInv'
<1>1. CASE Teardown
  <2>1. script' = NoScript /\ recv_request' = NoBody
    BY <1>1 DEF Teardown, Reset, NewExchange
  <2> QED BY <2>1 DEF SettledInv, Posting, NoScript, Running
<1>2. CASE ~Teardown
  <2> DEFINE i == Instruction
  <2>1. /\ Running /\ i \in Instructions /\ script' = script /\ (Advance \/ Return)
        /\ Where(script, i) /\ InPhase(i)
    BY <1>2, AtInstruction, InstructionWhere DEF SettledInv
  <2>2. ASSUME NEW j \in Instructions, Running', Instruction' = j
        PROVE  Follow(script, i, j)
    BY <1>2, <2>2, NextInstruction
  <2>3. Running' => Instruction' \in Instructions
    <3>1. CASE ~Running'
      BY <3>1
    <3>2. CASE Running'
      <4>1. step' \in DOMAIN Program(script)
        BY <2>1, <3>2 DEF Running
      <4>2. Program(script) \in Seq(Instructions)
        BY ProgramType
      <4> QED BY <2>1, <4>1, <4>2 DEF Instruction
    <3> QED BY <3>1, <3>2
  <2>4. CASE PostReset
    <3>1. i[1] = "reset" /\ recv_request' = NoBody
      BY <2>4 DEF PostReset, At, Reset, NewExchange
    <3> QED BY <2>1, <3>1 DEF SettledInv, Posting, Where, InPhase
  <2>5. CASE PostResponse
    <3>1. /\ i[1] = "set_response" /\ Settled' /\ recv_request' = NoBody
          /\ script.family \in {"SAU", "UAU"} => phase' = i[2]
      BY <2>5, SettingsPosted DEF PostResponse, At
    <3>2. ASSUME NEW j \in Instructions, Running', Instruction' = j PROVE InPhase(j)'
      <4>1. Follow(script, i, j)
        BY <2>2, <3>2
      <4>2. script.family \in {"SAU", "UAU"} => i[2] = j[2] /\ j[1] # "set_response"
        BY <3>1, <4>1 DEF Follow
      <4> QED BY <2>1, <3>1, <4>2 DEF InPhase, Update
    <3> QED BY <3>1, <3>2 DEF SettledInv
  <2>6. CASE ~PostReset /\ ~PostResponse
    <3>1. UNCHANGED <<settings, recv_request>>
      BY <1>2, <2>6, SettingsRest
    <3>2. i[1] # "set_response"
      BY <1>2, <2>6, Zenon
      DEF ScriptStep, Configure, Reconfigure, PowerCycle, Monitor, PostReset,
          SendRequest, CheckRequest, PollRequest, CheckNoRequest, ReleaseResponse,
          ValidateRf, MonitorNothingGranted, At
    <3>3. i[1] \in {"configure", "monitor"} => Running'
      <4>1. i[1] \in {"configure", "monitor"} => Advance
        BY <1>2, <2>6, Zenon
        DEF ScriptStep, Configure, Reconfigure, PowerCycle, Monitor, PostReset,
            SendRequest, CheckRequest, PollRequest, CheckNoRequest, ReleaseResponse,
            ValidateRf, MonitorNothingGranted, At
      <4> QED BY <2>1, <4>1, GoesOn
    <3>4. ASSUME script.family # "USV"
          PROVE  Before(i) <=> Running' /\ Before(Instruction')
      <4>1. CASE Running'
        <5>1. Follow(script, i, Instruction')
          BY <2>2, <2>3, <4>1
        <5>2. i[2] \in 1..2 /\ Instruction'[2] \in 1..2
          BY <2>1, <2>3, <4>1 DEF Instructions
        <5> QED BY <3>2, <3>4, <4>1, <5>1, <5>2 DEF Follow, Before
      <4>2. CASE ~Running'
        BY <3>2, <3>3, <4>2 DEF Before
      <4> QED BY <4>1, <4>2
    <3>5. Posting' = Posting /\ Settled' = Settled
      <4>1. Posting' <=> Posting
        BY <2>1, <3>4 DEF Posting, Before
      <4>2. Settled' <=> Settled
        BY <2>1, <3>1 DEF Settled, RandomScript, settings
      <4> QED BY <4>1, <4>2 DEF Posting, Settled
    <3>6. ASSUME NEW j \in Instructions, Running', Instruction' = j PROVE InPhase(j)'
      <4>1. Follow(script, i, j)
        BY <2>2, <3>6
      <4>2. script.family \in {"SAU", "UAU"} => (~Before(j) => ~Before(i))
        BY <3>4, <3>6
      <4>3. script.family \in {"SAU", "UAU"} /\ ~Before(j) =>
              i[2] = IF Update(j) THEN 1 ELSE j[2]
        BY <3>2, <4>1, <4>2 DEF Follow, Update, Before
      <4> QED BY <2>1, <3>1, <3>2, <4>2, <4>3 DEF InPhase, Update, Before, settings
    <3> QED BY <3>1, <3>5, <3>6 DEF SettledInv
  <2> QED BY <2>4, <2>5, <2>6
<1> QED BY <1>1, <1>2

LEMMA NextSettled ==
  ASSUME Conformant, Triggered, SessionTypeOK, PlaceInv, SettledInv, [SessionNext]_allVars
  PROVE  SettledInv'
<1>1. ASSUME NEW s \in Scripts, Setup(s) PROVE SettledInv'
  <2>1. script' = s /\ step' = 1 /\ recv_request' = NoBody
    BY <1>1 DEF Setup, Reset, NewExchange
  <2>2. Program(s)[1] = <<"configure", 1>> /\ 1 \in DOMAIN Program(s)
    BY SessionAssumption, ProgramSteps
  <2>3. (Instruction' = <<"configure", 1>> /\ Running') \/ s = NoScript
    BY <2>1, <2>2 DEF Instruction, Running
  <2> QED BY <2>1, <2>3 DEF SettledInv, Posting, InPhase, Before, NoScript, Running
<1>2. ASSUME NEW t \in Inquiry, Handler(t) PROVE SettledInv'
  <2>1. UNCHANGED <<script, step, settings, recv_request>>
    BY <1>2, Zenon
    DEF Handler, session, Handle, Parse, Validate, CheckVector, Build, Publish,
        AppendResponse, Accept, Load, Release, Copy, Stamp, Filter, Send, globals
  <2> QED BY <2>1, SettledKept
<1>3. ASSUME NEW t \in Inquiry, NEW b \in Body, DutSends(t, b) PROVE SettledInv'
  <2>1. UNCHANGED <<script, step>> /\ Posting
    BY <1>3, InquirySent, InquiryPosting
  <2>2. UNCHANGED settings
    BY <1>3 DEF DutSends, Receive
  <2> QED BY <2>1, <2>2, SettledKept
<1>4. CASE DutDoesNotSend \/ \E c \in Cfi \cup {0} : DutStrays(c)
  BY <1>4, DutRests, SettledKept DEF vars, globals
<1>5. ASSUME NEW t \in Inquiry, DutTakesAnswer(t) PROVE SettledInv'
  BY <1>5, AnswerTaken, SettledKept DEF vars, globals
<1>6. CASE UNCHANGED allVars
  BY <1>6, SettledKept DEF allVars, vars, globals, session
<1> QED BY <1>1, <1>2, <1>3, <1>4, <1>5, <1>6, ScriptSettled, Zenon DEF SessionNext
-----------------------------------------------------------------------------
(* What the DUT inquires, and what it is answered. *)

\* The CFIs that a conformant DUT inquires about.
Asked == UNION {req_cfi_bwX(b) : b \in Body}

\* Do the settings in force grant spectrum, and what does an answer then hold?
Grants == is_random \/ (filename_prefix = "UAU" /\ phase = 1)
Offers(sp) == \E c \in Asked : /\ NeedsFreqRange => c \in sp.freq
                               /\ NeedsChannel => c \in sp.chan
Answers(sp) == IF Grants THEN Offers(sp) ELSE sp = NoSpectrum

\* The request of a conformant DUT passes the checks, and the file there is for
\* it answers as it should.
Admitted(b) ==
  /\ RequestCode(b) = 0 /\ VectorCode(b) = 0 /\ b.faults = {} /\ b.json
  /\ req_cfi_bwX(b) = Asked /\ TestVector(b) = script_test_vector
  /\ NeedsFreqRange => b.has_freq_range /\ Asked \subseteq b.freq
  /\ NeedsChannel => b.has_channel /\ Asked \subseteq b.chan
Ready ==
  /\ script_test_vector \in 1..3 /\ Asked # {} /\ Asked \subseteq Cfi
  /\ \A b \in Body : Admitted(b)
  /\ ~is_random =>
       LET name == FileName(script_test_vector)
       IN  name \in DOMAIN VectorFile /\ Answers(VectorFile[name])

LEMMA AskedByAll ==
  ASSUME Conformant, NEW b \in Body
  PROVE  req_cfi_bwX(b) = Asked
BY ConformantAssumption DEF Asked

\* What the scripts that post settings rely on.
LEMMA AskedEnough ==
  ASSUME Conformant, SessionTypeOK, script.family # "USV", NEW b \in Body
  PROVE  /\ script \in Scripts /\ script \in Script /\ script.vector \in 1..3
         /\ Fits(script, b) /\ b \in BodyType /\ req_cfi_bwX(b) = Asked
         /\ Asked \subseteq Cfi /\ IsFiniteSet(Asked) /\ Cardinality(Asked) \in Nat
         /\ Cardinality(Asked) >= Fewest(script) /\ Fewest(script) \in 1..2
         /\ Asked # {}
<1>1. script \in Scripts
  BY DEF SessionTypeOK, NoScript
<1>2. script \in Script /\ script.vector \in 0..3
  BY <1>1, SessionAssumption DEF Script
<1>3. script.vector # 0 /\ Fits(script, b)
  BY <1>1, ConformantAssumption
<1>4. b \in BodyType /\ req_cfi_bwX(b) = Asked
  BY AskedByAll, ConstantsAssumption
<1>5. Asked \subseteq Cfi
  BY <1>4, InquiredType
<1>6. IsFiniteSet(Asked) /\ Cardinality(Asked) \in Nat
  BY <1>5, ConstantsAssumption, FS_Subset, FS_CardinalityType
<1>7. Cardinality(Asked) >= Fewest(script) /\ Fewest(script) \in 1..2
  BY <1>3, <1>4 DEF Fits, Fewest
<1>8. Asked # {}
  BY <1>6, <1>7, FS_EmptySet
<1> QED BY <1>1, <1>2, <1>3, <1>4, <1>5, <1>6, <1>7, <1>8

LEMMA BodyAdmitted ==
  ASSUME Conformant, SessionTypeOK, script.family # "USV", Settled, NEW b \in Body
  PROVE  Admitted(b)
<1>1. /\ script \in Script /\ script.vector \in 1..3 /\ Fits(script, b) /\ b \in BodyType
      /\ req_cfi_bwX(b) = Asked /\ IsFiniteSet(Asked) /\ Cardinality(Asked) \in Nat
      /\ Cardinality(Asked) >= Fewest(script) /\ Fewest(script) \in 1..2
  BY AskedEnough
<1>2. /\ NeedsFreqRange => b.has_freq_range /\ Asked \subseteq b.freq
      /\ NeedsChannel => b.has_channel /\ Asked \subseteq b.chan
  BY <1>1 DEF Fits, NeedsFreqRange, NeedsChannel, Settled
<1>3. ASSUME NEW cfis \in SUBSET Cfi, Asked \subseteq cfis PROVE ~TooFew(cfis)
  <2>1. /\ IsFiniteSet(cfis) /\ Cardinality(cfis) \in Nat
    BY ConstantsAssumption, FS_Subset, FS_CardinalityType
  <2>2. Cardinality(Asked) <= Cardinality(cfis)
    BY <1>3, <2>1, FS_Subset
  <2>3. Cardinality(cfis) >= Fewest(script)
    BY <1>1, <2>1, <2>2
  <2>4. is_random => (IF channel_width = 320 THEN 1 ELSE 2) <= Fewest(script)
    BY <1>1 DEF Settled, RandomScript, Fewest
  <2>5. Fewest(script) \in 1..2
    BY <1>1
  <2> QED BY <2>1, <2>3, <2>4, <2>5 DEF TooFew
<1>4. VectorCode(b) = 0
  BY <1>1, <1>2, <1>3 DEF VectorCode, BodyType
<1>5. RequestCode(b) = 0
  <2>1. filename_prefix # NotConfigured
    BY <1>1 DEF Settled, Script, NotConfigured
  <2> QED BY <1>1, <2>1 DEF RequestCode, Fits, Settled
<1>6. TestVector(b) = script_test_vector
  BY <1>1 DEF TestVector, Settled
<1> QED BY <1>1, <1>2, <1>4, <1>5, <1>6 DEF Admitted, Fits

LEMMA SettingsReady ==
  ASSUME Conformant, SessionTypeOK, script.family # "USV", Settled, NEW b \in Body
  PROVE  Ready
<1>1. /\ script \in Script /\ script.vector \in 1..3
      /\ Asked \subseteq Cfi /\ Asked # {}
  BY AskedEnough
<1>2. \A c \in Body : Admitted(c)
  BY BodyAdmitted
<1>3. script_test_vector = script.vector
  BY DEF Settled
<1>4. ASSUME ~is_random
      PROVE  /\ FileName(script_test_vector) \in DOMAIN VectorFile
             /\ Answers(VectorFile[FileName(script_test_vector)])
  <2> DEFINE v == script_test_vector
  <2>1. v \in 1..3
    BY <1>1, <1>3
  <2>2. script.family \in {"USA", "UAU"}
    BY <1>1, <1>4, Zenon DEF Settled, RandomScript, Script
  <2>3. /\ FileName(v) = <<CountryCode, script.family, v, phase>>
        /\ filename_prefix = script.family
        /\ script.family = "USA" => phase = 0
        /\ script.family = "UAU" => phase \in 1..2
    BY <2>2 DEF FileName, Settled
  <2> HIDE DEF v
  <2>4. CASE script.family = "UAU" /\ phase = 1
    <3>1. /\ FileName(v) \in DOMAIN VectorFile
          /\ VectorFile[FileName(v)] =
               [chan |-> IF v \in {2, 3} THEN Cfi ELSE {},
                freq |-> IF v \in {1, 3} THEN Cfi ELSE {}]
      BY <2>1, <2>3, <2>4, GrantsAssumption
    <3>2. Offers(VectorFile[FileName(v)])
      BY <1>1, <3>1 DEF Offers, NeedsFreqRange, NeedsChannel, v
    <3> QED BY <2>3, <2>4, <3>1, <3>2 DEF Answers, Grants, v
  <2>5. CASE ~(script.family = "UAU" /\ phase = 1)
    <3>1. FileName(v) \in DOMAIN VectorFile /\ VectorFile[FileName(v)] = NoSpectrum
      BY <2>1, <2>2, <2>3, <2>5, GrantsAssumption
    <3>2. ~Grants
      BY <1>4, <2>3, <2>5 DEF Grants
    <3> QED BY <3>1, <3>2 DEF Answers, v
  <2> QED BY <2>4, <2>5
<1> QED BY <1>1, <1>2, <1>3, <1>4 DEF Ready

BodyInv == \A t \in Inquiry : pc[t] # "idle" => body[t] \in Body

\* The picks of an access point's script are neither none nor all of what the
\* DUT inquires, once they matter for its update.
Split == Cardinality(Asked) >= 2 => /\ random_picks \cap Asked # {}
                                    /\ Asked \ random_picks # {}
Published(t) == IF picks[t] = {} THEN random_picks ELSE picks[t]
OfferInv ==
  /\ is_random /\ "listed" \in vectors.keys => Offers(vectors.responses)
  /\ "responses" \in vectors.keys =>
       "listed" \in vectors.keys \/ \E t \in Inquiry : pc[t] = "append"
  /\ \A t \in Inquiry : /\ pc[t] = "publish" => Published(t) \cap Asked # {}
                        /\ pc[t] = "append" => picks[t] \cap Asked # {}
  /\ Mover /\ is_random /\ (difference_last_picks \/ Built
                              \/ (Running /\ Update(Instruction))) => Split

\* The inquiry that get-status shows is on its way to the answer that the
\* settings ask for.
Early == {"parse", "validate", "check", "build", "publish", "append", "accept", "load", "hold"}
Served(t) ==
  /\ pc[t] \notin {"idle", "sendError"}
  /\ pc[t] \in {"accept", "load"} /\ is_random => {"responses", "listed"} \subseteq vectors.keys
  /\ pc[t] \in {"hold", "copy"} => /\ {"responses", "listed"} \subseteq vectors.keys
                                   /\ Answers(vectors.responses)
  /\ pc[t] \in {"stamp", "filter", "send", "done"} =>
       /\ sent_response = <<t, "answer">>
       /\ Answers(heap[<<t, "answer">>].spectrum)
  /\ pc[t] = "done" => reply[t] = Dumped
  /\ pc[t] \in {"load", "hold", "copy", "stamp", "filter", "send", "done"} => valid_request
ServedInv ==
  recv_request # NoBody => /\ Served(recv_request)
                           /\ \A t \in Inquiry : Active(t) => t = recv_request

\* The DUT operates on what its last answer permits, and awaits the answer to
\* no other inquiry than the one that get-status shows.
DutTuned == IF Usable(dut.permitted) = {} THEN dut.op_channel = 0
            ELSE dut.op_channel \in Usable(dut.permitted)
DutInv == /\ DutTuned
          /\ Running => \A t \in dut.awaiting : recv_request = t

\* What a script relies on when it reaches an instruction.
Handshake == IF script.run \in {2, 8} THEN "unknown_ca" ELSE "refused"
Expects(i) ==
  /\ Before(i) => dut.op_channel = 0
  /\ i[1] \in {"check_request", "poll_request"} => dut.due \/ recv_request # NoBody
  /\ i[1] = "check_no_request" =>
       recv_request = NoBody /\ (dut.due \/ dut.handshake = Handshake)
  /\ script.family = "USA" => dut.permitted = NoSpectrum
  /\ script.family = "UAU" /\ i[2] = 2 /\ i[1] \notin {"set_response", "power_cycle"} =>
       dut.permitted = NoSpectrum
  /\ script.family = "SAU" /\ i[2] = 2 /\ i[1] \notin {"set_response", "validate_rf"} =>
       /\ hold_response
       /\ i[1] # "power_cycle" => dut.op_channel = 0
       /\ recv_request # NoBody => pc[recv_request] \in Early
ExpectsInv == \A i \in Instructions : Running /\ Instruction = i => Expects(i)

PassInv == script # NoScript => /\ step # Stopped
                                /\ \A m \in measured : m.value = Wanted(m)
-----------------------------------------------------------------------------
(* The simulator. *)

\* What a script and the rest of a DUT do to the bodies.
LEMMA BodyKept ==
  ASSUME BodyInv, UNCHANGED <<pc, body>>
  PROVE  BodyInv'
BY DEF BodyInv

LEMMA HandlerBody ==
  ASSUME TypeInv, BodyInv, NEW t \in Inquiry, Handle(t) \/ \E b \in Body : Receive(t, b)
  PROVE  BodyInv'
<1>1. CASE Handle(t)
  <2>1. body' = body /\ pc[t] # "idle"
    BY <1>1 DEF Handle, Parse, Validate, CheckVector, Build, Publish, AppendResponse, Accept,
                Load, Release, Copy, Stamp, Filter, Send, globals, threads
  <2>2. \A u \in Inquiry \ {t} : pc'[u] = pc[u]
    BY <1>1 DEF Handle, Parse, Validate, CheckVector, Build, Publish, AppendResponse,
                Accept, Load, Release, Copy, Stamp, Filter, Send, gen_err_resp, Goto, TypeInv,
                TypeOK
  <2> QED BY <2>1, <2>2 DEF BodyInv
<1>2. ASSUME NEW b \in Body, Receive(t, b) PROVE BodyInv'
  <2>1. body' = [body EXCEPT ![t] = b]
    BY <1>2 DEF Receive
  <2>2. \A u \in Inquiry \ {t} : pc'[u] = pc[u]
    BY <1>2 DEF Receive, gen_err_resp, Goto, TypeInv, TypeOK
  <2> QED BY <2>1, <2>2 DEF BodyInv, TypeInv, TypeOK
<1> QED BY <1>1, <1>2

\* The picks of a set of which something is inquired again and again.
LEMMA HalfIsProper ==
  ASSUME NEW S, IsFiniteSet(S), Cardinality(S) >= 2,
         NEW T \in SUBSET S, Cardinality(T) = Cardinality(S) \div 2
  PROVE  T # {} /\ S \ T # {}
<1>1. Cardinality(S) \in Nat
  BY FS_CardinalityType
<1>2. Cardinality(T) # 0 /\ Cardinality(T) # Cardinality(S)
  BY <1>1
<1>3. T # {} /\ T # S
  BY <1>2, FS_EmptySet
<1> QED BY <1>3

LEMMA RandomPicksOffer ==
  ASSUME IsFiniteSet(Asked), Asked # {}, difference_last_picks => Split,
         NEW S \in RandomPicks(Asked)
  PROVE  /\ S \cap Asked # {}
         /\ Cardinality(Asked) >= 2 => Asked \ S # {}
<1>1. Cardinality(Asked) \in Nat
  BY FS_CardinalityType
<1>2. CASE Cardinality(Asked) < 2
  BY <1>1, <1>2 DEF RandomPicks
<1>3. CASE Cardinality(Asked) >= 2 /\ difference_last_picks
  <2>1. S = Asked \ random_picks
    BY <1>1, <1>3 DEF RandomPicks
  <2> QED BY <1>3, <2>1 DEF Split
<1>4. CASE Cardinality(Asked) >= 2 /\ ~difference_last_picks
  <2>1. S \in SUBSET Asked /\ Cardinality(S) = Cardinality(Asked) \div 2
    BY <1>1, <1>4 DEF RandomPicks
  <2> QED BY <1>4, <2>1, HalfIsProper
<1> QED BY <1>1, <1>2, <1>3, <1>4

\* Random answers are in force only when a script has posted that they be.
LEMMA RandomIsPosted ==
  ASSUME SessionTypeOK, TunedInv, SettledInv, is_random
  PROVE  /\ Posting /\ Settled /\ RandomScript /\ script.family # "USV"
         /\ ~only_random_power => Mover
<1>1. RandomScript
  BY DEF TunedInv
<1>2. script.family \in {"RSA", "SAU"}
  BY <1>1 DEF RandomScript
<1>3. Posting
  BY <1>2, InstructionWhere DEF TunedInv, Tuned, Posting
<1>4. Settled
  BY <1>3 DEF SettledInv
<1>5. script.role \in {"AP", "STA"}
  BY SessionAssumption DEF SessionTypeOK, Script, NoScript
<1>6. ~only_random_power => script.role = "AP"
  BY <1>1, <1>4, <1>5, Zenon DEF Settled
<1> QED BY <1>1, <1>2, <1>3, <1>4, <1>6 DEF Mover

LEMMA BuildOffersSome ==
  ASSUME Conformant, SessionTypeOK, TypeInv, SequentialInv, PickInv, TunedInv, SettledInv,
         BodyInv, OfferInv, NEW t \in Inquiry, Build(t)
  PROVE  Published(t)' \cap Asked # {} /\ (Mover => Split')
<1>1. pc[t] = "build" /\ req[t] = t /\ body[t] \in Body /\ picks[t] = {} /\ is_random
  BY DEF Build, SequentialInv, HandlerInv, ReadsOwnBody, Checked, BodyInv, PickInv, BuildInv,
         RandomInv, Building
<1>2. /\ Settled /\ RandomScript /\ script.family # "USV"
      /\ ~only_random_power => Mover
  BY <1>1, RandomIsPosted
<1>3. /\ Asked \subseteq Cfi /\ Asked # {} /\ IsFiniteSet(Asked)
      /\ req_cfi_bwX(body[t]) = Asked
  BY <1>1, <1>2, AskedEnough
<1>4. CASE only_random_power
  <2>1. picks' = [picks EXCEPT ![t] = Cfi] /\ ~Mover
    <3>1. ~Mover
      BY <1>2, <1>4, Zenon DEF Settled, Mover
    <3> QED BY <1>4, <3>1 DEF Build
  <2>2. picks'[t] = Cfi
    BY <2>1 DEF TypeInv, TypeOK
  <2> QED BY <1>3, <2>1, <2>2 DEF Published
<1>5. CASE ~only_random_power
  <2>1. random_picks' \in RandomPicks(Asked) /\ picks' = picks
    BY <1>1, <1>3, <1>5 DEF Build
  <2>2. difference_last_picks => Split
    BY <1>1, <1>2, <1>5 DEF OfferInv
  <2>3. /\ random_picks' \cap Asked # {}
        /\ Cardinality(Asked) >= 2 => Asked \ random_picks' # {}
    BY <1>3, <2>1, <2>2, RandomPicksOffer
  <2> QED BY <1>1, <2>1, <2>3 DEF Published, Split
<1> QED BY <1>4, <1>5

\* A step of a handler.
LEMMA HandlerOfferInv ==
  ASSUME ~Overlap, Conformant, SessionTypeOK, TypeInv, SequentialInv, PickInv, TunedInv,
         SettledInv, BodyInv, OfferInv, NEW t \in Inquiry,
         Handle(t) \/ \E b \in Body : Receive(t, b), UNCHANGED <<script, step>>
  PROVE  OfferInv'
<1>1. OthersRest(t)
  BY HandlerFrame DEF SequentialInv
<1>2. UNCHANGED settings
  BY Zenon DEF Receive, Handle, Parse, Validate, CheckVector, Build, Publish, AppendResponse,
               Accept, Load, Release, Copy, Stamp, Filter, Send, globals
<1>3. /\ UNCHANGED <<is_random, difference_last_picks>>
      /\ Mover' = Mover /\ Running' = Running /\ Instruction' = Instruction
      /\ \A sp : Offers(sp)' = Offers(sp)
  BY <1>2 DEF settings, Mover, RandomScript, Running, Instruction, Offers, NeedsFreqRange,
              NeedsChannel
<1>4. \A u \in Inquiry \ {t} : pc'[u] \notin {"publish", "append"}
  BY <1>1 DEF OthersRest, Active
<1>5. ASSUME ~Build(t), ~Publish(t), ~AppendResponse(t)
      PROVE  OfferInv'
  <2>1. random_picks' = random_picks /\ pc[t] # "append"
    BY <1>5 DEF Receive, Handle, Parse, Validate, CheckVector, Accept, Load, Release, Copy,
                Stamp, Filter, Send, globals
  <2>2. pc'[t] \notin {"publish", "append"}
    BY <1>5 DEF Receive, Handle, Parse, Validate, CheckVector, Accept, Load, Release, Copy,
                Stamp, Filter, Send, gen_err_resp, Goto, TypeInv, TypeOK
  <2>3. vectors' = vectors \/ (~is_random /\ {"responses", "listed"} \subseteq vectors'.keys)
    BY <1>5 DEF Receive, Handle, Parse, Validate, CheckVector, Accept, Load, Release, Copy,
                Stamp, Filter, Send, globals
  <2>4. is_random /\ Built' => Built
    BY <1>4, <2>2, <2>3 DEF Built
  <2>5. \A u \in Inquiry : pc[u] = "append" => pc'[u] = "append"
    BY <1>1, <2>1 DEF OthersRest
  <2> QED BY <1>3, <1>4, <2>1, <2>2, <2>3, <2>4, <2>5 DEF OfferInv, Split
<1>6. CASE Build(t)
  <2>1. Published(t)' \cap Asked # {} /\ (Mover => Split')
    BY <1>6, BuildOffersSome
  <2>2. vectors' = vectors /\ pc[t] = "build" /\ pc'[t] = "publish"
    BY <1>6 DEF Build, Goto, TypeInv, TypeOK
  <2>3. \A u \in Inquiry : pc[u] = "append" => pc'[u] = "append"
    BY <1>1, <2>2 DEF OthersRest
  <2> QED BY <1>3, <1>4, <2>1, <2>2, <2>3 DEF OfferInv
<1>7. CASE Publish(t)
  <2>1. /\ pc[t] = "publish" /\ pc'[t] = "append" /\ random_picks' = random_picks
        /\ "listed" \notin vectors'.keys /\ picks'[t] = Published(t)
    BY <1>7 DEF Publish, Goto, Published, TypeInv, TypeOK
  <2>2. Built
    BY <2>1 DEF Built
  <2> QED BY <1>3, <1>4, <2>1, <2>2 DEF OfferInv, Split
<1>8. CASE AppendResponse(t)
  <2>1. /\ pc[t] = "append" /\ pc'[t] \notin {"publish", "append"}
        /\ random_picks' = random_picks
    BY <1>8 DEF AppendResponse, Goto, TypeInv, TypeOK
  <2>2. CASE "responses" \notin vectors.keys
    <3>1. vectors' = vectors
      BY <1>8, <2>2 DEF AppendResponse
    <3>2. Built' => Built
      BY <1>4, <2>1, <3>1 DEF Built
    <3> QED BY <1>3, <1>4, <2>1, <2>2, <3>1, <3>2 DEF OfferInv, Split
  <2>3. CASE "responses" \in vectors.keys
    <3>1. vectors' = IF "listed" \in vectors.keys THEN vectors
             ELSE [keys |-> vectors.keys \cup {"listed"},
                   responses |-> [chan |-> IF NeedsChannel THEN picks[t] ELSE {},
                                  freq |-> IF NeedsFreqRange THEN picks[t] ELSE {}]]
      BY <1>8, <2>3 DEF AppendResponse
    <3>2. "listed" \in vectors'.keys /\ Built
      BY <2>3, <3>1 DEF Built
    <3>3. is_random => Offers(vectors'.responses)
      <4>1. CASE "listed" \in vectors.keys
        BY <3>1, <4>1 DEF OfferInv
      <4>2. CASE "listed" \notin vectors.keys
        BY <2>1, <3>1, <4>2 DEF OfferInv, Offers
      <4> QED BY <4>1, <4>2
    <3> QED BY <1>3, <1>4, <2>1, <3>2, <3>3 DEF OfferInv, Split
  <2> QED BY <2>2, <2>3
<1> QED BY <1>5, <1>6, <1>7, <1>8
\* The request of a quiet exchange has been answered with what was prepared.
LEMMA IdleIsAnswered ==
  ASSUME SessionTypeOK, ServedInv, Idle, recv_request # NoBody
  PROVE  /\ recv_request \in Inquiry /\ pc[recv_request] = "done" /\ valid_request
         /\ sent_response = <<recv_request, "answer">>
         /\ Answers(heap[<<recv_request, "answer">>].spectrum)
BY DEF SessionTypeOK, TypeOK, ServedInv, Served, Idle, Active

LEMMA ScriptOfferInv ==
  ASSUME Conformant, SessionTypeOK, PickInv, TunedInv, PlaceInv, ServedInv, OfferInv, ScriptStep
  PROVE  OfferInv'
<1>1. CASE Teardown
  <2>1. /\ UNCHANGED <<pc, picks, random_picks>> /\ ~is_random' /\ "responses" \notin vectors'.keys
    BY <1>1, ResetPosted DEF Teardown
  <2> QED BY <2>1 DEF OfferInv, Published
<1>2. CASE ~Teardown
  <2> DEFINE i == Instruction
  <2>1. /\ Running /\ i \in Instructions /\ UNCHANGED script /\ Tuned(i) /\ Place(i)
        /\ Mover' = Mover
    BY <1>2, AtInstruction DEF TunedInv, PlaceInv, RandomScript, Mover
  <2>2. ASSUME Running', Update(Instruction') PROVE i = <<"validate_rf", 1>> /\ Advance
    <3>1. Instruction' \in Instructions
      <4>1. step' \in DOMAIN Program(script) /\ Program(script) \in Seq(Instructions)
        BY <2>1, <2>2, ProgramType DEF Running
      <4> QED BY <2>1, <4>1 DEF Instruction
    <3>2. Follow(script, i, Instruction') /\ Advance
      BY <1>2, <2>2, <3>1, NextInstruction
    <3>3. i[1] = "validate_rf" /\ i[2] = 1
      BY <2>2, <3>2 DEF Follow, Update
    <3> QED BY <2>1, <3>2, <3>3 DEF Instructions
  <2>3. CASE PostReset
    <3>1. /\ UNCHANGED <<pc, picks, random_picks>> /\ ~is_random'
          /\ "responses" \notin vectors'.keys
      BY <2>3, ResetPosted DEF PostReset
    <3> QED BY <3>1 DEF OfferInv, Published
  <2>4. CASE PostResponse
    <3>1. /\ i[1] = "set_response" /\ UNCHANGED <<pc, picks, random_picks>>
          /\ vectors'.keys = {"testCaseID"} /\ (is_random' <=> RandomScript)
          /\ Mover => (difference_last_picks' <=> i[2] = 2)
      BY <2>4, ResponsePosted
    <3>2. ~(Running' /\ Update(Instruction'))
      BY <2>2, <3>1
    <3>3. ASSUME Mover, i[2] = 2 PROVE Split
      <4>1. Update(i) /\ ~Before(i)
        BY <3>1, <3>3 DEF Update, Before
      <4>2. is_random
        BY <2>1, <3>3, <4>1 DEF Tuned
      <4> QED BY <2>1, <3>3, <4>1, <4>2 DEF OfferInv
    <3>4. ASSUME Mover, Built' PROVE Split
      <4>1. PICK t \in Inquiry : pc[t] = "publish"
        BY <3>1, <3>4 DEF Built
      <4>2. is_random /\ Built
        BY <4>1 DEF PickInv, RandomInv, Building, Built
      <4> QED BY <3>4, <4>2 DEF OfferInv
    <3>5. Split' = Split
      BY <3>1 DEF Split
    <3> QED BY <2>1, <3>1, <3>2, <3>3, <3>4, <3>5 DEF OfferInv, Published
  <2>5. CASE ~PostReset /\ ~PostResponse
    <3>1. UNCHANGED <<pc, picks, random_picks, vectors, is_random, difference_last_picks>>
      BY <1>2, <2>5, InstructionRest
    <3>2. script_test_vector' = script_test_vector
      BY <1>2, <2>5, SettingsRest DEF settings
    <3>3. ASSUME Running', Update(Instruction'), Mover PROVE is_random /\ Built
      <4>1. i = <<"validate_rf", 1>>
        BY <2>2, <3>3
      <4>2. is_random
        BY <2>1, <3>3, <4>1 DEF Tuned, Before
      <4>3. recv_request # NoBody /\ Idle
        BY <2>1, <4>1 DEF Place, Held
      <4>4. recv_request \in Inquiry /\ sent_response = <<recv_request, "answer">>
        BY <4>3, IdleIsAnswered
      <4>5. "responses" \in vectors.keys
        BY <4>4 DEF PickInv, BuildInv
      <4> QED BY <4>2, <4>5 DEF Built
    <3>4. \A sp : Offers(sp)' = Offers(sp)
      BY <3>2 DEF Offers, NeedsFreqRange, NeedsChannel
    <3>5. Split' = Split /\ Built' = Built
      BY <3>1 DEF Split, Built
    <3> QED BY <2>1, <3>1, <3>3, <3>4, <3>5 DEF OfferInv, Published
  <2> QED BY <2>3, <2>4, <2>5
<1> QED BY <1>1, <1>2

LEMMA OfferKept ==
  ASSUME OfferInv, UNCHANGED <<vars, script, step>>
  PROVE  OfferInv'
<1>1. Mover' = Mover /\ Running' = Running /\ Instruction' = Instruction
  BY DEF Mover, RandomScript, Running, Instruction
<1>2. UNCHANGED <<pc, picks, random_picks, vectors, is_random, difference_last_picks,
                  script_test_vector>>
  BY DEF vars, globals, settings, threads
<1> QED BY <1>1, <1>2 DEF OfferInv, Offers, NeedsFreqRange, NeedsChannel, Split, Built, Published

\* What each step of a conformant session does, its DUT's to begin with.
LEMMA SessionCases ==
  ASSUME [SessionNext]_allVars, Conformant
  PROVE  \/ \E s \in Scripts : Setup(s)
         \/ ScriptStep
         \/ \E t \in Inquiry : Handler(t) \/ \E b \in Body : DutSends(t, b)
         \/ DutDoesNotSend
         \/ \E t \in Inquiry : DutTakesAnswer(t)
         \/ UNCHANGED allVars
<1>1. ASSUME NEW c \in Cfi \cup {0}, DutStrays(c) PROVE FALSE
  BY <1>1 DEF DutStrays
<1> QED BY <1>1, Zenon DEF SessionNext

LEMMA NextOffer ==
  ASSUME ~Overlap, Conformant, SessionTypeOK, TypeInv, SequentialInv, PickInv, TunedInv,
         PlaceInv, SettledInv, BodyInv, ServedInv, OfferInv, [SessionNext]_allVars
  PROVE  OfferInv' /\ BodyInv'
<1>1. ASSUME NEW s \in Scripts, Setup(s) PROVE OfferInv' /\ BodyInv'
  <2>1. /\ UNCHANGED <<pc, body, picks, random_picks>> /\ ~is_random'
        /\ "responses" \notin vectors'.keys
    BY <1>1, ResetPosted DEF Setup
  <2> QED BY <2>1, BodyKept DEF OfferInv, Published
<1>2. CASE ScriptStep
  <2>1. UNCHANGED <<pc, body>>
    BY <1>2, InstructionExchange
  <2> QED BY <1>2, <2>1, ScriptOfferInv, BodyKept
<1>3. ASSUME NEW t \in Inquiry, Handler(t) \/ \E b \in Body : DutSends(t, b)
      PROVE  OfferInv' /\ BodyInv'
  <2>1. /\ Handle(t) \/ \E b \in Body : Receive(t, b)
        /\ UNCHANGED <<script, step>>
    BY <1>3 DEF Handler, session, DutSends
  <2> QED BY <2>1, HandlerOfferInv, HandlerBody
<1>4. CASE DutDoesNotSend
  BY <1>4, DutRests, OfferKept, BodyKept DEF vars, threads
<1>5. ASSUME NEW t \in Inquiry, DutTakesAnswer(t) PROVE OfferInv' /\ BodyInv'
  BY <1>5, AnswerTaken, OfferKept, BodyKept DEF vars, threads
<1>6. CASE UNCHANGED allVars
  BY <1>6, OfferKept, BodyKept DEF allVars, vars, threads, session
<1> QED BY <1>1, <1>2, <1>3, <1>4, <1>5, <1>6, SessionCases
\* The handler of the request that get-status shows prepares what the settings
\* ask for.
LEMMA AnswersKept ==
  ASSUME UNCHANGED settings
  PROVE  /\ \A sp : Answers(sp)' = Answers(sp)
         /\ UNCHANGED <<is_random, script_test_vector>>
BY DEF Answers, Grants, Offers, NeedsFreqRange, NeedsChannel, settings

LEMMA FilterAnswers ==
  ASSUME NEW b \in Body, Admitted(b), NEW sp \in Spectrum, Answers(sp), Asked \subseteq Cfi
  PROVE  Answers([chan |-> IF b.has_channel THEN sp.chan \cap FilterCfi(b) ELSE {},
                  freq |-> IF b.has_freq_range THEN sp.freq \cap b.freq ELSE {}])
<1> DEFINE kept == [chan |-> IF b.has_channel THEN sp.chan \cap FilterCfi(b) ELSE {},
                    freq |-> IF b.has_freq_range THEN sp.freq \cap b.freq ELSE {}]
<1>1. CASE Grants
  <2>1. PICK c \in Asked : /\ NeedsFreqRange => c \in sp.freq
                           /\ NeedsChannel => c \in sp.chan
    BY <1>1 DEF Answers, Offers
  <2>2. /\ NeedsFreqRange => c \in kept.freq
        /\ NeedsChannel => c \in kept.chan
    BY <2>1 DEF Admitted, FilterCfi
  <2> QED BY <1>1, <2>1, <2>2 DEF Answers, Offers
<1>2. CASE ~Grants
  BY <1>2 DEF Answers, NoSpectrum
<1> QED BY <1>1, <1>2

LEMMA HandlerServed ==
  ASSUME SessionTypeOK, TypeInv, SequentialInv, GrantInv, Ready, BodyInv, OfferInv,
         recv_request # NoBody, Served(recv_request), NEW t \in Inquiry, t = recv_request,
         \A u \in Inquiry : Active(u) => u = t, Handle(t)
  PROVE  /\ Served(t)'
         /\ hold_response /\ pc[t] \in Early => pc'[t] \in Early
<1> DEFINE b == body[t]
<1>1. /\ b \in Body /\ Admitted(b) /\ b \in BodyType
      /\ pc[t] \in Checked \cup {"validate"} => req[t] = t
  <2>1. pc[t] # "idle" /\ (pc[t] \in Checked \cup {"validate"} => req[t] = t)
    BY DEF Served, SequentialInv, HandlerInv, ReadsOwnBody
  <2> QED BY <2>1, ConstantsAssumption DEF BodyInv, Ready
<1>2. UNCHANGED <<settings, recv_request, hold_response>>
  BY Zenon DEF Handle, Parse, Validate, CheckVector, Build, Publish, AppendResponse,
               Accept, Load, Release, Copy, Stamp, Filter, Send, globals
<1>3. /\ \A sp : Answers(sp)' = Answers(sp)
      /\ UNCHANGED <<is_random, script_test_vector>>
  BY <1>2, AnswersKept
<1> HIDE DEF b
<1> USE DEF Early
<1>4. CASE Parse(t)
  <2>1. pc[t] = "parse" /\ pc'[t] = "validate"
    BY <1>1, <1>4 DEF Parse, Goto, TypeInv, TypeOK, Admitted, b
  <2> QED BY <2>1 DEF Served
<1>5. CASE Validate(t)
  <2>1. pc[t] = "validate" /\ req[t] = t
    BY <1>1, <1>5 DEF Validate
  <2>2. pc'[t] = "check"
    BY <1>1, <1>5, <2>1 DEF Validate, Goto, TypeInv, TypeOK, Admitted, b
  <2> QED BY <2>1, <2>2 DEF Served
<1>6. CASE CheckVector(t)
  <2>1. pc[t] = "check" /\ req[t] = t
    BY <1>1, <1>6 DEF CheckVector, Checked
  <2>2. /\ pc'[t] = IF is_random /\ "responses" \notin vectors.keys THEN "build" ELSE "accept"
        /\ vectors' = vectors
    BY <1>1, <1>6, <2>1 DEF CheckVector, Goto, TypeInv, TypeOK, Admitted, b
  <2>3. "responses" \in vectors.keys => "listed" \in vectors.keys
    <3>1. ASSUME NEW u \in Inquiry, pc[u] = "append" PROVE FALSE
      BY <2>1, <3>1 DEF Active
    <3> QED BY <3>1 DEF OfferInv
  <2> QED BY <1>3, <2>1, <2>2, <2>3 DEF Served
<1>7. CASE Build(t)
  <2>1. pc[t] = "build" /\ pc'[t] = "publish"
    BY <1>7 DEF Build, Goto, TypeInv, TypeOK
  <2> QED BY <2>1 DEF Served
<1>8. CASE Publish(t)
  <2>1. pc[t] = "publish" /\ pc'[t] = "append"
    BY <1>8 DEF Publish, Goto, TypeInv, TypeOK
  <2> QED BY <2>1 DEF Served
<1>9. CASE AppendResponse(t)
  <2>1. pc[t] = "append" /\ "responses" \in vectors.keys
    BY <1>9 DEF AppendResponse, GrantInv, BuildsInv
  <2>2. pc'[t] = "accept" /\ {"responses", "listed"} \subseteq vectors'.keys
    BY <1>9, <2>1 DEF AppendResponse, Goto, TypeInv, TypeOK
  <2> QED BY <2>1, <2>2 DEF Served
<1>10. CASE Accept(t)
  <2>1. /\ pc[t] = "accept" /\ pc'[t] = "load" /\ vectors' = vectors /\ valid_request'
    BY <1>10 DEF Accept, Goto, TypeInv, TypeOK
  <2> QED BY <1>3, <2>1 DEF Served
<1>11. CASE Load(t)
  <2>1. pc[t] = "load" /\ req[t] = t /\ valid_request' = valid_request
    BY <1>1, <1>11 DEF Load, Checked
  <2>2. TestVector(b) = script_test_vector /\ script_test_vector # 0
    BY <1>1 DEF Admitted, Ready
  <2>3. /\ pc'[t] = "hold" /\ {"responses", "listed"} \subseteq vectors'.keys
        /\ Answers(vectors'.responses)
    <3>1. CASE is_random
      <4>1. pc'[t] = "hold" /\ vectors' = vectors
        BY <1>11, <3>1 DEF Load, Goto, TypeInv, TypeOK
      <4> QED BY <2>1, <3>1, <4>1 DEF Served, OfferInv, Answers, Grants
    <3>2. CASE ~is_random
      <4>1. /\ FileName(script_test_vector) \in DOMAIN VectorFile
            /\ Answers(VectorFile[FileName(script_test_vector)])
        BY <3>2 DEF Ready
      <4>2. /\ pc'[t] = "hold"
            /\ vectors' = [keys |-> {"testCaseID", "responses", "listed"},
                           responses |-> VectorFile[FileName(script_test_vector)]]
        BY <1>11, <2>1, <2>2, <3>2, <4>1 DEF Load, Goto, TypeInv, TypeOK, b
      <4> QED BY <4>1, <4>2
    <3> QED BY <3>1, <3>2
  <2> QED BY <1>3, <2>1, <2>3 DEF Served
<1>12. CASE Release(t)
  <2>1. /\ pc[t] = "hold" /\ pc'[t] = "copy" /\ ~hold_response
        /\ UNCHANGED <<vectors, valid_request>>
    BY <1>12 DEF Release, Goto, globals, TypeInv, TypeOK
  <2> QED BY <1>3, <2>1 DEF Served
<1>13. CASE Copy(t)
  <2>1. pc[t] = "copy" /\ {"responses", "listed"} \subseteq vectors.keys
        /\ Answers(vectors.responses)
    BY <1>13 DEF Copy, Served
  <2>2. /\ pc'[t] = "stamp" /\ sent_response' = <<t, "answer">>
        /\ heap'[<<t, "answer">>].spectrum = vectors.responses
        /\ valid_request' = valid_request
    <3>1. <<t, "answer">> \in Object
      BY DEF Object
    <3> QED BY <1>13, <2>1, <3>1 DEF Copy, Goto, TypeInv, TypeOK
  <2> QED BY <1>3, <2>1, <2>2 DEF Served
<1>14. CASE Stamp(t)
  <2>1. /\ pc[t] = "stamp" /\ sent_response = <<t, "answer">> /\ req[t] = t
        /\ Answers(heap[<<t, "answer">>].spectrum)
    BY <1>1, <1>14 DEF Stamp, Served, Checked
  <2>2. sent_response # Unsent /\ "noCert" \notin body[req[t]].faults
    BY <1>1, <2>1, ConstantsAssumption DEF Unsent, Admitted, b
  <2>3. /\ pc'[t] = "filter" /\ sent_response' = sent_response
        /\ heap' = [heap EXCEPT ![<<t, "answer">>].requestId = t]
        /\ valid_request' = valid_request
    BY <1>14, <2>1, <2>2 DEF Stamp, Goto, TypeInv, TypeOK
  <2>4. heap'[<<t, "answer">>].spectrum = heap[<<t, "answer">>].spectrum
    <3>1. <<t, "answer">> \in Object
      BY DEF Object
    <3> QED BY <2>3, <3>1 DEF TypeInv, TypeOK, Response
  <2> QED BY <1>3, <2>1, <2>3, <2>4 DEF Served
<1>15. CASE Filter(t)
  <2> DEFINE o == <<t, "answer">>
  <2>1. /\ pc[t] = "filter" /\ sent_response = o /\ req[t] = t /\ resp[t] = o
        /\ Answers(heap[o].spectrum) /\ pc'[t] = "send"
        /\ UNCHANGED <<sent_response, valid_request>>
    <3>1. pc[t] = "filter" /\ pc'[t] = "send" /\ UNCHANGED <<sent_response, valid_request>>
      BY <1>15 DEF Filter, Goto, globals, TypeInv, TypeOK
    <3>2. req[t] = t
      BY <1>1, <3>1 DEF Checked
    <3>3. sent_response = o /\ Answers(heap[o].spectrum)
      BY <3>1 DEF Served
    <3>4. resp[t] = o
      BY <3>1 DEF SequentialInv, HandlerInv, FillsOwnObject
    <3> QED BY <3>1, <3>2, <3>3, <3>4
  <2>2. o \in Object /\ heap[o] \in Response /\ heap[o].spectrum \in Spectrum
    BY DEF Object, TypeInv, TypeOK, Response
  <2> HIDE DEF o
  <2>3. heap'[o].spectrum =
          [chan |-> IF b.has_channel THEN heap[o].spectrum.chan \cap FilterCfi(b) ELSE {},
           freq |-> IF b.has_freq_range THEN heap[o].spectrum.freq \cap b.freq ELSE {}]
    BY <1>15, <2>1, <2>2 DEF Filter, b, TypeInv, TypeOK, Response
  <2>4. Answers(heap'[o].spectrum)
    BY <1>1, <2>1, <2>2, <2>3, FilterAnswers DEF Ready
  <2> QED BY <1>3, <2>1, <2>4 DEF Served, o
<1>16. CASE Send(t)
  <2>1. /\ pc[t] = "send" /\ pc'[t] = "done" /\ reply'[t] = Dumped
        /\ UNCHANGED <<heap, sent_response, valid_request>>
    BY <1>16 DEF Send, Served, Goto, globals, TypeInv, TypeOK
  <2>2. Dumped' = Dumped
    BY <2>1 DEF Dumped
  <2> QED BY <1>3, <2>1, <2>2 DEF Served
<1> QED BY <1>4, <1>5, <1>6, <1>7, <1>8, <1>9, <1>10, <1>11, <1>12, <1>13, <1>14, <1>15,
           <1>16 DEF Handle

LEMMA InquiryServed ==
  ASSUME ~Overlap, Triggered, Conformant, SessionTypeOK, PlaceInv,
         NEW t \in Inquiry, NEW b \in Body, DutSends(t, b)
  PROVE  /\ recv_request' = t /\ pc'[t] = "parse" /\ ServedInv'
         /\ UNCHANGED hold_response
<1>1. script.family # "USV"
  BY InquiryPosting DEF Posting
<1>2. b.json /\ "unparsable" \notin b.faults
  BY <1>1, AskedEnough DEF Fits
<1>3. /\ recv_request' = t /\ pc' = [pc EXCEPT ![t] = "parse"]
      /\ \A u \in Inquiry : ~Active(u)
      /\ UNCHANGED hold_response
  BY <1>2 DEF DutSends, Receive, Goto
<1>4. pc'[t] = "parse" /\ \A u \in Inquiry : Active(u)' => u = t
  BY <1>3 DEF SessionTypeOK, TypeOK, Active
<1> QED BY <1>3, <1>4 DEF ServedInv, Served

LEMMA ServedKept ==
  ASSUME ServedInv, recv_request' = recv_request, UNCHANGED settings,
         UNCHANGED <<vectors, sent_response, valid_request, heap, pc, reply>>
  PROVE  ServedInv'
<1>1. /\ \A sp : Answers(sp)' = Answers(sp)
      /\ UNCHANGED <<is_random, script_test_vector>>
  BY AnswersKept
<1>2. Dumped' = Dumped
  BY DEF Dumped
<1> QED BY <1>1, <1>2 DEF ServedInv, Served, Active

LEMMA RequestAtWork ==
  ASSUME Conformant, SessionTypeOK, TypeInv, SequentialInv, GrantInv, SettledInv, BodyInv,
         OfferInv, ServedInv, NEW t \in Inquiry, Handle(t), recv_request # NoBody
  PROVE  /\ t = recv_request /\ Served(t)' /\ recv_request' = recv_request
         /\ hold_response /\ pc[t] \in Early => pc'[t] \in Early
         /\ \A u \in Inquiry : Active(u)' => u = t
<1>1. Active(t) /\ recv_request' = recv_request
  BY HandlerKeeps
<1>2. t = recv_request /\ \A u \in Inquiry : Active(u) => u = t
  BY <1>1 DEF ServedInv
<1>3. body[t] \in Body
  BY <1>1 DEF Active, BodyInv
<1>4. Ready
  BY <1>3, SettingsReady DEF SettledInv, Posting
<1>5. Served(t)' /\ (hold_response /\ pc[t] \in Early => pc'[t] \in Early)
  BY <1>2, <1>4, HandlerServed DEF ServedInv
<1>6. \A u \in Inquiry \ {t} : pc'[u] = pc[u]
  BY DEF Handle, Parse, Validate, CheckVector, Build, Publish, AppendResponse,
         Accept, Load, Release, Copy, Stamp, Filter, Send, gen_err_resp, Goto, TypeInv, TypeOK
<1> QED BY <1>1, <1>2, <1>5, <1>6 DEF Active

LEMMA NextServed ==
  ASSUME ~Overlap, Triggered, Conformant, SessionTypeOK, TypeInv, SequentialInv, GrantInv,
         PlaceInv, SettledInv, BodyInv, OfferInv, ServedInv, [SessionNext]_allVars
  PROVE  ServedInv'
<1>1. ASSUME recv_request' = NoBody PROVE ServedInv'
  BY <1>1 DEF ServedInv
<1>2. ASSUME UNCHANGED vars PROVE ServedInv'
  BY <1>2, ServedKept DEF vars, globals, threads
<1>3. ASSUME NEW s \in Scripts, Setup(s) PROVE ServedInv'
  BY <1>1, <1>3 DEF Setup, Reset, NewExchange
<1>4. CASE ScriptStep
  <2>1. CASE PostResponse \/ PostReset \/ Teardown
    BY <1>1, <2>1 DEF PostResponse, SetResponse, PostReset, Teardown, Reset, NewExchange
  <2>2. CASE ~(PostResponse \/ PostReset \/ Teardown)
    BY <1>4, <2>2, InstructionRest, InstructionExchange, SettingsRest, ServedKept
  <2> QED BY <2>1, <2>2
<1>5. ASSUME NEW t \in Inquiry, Handler(t) PROVE ServedInv'
  <2>1. Handle(t)
    BY <1>5 DEF Handler
  <2>2. CASE recv_request = NoBody
    BY <1>1, <2>1, <2>2, HandlerKeeps
  <2>3. CASE recv_request # NoBody
    BY <2>1, <2>3, RequestAtWork DEF ServedInv
  <2> QED BY <2>2, <2>3
<1>6. ASSUME NEW t \in Inquiry, NEW b \in Body, DutSends(t, b) PROVE ServedInv'
  BY <1>6, InquiryServed
<1>7. CASE DutDoesNotSend
  BY <1>2, <1>7, DutRests
<1>8. ASSUME NEW t \in Inquiry, DutTakesAnswer(t) PROVE ServedInv'
  BY <1>2, <1>8, AnswerTaken
<1>9. CASE UNCHANGED allVars
  BY <1>2, <1>9 DEF allVars
<1> QED BY <1>3, <1>4, <1>5, <1>6, <1>7, <1>8, <1>9, SessionCases
-----------------------------------------------------------------------------
(* The DUT. *)

\* What a DUT makes of an answer.
LEMMA TakesAnswer ==
  ASSUME SessionTypeOK, DutTuned, NEW t \in Inquiry, DutTakesAnswer(t)
  PROVE  /\ DutTuned' /\ dut'.handshake = dut.handshake
         /\ dut'.permitted = IF Granted(t) THEN reply[t].response.spectrum ELSE dut.permitted
         /\ ~Granted(t) => dut'.op_channel = dut.op_channel
<1> DEFINE heard == [dut EXCEPT !.awaiting = @ \ {t}]
           granted == reply[t].response.spectrum
<1>1. /\ heard.permitted = dut.permitted /\ heard.op_channel = dut.op_channel
      /\ heard.handshake = dut.handshake
      /\ {"permitted", "op_channel", "handshake"} \subseteq DOMAIN heard
  BY DEF SessionTypeOK
<1>2. \/ ~Granted(t) /\ dut' = heard
      \/ /\ Granted(t) /\ Usable(granted) = {}
         /\ dut' = [heard EXCEPT !.permitted = granted, !.op_channel = 0]
      \/ /\ Granted(t)
         /\ \E c \in Usable(granted) :
              dut' = [heard EXCEPT !.permitted = granted, !.op_channel = c]
  BY DEF DutTakesAnswer
<1> HIDE DEF heard, granted
<1>3. CASE ~Granted(t) /\ dut' = heard
  BY <1>1, <1>3 DEF DutTuned
<1>4. CASE Granted(t) /\ Usable(granted) = {}
           /\ dut' = [heard EXCEPT !.permitted = granted, !.op_channel = 0]
  <2>1. dut'.permitted = granted /\ dut'.op_channel = 0 /\ dut'.handshake = dut.handshake
    BY <1>1, <1>4
  <2> QED BY <1>4, <2>1 DEF DutTuned, granted
<1>5. ASSUME Granted(t), NEW c \in Usable(granted),
             dut' = [heard EXCEPT !.permitted = granted, !.op_channel = c]
      PROVE  DutTuned' /\ dut'.handshake = dut.handshake /\ dut'.permitted = granted
  <2>1. dut'.permitted = granted /\ dut'.op_channel = c /\ dut'.handshake = dut.handshake
    BY <1>1, <1>5
  <2>2. Usable(granted) # {}
    OBVIOUS
  <2> QED BY <2>1, <2>2 DEF DutTuned
<1> QED BY <1>2, <1>3, <1>4, <1>5 DEF granted

\* The answer that it takes while a script runs is the one that was prepared.
LEMMA AnswerFacts ==
  ASSUME SessionTypeOK, SequentialInv, GrantInv, SettledInv, ServedInv, DutInv, Running,
         NEW t \in Inquiry, DutTakesAnswer(t)
  PROVE  /\ Granted(t) /\ Answers(reply[t].response.spectrum) /\ pc[t] = "done"
         /\ recv_request = t /\ Posting /\ Settled
<1>1. t \in dut.awaiting /\ reply[t].status # "none"
  BY DEF DutTakesAnswer
<1>2. recv_request = t /\ recv_request # NoBody
  BY <1>1, ConstantsAssumption DEF DutInv
<1>3. pc[t] = "done"
  BY <1>1 DEF SequentialInv, HandlerInv, AnsweredWhenDone
<1>4. /\ reply[t] = Dumped /\ sent_response = <<t, "answer">>
      /\ Answers(heap[<<t, "answer">>].spectrum)
  BY <1>2, <1>3 DEF ServedInv, Served
<1>5. reply[t] = [status |-> "200", response |-> heap[<<t, "answer">>]]
  <2>1. sent_response # Unsent
    BY <1>4, ConstantsAssumption DEF Unsent
  <2> QED BY <1>4, <2>1 DEF Dumped
<1>6. heap[<<t, "answer">>].code = 0
  BY DEF GrantInv, ObjectInv
<1>7. Granted(t) /\ Answers(reply[t].response.spectrum)
  BY <1>4, <1>5, <1>6 DEF Granted
<1> QED BY <1>2, <1>3, <1>7 DEF SettledInv

LEMMA NextDutInv ==
  ASSUME ~Overlap, Triggered, Conformant, SessionTypeOK, AwaitInv, PlaceInv, DutInv,
         [SessionNext]_allVars
  PROVE  DutInv'
<1>1. Usable(NoSpectrum) = {} /\ Usable(ResetDut.permitted) = {} /\ ResetDut.op_channel = 0
      /\ ResetDut.awaiting = {}
  BY DEF Usable, NoSpectrum, ResetDut
<1>2. ASSUME NEW s \in Scripts, Setup(s) PROVE DutInv'
  BY <1>1, <1>2 DEF Setup, DutInv, DutTuned
<1>3. CASE ScriptStep
  <2>1. CASE Teardown
    BY <2>1 DEF Teardown, DutInv, DutTuned, Running
  <2>2. CASE PowerCycle
    BY <1>1, <2>2 DEF PowerCycle, DutInv, DutTuned
  <2>3. CASE ~Teardown /\ ~PowerCycle
    <3>1. /\ dut'.awaiting = dut.awaiting /\ dut'.permitted = dut.permitted
          /\ dut'.op_channel = dut.op_channel
      BY <1>3, <2>3
      DEF ScriptStep, Configure, Reconfigure, Monitor, PostResponse, PostReset,
          SendRequest, CheckRequest, PollRequest, CheckNoRequest, ReleaseResponse,
          ValidateRf, MonitorNothingGranted, SessionTypeOK
    <3>2. Running /\ Instruction \in Instructions
      BY <1>3, <2>3, AtInstruction
    <3>3. CASE PostResponse \/ PostReset
      <4>1. Instruction[1] \in {"set_response", "reset"}
        BY <3>3 DEF PostResponse, PostReset, At
      <4>2. dut.awaiting = {}
        BY <3>2, <4>1 DEF PlaceInv, Place, Unasked
      <4> QED BY <3>1, <4>2 DEF DutInv, DutTuned
    <3>4. CASE ~PostResponse /\ ~PostReset
      <4>1. recv_request' = recv_request
        BY <1>3, <2>3, <3>4, SettingsRest
      <4> QED BY <3>1, <3>2, <4>1 DEF DutInv, DutTuned
    <3> QED BY <3>3, <3>4
  <2> QED BY <2>1, <2>2, <2>3
<1>4. ASSUME NEW t \in Inquiry, Handler(t) PROVE DutInv'
  <2>1. UNCHANGED <<script, step, dut, recv_request>>
    BY <1>4, HandlerKeeps DEF Handler, session
  <2> QED BY <2>1 DEF DutInv, DutTuned, Running
<1>5. ASSUME NEW t \in Inquiry, NEW b \in Body, DutSends(t, b) PROVE DutInv'
  <2>1. recv_request' = t
    BY <1>5, InquiryServed
  <2>2. dut'.awaiting = {t}
    BY <1>5, InquirySent DEF AwaitInv
  <2>3. dut'.permitted = dut.permitted /\ dut'.op_channel = dut.op_channel
    BY <1>5 DEF DutSends, SessionTypeOK
  <2> QED BY <2>1, <2>2, <2>3 DEF DutInv, DutTuned
<1>6. CASE DutDoesNotSend
  <2>1. /\ dut'.awaiting = dut.awaiting /\ dut'.permitted = dut.permitted
        /\ dut'.op_channel = dut.op_channel /\ UNCHANGED <<script, step>>
    BY <1>6 DEF DutDoesNotSend, SessionTypeOK
  <2>2. recv_request' = recv_request
    BY <1>6, DutRests DEF vars, globals
  <2> QED BY <2>1, <2>2 DEF DutInv, DutTuned, Running
<1>7. ASSUME NEW t \in Inquiry, DutTakesAnswer(t) PROVE DutInv'
  <2>1. UNCHANGED <<script, step>> /\ dut'.awaiting = dut.awaiting \ {t}
    BY <1>7, AnswerTaken
  <2>2. recv_request' = recv_request
    BY <1>7, AnswerTaken DEF vars, globals
  <2> QED BY <1>7, <2>1, <2>2, TakesAnswer DEF DutInv, Running
<1>8. CASE UNCHANGED allVars
  BY <1>8 DEF allVars, session, vars, globals, DutInv, DutTuned, Running
<1> QED BY <1>2, <1>3, <1>4, <1>5, <1>6, <1>7, <1>8, SessionCases
-----------------------------------------------------------------------------
(* The script. *)
LEMMA ScriptExpects ==
  ASSUME SessionTypeOK, PlaceInv, ExpectsInv, ScriptStep
  PROVE  ExpectsInv'
<1>1. CASE Teardown
  BY <1>1 DEF Teardown, ExpectsInv, Running
<1>2. CASE ~Teardown
  <2>1. SUFFICES ASSUME NEW j \in Instructions, Running', Instruction' = j
                 PROVE  Expects(j)'
    BY DEF ExpectsInv
  <2> DEFINE i == Instruction
  <2>2. /\ Follow(script, i, j) /\ script' = script /\ i \in Instructions
        /\ Place(i) /\ Expects(i)
    BY <1>2, <2>1, AtInstruction, NextInstruction DEF PlaceInv, ExpectsInv
  <2>3. CASE Configure \/ Monitor \/ CheckRequest \/ PollRequest \/ CheckNoRequest
             \/ ValidateRf \/ MonitorNothingGranted
    <3>1. /\ i[1] \in {"configure", "monitor", "check_request", "poll_request",
                       "check_no_request", "validate_rf", "monitor_nothing_granted"}
          /\ dut' = dut
      BY <2>3, Zenon DEF Configure, Monitor, CheckRequest, PollRequest, CheckNoRequest, ValidateRf,
                  MonitorNothingGranted, At
    <3>2. UNCHANGED <<recv_request, hold_response, pc>>
      BY <2>3 DEF Configure, Monitor, CheckRequest, PollRequest, CheckNoRequest, ValidateRf,
                  MonitorNothingGranted, vars, globals
    <3> HIDE DEF i
    <3>3. /\ Before(j) => Before(i)
          /\ j[1] \notin {"check_request", "poll_request", "check_no_request"}
          /\ script.family \in {"SAU", "UAU"} /\ j[2] = 2 /\ j[1] # "set_response" =>
               i[2] = 2 /\ i[1] \notin {"set_response", "power_cycle", "validate_rf"}
      BY <2>2, <3>1 DEF Follow, Before
    <3> QED BY <2>2, <3>1, <3>2, <3>3 DEF Expects, Before
  <2>4. CASE PostResponse
    <3>1. /\ i[1] = "set_response" /\ dut' = dut /\ recv_request' = NoBody
          /\ script.family = "SAU" /\ i[2] = 2 => hold_response'
      BY <2>4, SettingsPosted DEF PostResponse, At
    <3>2. \/ j[1] = "send_request" /\ ((i[2] = 1 /\ j[2] = 1) \/ script.family = "RSA")
          \/ j[1] = "power_cycle" /\ i[2] = 2
      BY <2>2, <3>1 DEF Follow
    <3> QED BY <2>2, <3>1, <3>2 DEF Expects, Before
  <2>5. CASE PostReset
    <3>1. i[1] = "reset" /\ dut' = dut
      BY <2>5 DEF PostReset, At
    <3>2. script.family = "USV" /\ j[1] = "send_request"
      BY <2>2, <3>1 DEF Follow
    <3> QED BY <2>2, <3>1, <3>2 DEF Expects, Before
  <2>6. CASE PowerCycle
    <3>1. /\ i[1] = "power_cycle" /\ UNCHANGED <<recv_request, hold_response, pc>>
          /\ dut'.permitted = NoSpectrum /\ dut'.op_channel = 0
      BY <2>6 DEF PowerCycle, At, ResetDut, vars, globals
    <3>2. j[1] = "reconfigure" /\ i[2] = 2
      BY <2>2, <3>1 DEF Follow
    <3> QED BY <2>2, <3>1, <3>2 DEF Expects, Before
  <2>7. CASE Reconfigure
    <3>1. /\ i[1] = "reconfigure" /\ UNCHANGED <<recv_request, hold_response, pc>>
          /\ dut'.due /\ dut'.permitted = dut.permitted /\ dut'.op_channel = dut.op_channel
      BY <2>7 DEF Reconfigure, At, vars, globals, SessionTypeOK
    <3>2. j[1] = "poll_request" /\ i[2] = 2
      BY <2>2, <3>1 DEF Follow
    <3> QED BY <2>2, <3>1, <3>2 DEF Expects, Before
  <2>8. CASE SendRequest
    <3>1. /\ i[1] = "send_request" /\ UNCHANGED recv_request
          /\ dut'.due /\ dut'.permitted = dut.permitted
      BY <2>8 DEF SendRequest, At, vars, globals, SessionTypeOK
    <3>2. recv_request = NoBody
      BY <2>2, <3>1 DEF Place
    <3>3. /\ j[1] \in {"check_request", "check_no_request"}
          /\ (i[2] = 1 /\ j[2] = 1) \/ script.family = "RSA"
      BY <2>2, <3>1 DEF Follow
    <3> QED BY <2>2, <3>1, <3>2, <3>3 DEF Expects, Before
  <2>9. CASE ReleaseResponse
    <3>1. i[1] = "release_response"
      BY <2>9 DEF ReleaseResponse, At
    <3>2. j[1] = "validate_rf" /\ script.family = "SAU"
      BY <2>2, <3>1 DEF Follow
    <3> QED BY <2>2, <3>1, <3>2 DEF Expects, Before
  <2> QED BY <1>2, <2>3, <2>4, <2>5, <2>6, <2>7, <2>8, <2>9 DEF ScriptStep
<1> QED BY <1>1, <1>2

LEMMA NextExpects ==
  ASSUME ~Overlap, Triggered, Conformant, SessionTypeOK, TypeInv, SequentialInv, GrantInv,
         AwaitInv, PlaceInv, TunedInv, SettledInv, BodyInv, OfferInv, ServedInv, DutInv,
         ExpectsInv, [SessionNext]_allVars
  PROVE  ExpectsInv'
<1>1. ASSUME NEW s \in Scripts, Setup(s) PROVE ExpectsInv'
  <2>1. script' = s /\ step' = 1 /\ dut' = ResetDut
    BY <1>1 DEF Setup
  <2>2. Program(s)[1] = <<"configure", 1>>
    BY SessionAssumption, ProgramSteps
  <2>3. Instruction' = <<"configure", 1>>
    BY <2>1, <2>2 DEF Instruction
  <2> QED BY <2>1, <2>3 DEF ExpectsInv, Expects, ResetDut
<1> DEFINE Stays == UNCHANGED <<script, step>>
<1>2. ASSUME Stays, ASSUME NEW i \in Instructions, Running, Instruction = i,
                           Where(script, i), Place(i), Expects(i)
                    PROVE  Expects(i)'
      PROVE  ExpectsInv'
  <2>1. Running' = Running /\ Instruction' = Instruction
    BY <1>2 DEF Running, Instruction
  <2>2. ASSUME NEW i \in Instructions, Running, Instruction = i
        PROVE  Where(script, i) /\ Place(i) /\ Expects(i)
    BY <2>2, InstructionWhere DEF PlaceInv, ExpectsInv
  <2> QED BY <1>2, <2>1, <2>2 DEF ExpectsInv
<1>3. ASSUME NEW t \in Inquiry, Handler(t) PROVE ExpectsInv'
  <2>1. Handle(t) /\ Stays /\ dut' = dut /\ UNCHANGED <<recv_request, hold_response>>
    BY <1>3, HandlerKeeps DEF Handler, session
  <2>2. recv_request # NoBody /\ hold_response /\ pc[recv_request] \in Early =>
          pc'[recv_request] \in Early
    BY <2>1, RequestAtWork
  <2>3. ASSUME NEW i \in Instructions, Expects(i) PROVE Expects(i)'
    BY <2>1, <2>2, <2>3 DEF Expects, Before, Handshake
  <2> QED BY <1>2, <2>1, <2>3
<1>4. ASSUME NEW t \in Inquiry, NEW b \in Body, DutSends(t, b) PROVE ExpectsInv'
  <2>1. /\ recv_request' = t /\ pc'[t] = "parse" /\ UNCHANGED hold_response
        /\ recv_request' # NoBody
    BY <1>4, InquiryServed, ConstantsAssumption
  <2>2. /\ Stays /\ script.family # "USV"
        /\ dut'.permitted = dut.permitted /\ dut'.op_channel = dut.op_channel
    BY <1>4, InquirySent, InquiryPosting DEF DutSends, SessionTypeOK, Posting
  <2>3. ASSUME NEW i \in Instructions, Where(script, i), Expects(i) PROVE Expects(i)'
    BY <2>1, <2>2, <2>3 DEF Expects, Before, Where, Early
  <2> QED BY <1>2, <2>2, <2>3
<1>5. CASE DutDoesNotSend
  <2>1. /\ Stays /\ script.family = "USV" /\ UNCHANGED <<recv_request, hold_response, pc>>
        /\ dut'.handshake = Handshake /\ dut'.op_channel = dut.op_channel
    BY <1>5 DEF DutDoesNotSend, Refuses, Handshake, SessionTypeOK, vars, globals
  <2>2. ASSUME NEW i \in Instructions, Where(script, i), Expects(i) PROVE Expects(i)'
    BY <2>1, <2>2 DEF Expects, Before, Where, Handshake
  <2> QED BY <1>2, <2>1, <2>2
<1>6. ASSUME NEW t \in Inquiry, DutTakesAnswer(t) PROVE ExpectsInv'
  <2>1. /\ Stays /\ UNCHANGED <<recv_request, hold_response, pc>>
        /\ t \in dut.awaiting /\ dut'.due = dut.due
    BY <1>6, AnswerTaken DEF vars, globals
  <2>2. dut'.handshake = dut.handshake
    BY <1>6, TakesAnswer DEF DutInv
  <2>3. ASSUME NEW i \in Instructions, Running, Instruction = i,
               Where(script, i), Place(i), Expects(i)
        PROVE  Expects(i)'
    <3>1. /\ Granted(t) /\ Answers(reply[t].response.spectrum) /\ pc[t] = "done"
          /\ recv_request = t /\ Settled /\ recv_request # NoBody
      BY <1>6, <2>3, AnswerFacts, ConstantsAssumption
    <3>2. dut'.permitted = reply[t].response.spectrum
      BY <1>6, <3>1, TakesAnswer DEF DutInv
    <3>3. ~Before(i)
      BY <2>1, <2>3 DEF Place, Before, Unasked
    <3>4. ~(script.family = "SAU" /\ i[2] = 2 /\ i[1] \notin {"set_response", "validate_rf"})
      BY <2>3, <3>1 DEF Expects, Early
    <3>5. ASSUME \/ script.family = "USA"
                 \/ /\ script.family = "UAU" /\ i[2] = 2
                    /\ i[1] \notin {"set_response", "power_cycle"}
          PROVE  dut'.permitted = NoSpectrum
      <4>2. ~RandomScript
        BY <3>5 DEF RandomScript
      <4>3. ~is_random
        BY <3>1, <4>2, Zenon DEF Settled
      <4>4. script.family = "UAU" => phase = 2
        BY <2>3, <3>3, <3>5 DEF SettledInv, InPhase, Update
      <4> QED BY <3>1, <3>2, <3>5, <4>3, <4>4 DEF Answers, Grants, Settled
    <3> QED BY <2>1, <2>2, <2>3, <3>1, <3>3, <3>4, <3>5 DEF Expects, Before
  <2> QED BY <1>2, <2>1, <2>3
<1>7. CASE UNCHANGED allVars
  <2>1. Stays /\ UNCHANGED <<dut, recv_request, hold_response, pc>>
    BY <1>7 DEF allVars, session, vars, globals
  <2>2. ASSUME NEW i \in Instructions, Expects(i) PROVE Expects(i)'
    BY <2>1, <2>2 DEF Expects, Before, Handshake
  <2> QED BY <1>2, <2>1, <2>2
<1> QED BY <1>1, <1>3, <1>4, <1>5, <1>6, <1>7, ScriptExpects, SessionCases
-----------------------------------------------------------------------------
(* The verdicts. *)

\* An instruction that passes: the script goes on, and what it measures is what
\* it wants.
Passes == Advance /\ \A m \in measured' \ measured : m.value = Wanted(m)

LEMMA PassKept ==
  ASSUME SessionTypeOK, PassInv, Running, script' = script, Passes
  PROVE  PassInv'
<1>1. Len(Program(script)) \in Nat /\ DOMAIN Program(script) = 1..Len(Program(script))
  BY LengthType
<1>2. step' = step + 1 /\ step \in 1..Len(Program(script))
  BY <1>1 DEF Passes, Advance, Running
<1>3. Stopped' = Len(Program(script)) + 2
  BY DEF Stopped, Length
<1>4. \A m : Wanted(m)' = Wanted(m)
  BY DEF Wanted
<1>5. \A m \in measured' : m.value = Wanted(m)
  BY DEF PassInv, Passes, Running
<1> QED BY <1>1, <1>2, <1>3, <1>4, <1>5 DEF PassInv

LEMMA MonitorPasses ==
  ASSUME SessionTypeOK, ExpectsInv, Monitor
  PROVE  Passes
<1> DEFINE i == Instruction
<1>1. i[1] = "monitor" /\ i \in Instructions /\ Running /\ Where(script, i) /\ Expects(i)
  BY InstructionWhere DEF Monitor, At, Running, ExpectsInv
<1>2. dut.op_channel = 0
  <2>1. CASE i[2] = 1
    BY <1>1, <2>1 DEF Expects, Before
  <2>2. CASE i[2] # 1
    BY <1>1, <2>2 DEF Expects, Where, Instructions
  <2> QED BY <2>1, <2>2
<1> DEFINE silent == Measure("SP_OPERATION", FALSE)
<1>3. Advance /\ measured' = measured \cup {silent}
  BY <1>2 DEF Monitor, AppendMeasurements
<1>4. silent.name = "SP_OPERATION" /\ silent.value = FALSE
  BY DEF Measure
<1> HIDE DEF silent
<1> QED BY <1>3, <1>4 DEF Passes, Wanted

\* A script that checks the status after its wait sees a request, and that it
\* was valid.
LEMMA CheckPassesVerdict ==
  ASSUME SessionTypeOK, PlaceInv, ServedInv, ExpectsInv, CheckRequest
  PROVE  Passes
<1> DEFINE i == Instruction
<1>1. /\ i[1] = "check_request" /\ i \in Instructions /\ Running
      /\ Where(script, i) /\ Expects(i) /\ Place(i) /\ Quiet
  BY InstructionWhere DEF CheckRequest, At, Running, ExpectsInv, PlaceInv
<1>2. script.family # "USV" /\ ~hold_response
  BY <1>1 DEF Where, Place, Held
<1>3. Idle /\ recv_request # NoBody
  BY <1>1, <1>2, QuietIsIdle DEF Expects
<1>4. valid_request
  BY <1>3, IdleIsAnswered
<1>5. GetStatus.receivedRequest # NoBody /\ GetStatus.valid_request = TRUE
  BY <1>3, <1>4 DEF GetStatus, SessionTypeOK, TypeOK
<1> DEFINE verdict == [Measure("REQUEST_VALID", TRUE) EXCEPT !.inquiry = GetStatus.receivedRequest]
<1>6. Advance /\ measured' = measured \cup ({Measure("SEND_REQUEST", TRUE)} \cup {verdict})
  BY <1>5 DEF CheckRequest, VerifyRequest, AppendMeasurements
<1>7. verdict.name = "REQUEST_VALID" /\ verdict.value = TRUE
  BY DEF Measure
<1>8. /\ Measure("SEND_REQUEST", TRUE).name = "SEND_REQUEST"
      /\ Measure("SEND_REQUEST", TRUE).value = TRUE
  BY DEF Measure
<1> HIDE DEF verdict
<1> QED BY <1>2, <1>6, <1>7, <1>8 DEF Passes, Wanted

LEMMA PollPassesVerdict ==
  ASSUME SessionTypeOK, TunedInv, ExpectsInv, PollRequest
  PROVE  Passes
<1> DEFINE i == Instruction
<1>1. /\ i[1] = "poll_request" /\ i \in Instructions /\ Running /\ Expects(i) /\ Tuned(i)
  BY InstructionWhere DEF PollRequest, At, Running, ExpectsInv, TunedInv
<1>2. valid_request /\ (Quiet => recv_request # NoBody)
  BY <1>1 DEF Tuned, Expects, Quiet
<1>3. GetStatus.receivedRequest = recv_request /\ GetStatus.valid_request = TRUE
  BY <1>2 DEF GetStatus, SessionTypeOK, TypeOK
<1> DEFINE verdict == [Measure("REQUEST_VALID", TRUE) EXCEPT !.inquiry = GetStatus.receivedRequest]
<1>4. Advance /\ measured' = measured \cup ({} \cup {verdict})
  BY <1>2, <1>3 DEF PollRequest, VerifyRequest, AppendMeasurements
<1>5. verdict.name = "REQUEST_VALID" /\ verdict.value = TRUE
  BY DEF Measure
<1> HIDE DEF verdict
<1> QED BY <1>4, <1>5 DEF Passes, Wanted

\* A DUT that heeds the server's certificate sends nothing.
LEMMA NoRequestPasses ==
  ASSUME SessionTypeOK, ExpectsInv, CheckNoRequest
  PROVE  Passes
<1> DEFINE i == Instruction
<1>1. /\ i[1] = "check_no_request" /\ i \in Instructions /\ Running /\ Expects(i)
      /\ Where(script, i) /\ Quiet
  BY InstructionWhere DEF CheckNoRequest, At, Running, ExpectsInv
<1>2. script.family = "USV" /\ recv_request = NoBody /\ dut.handshake = Handshake
  BY <1>1 DEF Expects, Where, Quiet
<1>3. GetStatus.receivedRequest = NoBody
  BY <1>2 DEF GetStatus
<1>4. /\ dut.handshake # "none"
      /\ ~(dut.handshake = "unknown_ca" /\ script.run \notin {2, 8})
  BY <1>2 DEF Handshake
<1> DEFINE none == Measure("SEND_REQUEST", FALSE)
<1>5. Advance /\ measured' = measured \cup {none}
  BY <1>3, <1>4 DEF CheckNoRequest, AppendMeasurements
<1>6. none.name = "SEND_REQUEST" /\ none.value = FALSE
  BY DEF Measure
<1> HIDE DEF none
<1> QED BY <1>2, <1>5, <1>6 DEF Passes, Wanted

\* The channel on which a DUT operates that has its answer is one for which the
\* script finds a limit.
LEMMA ChannelIsLimited ==
  ASSUME SessionTypeOK, GrantInv, AwaitInv, ServedInv, DutInv, Idle, recv_request # NoBody,
         dut.awaiting = {}, script_test_vector = script.vector, script.vector \in 1..3, Grants
  PROVE  dut.op_channel \in SpLimits(Dumped) /\ dut.op_channel # 0
<1> DEFINE t == recv_request
           sp == heap[<<t, "answer">>].spectrum
<1>1. t \in Inquiry /\ sent_response = <<t, "answer">> /\ Answers(sp)
  BY IdleIsAnswered
<1>2. dut.permitted = sp
  BY <1>1 DEF AwaitInv, Heard
<1>3. /\ script.vector = 1 => sp.chan = {}
      /\ script.vector = 2 => sp.freq = {}
  BY <1>1 DEF GrantInv, VectorInv, OfVector
<1>4. PICK c : /\ script.vector \in {1, 3} => c \in sp.freq
               /\ script.vector \in {2, 3} => c \in sp.chan
  BY <1>1 DEF Answers, Offers, NeedsFreqRange, NeedsChannel
<1>5. Dumped.response.spectrum = sp
  <2>1. sent_response # Unsent
    BY <1>1, ConstantsAssumption DEF Unsent
  <2> QED BY <1>1, <2>1 DEF Dumped
<1> HIDE DEF sp
<1>6. Usable(sp) = SpLimits(Dumped) /\ Usable(sp) # {}
  BY <1>3, <1>4, <1>5 DEF Usable, SpLimits
<1>7. dut.op_channel \in Usable(sp)
  BY <1>2, <1>6 DEF DutInv, DutTuned
<1>8. sp \in Spectrum
  BY <1>2 DEF SessionTypeOK
<1>9. dut.op_channel \in Cfi
  BY <1>7, <1>8 DEF Usable, Spectrum
<1> QED BY <1>6, <1>7, <1>9, SessionAssumption

LEMMA RfPasses ==
  ASSUME Conformant, SessionTypeOK, TypeInv, GrantInv, AwaitInv, PlaceInv, TunedInv,
         SettledInv, BodyInv, ServedInv, DutInv, ValidateRf
  PROVE  Passes
<1> DEFINE i == Instruction
           status == IF script.family = "SAU" /\ ThisPhase = 2 THEN GetStatus ELSE afc_resp
<1>1. /\ i[1] = "validate_rf" /\ i \in Instructions /\ Running /\ Quiet
      /\ Where(script, i) /\ Place(i) /\ InPhase(i)
  BY InstructionWhere DEF ValidateRf, At, Running, PlaceInv, SettledInv
<1>2. /\ ~hold_response /\ recv_request # NoBody /\ script_test_vector = script.vector
      /\ script.family # "USV"
  BY <1>1 DEF Place
<1>3. Idle /\ dut.awaiting = {}
  BY <1>1, <1>2, QuietIsIdle
<1>4. status.sentResponse = Dumped
  BY <1>1 DEF Place, Held, GetStatus, ThisPhase
<1>5. Posting /\ Settled
  BY <1>2 DEF SettledInv
<1>6. Grants
  <2>1. CASE script.family \in {"RSA", "SAU"}
    BY <1>5, <2>1, Zenon DEF Settled, RandomScript, Grants
  <2>2. CASE script.family = "UAU" /\ i[2] = 1
    BY <1>1, <1>5, <2>2 DEF Settled, InPhase, Before, Update, Grants
  <2> QED BY <1>1, <2>1, <2>2 DEF Where
<1>7. script.vector \in 1..3
  <2>1. body[recv_request] \in Body
    BY <1>2, <1>3, IdleIsAnswered DEF BodyInv
  <2> QED BY <1>2, <2>1, AskedEnough
<1>8. dut.op_channel \in SpLimits(Dumped) /\ dut.op_channel # 0
  BY <1>2, <1>3, <1>6, <1>7, ChannelIsLimited
<1> DEFINE verdict == [Measure("CONFORM", TRUE) EXCEPT !.channel = dut.op_channel]
<1>9. Advance /\ measured' = measured \cup {verdict}
  <2> HIDE DEF status
  <2> QED BY <1>4, <1>8 DEF ValidateRf, AppendMeasurements, status
<1>10. verdict.name = "CONFORM" /\ verdict.value = TRUE
  BY DEF Measure
<1> HIDE DEF verdict
<1> QED BY <1>9, <1>10 DEF Passes, Wanted

LEMMA NothingGrantedPasses ==
  ASSUME SessionTypeOK, DutInv, ExpectsInv, MonitorNothingGranted
  PROVE  Passes
<1> DEFINE i == Instruction
<1>1. /\ i[1] = "monitor_nothing_granted" /\ i \in Instructions /\ Running
      /\ Where(script, i) /\ Expects(i)
  BY InstructionWhere DEF MonitorNothingGranted, At, Running, ExpectsInv
<1>2. dut.permitted = NoSpectrum
  BY <1>1 DEF Where, Expects
<1>3. dut.op_channel = 0
  BY <1>2 DEF DutInv, DutTuned, Usable, NoSpectrum
<1> DEFINE verdict == [Measure("CONFORM", TRUE) EXCEPT !.channel = dut.op_channel]
<1>4. Advance /\ measured' = measured \cup {verdict}
  BY <1>3 DEF MonitorNothingGranted, AppendMeasurements
<1>5. verdict.name = "CONFORM" /\ verdict.value = TRUE
  BY DEF Measure
<1> HIDE DEF verdict
<1> QED BY <1>4, <1>5 DEF Passes, Wanted

LEMMA NextPass ==
  ASSUME Conformant, SessionTypeOK, TypeInv, GrantInv, AwaitInv, PlaceInv, TunedInv,
         SettledInv, BodyInv, ServedInv, DutInv, ExpectsInv, PassInv, [SessionNext]_allVars
  PROVE  PassInv'
<1>1. ASSUME NEW s \in Scripts, Setup(s) PROVE PassInv'
  <2>1. Len(Program(s)) \in Nat
    BY SessionAssumption, ProgramSteps
  <2> QED BY <1>1, <2>1 DEF Setup, PassInv, Stopped, Length
<1>2. CASE ScriptStep
  <2>1. CASE Teardown
    BY <2>1 DEF Teardown, PassInv
  <2>2. CASE ~Teardown
    <3>1. Running /\ script' = script
      BY <1>2, <2>2, AtInstruction
    <3>2. CASE Configure \/ Reconfigure \/ PowerCycle \/ PostResponse \/ PostReset
               \/ SendRequest \/ ReleaseResponse
      <4>1. Advance /\ measured' = measured
        BY <3>2 DEF Configure, Reconfigure, PowerCycle, PostResponse, PostReset,
                    SendRequest, ReleaseResponse
      <4> QED BY <3>1, <4>1, PassKept DEF Passes
    <3>3. CASE ~(Configure \/ Reconfigure \/ PowerCycle \/ PostResponse \/ PostReset
                 \/ SendRequest \/ ReleaseResponse)
      <4>1. Passes
        BY <1>2, <2>2, <3>3, MonitorPasses, CheckPassesVerdict, PollPassesVerdict,
           NoRequestPasses, RfPasses, NothingGrantedPasses, Zenon
        DEF ScriptStep
      <4> QED BY <3>1, <4>1, PassKept
    <3> QED BY <3>2, <3>3
  <2> QED BY <2>1, <2>2
<1>3. ASSUME UNCHANGED <<script, step, measured>> PROVE PassInv'
  BY <1>3 DEF PassInv, Stopped, Length, Wanted
<1>4. ASSUME NEW t \in Inquiry, Handler(t) \/ \E b \in Body : DutSends(t, b) PROVE PassInv'
  BY <1>3, <1>4 DEF Handler, session, DutSends
<1>5. CASE DutDoesNotSend
  BY <1>3, <1>5, DutRests
<1>6. ASSUME NEW t \in Inquiry, DutTakesAnswer(t) PROVE PassInv'
  BY <1>3, <1>6, AnswerTaken
<1>7. CASE UNCHANGED allVars
  BY <1>3, <1>7 DEF allVars, session
<1> QED BY <1>1, <1>2, <1>4, <1>5, <1>6, <1>7, SessionCases
-----------------------------------------------------------------------------
ConformInv == /\ SettledInv /\ BodyInv /\ OfferInv /\ ServedInv /\ DutInv /\ ExpectsInv
              /\ PassInv

LEMMA InitConform == SessionInit => ConformInv
<1> SUFFICES ASSUME SessionInit PROVE ConformInv
  OBVIOUS
<1>1. /\ script = NoScript /\ recv_request = NoBody /\ ~is_random /\ dut = ResetDut
      /\ vectors = EmptyVectors /\ pc = [t \in Inquiry |-> "idle"]
  BY DEF SessionInit, Init
<1>2. ~Running /\ ~Posting
  BY <1>1 DEF Running, Posting, NoScript
<1>3. SettledInv /\ BodyInv /\ ServedInv /\ ExpectsInv /\ PassInv
  BY <1>1, <1>2 DEF SettledInv, BodyInv, ServedInv, ExpectsInv, PassInv
<1>4. OfferInv
  BY <1>1 DEF OfferInv, EmptyVectors
<1>5. DutInv
  BY <1>1, <1>2 DEF DutInv, DutTuned, Usable, ResetDut, NoSpectrum
<1> QED BY <1>3, <1>4, <1>5 DEF ConformInv

LEMMA NextConform ==
  ASSUME Conformant, SessionInv, ConformInv, [SessionNext]_allVars
  PROVE  ConformInv'
<1>1. Triggered /\ ~Overlap
  BY SessionAssumption
<1> USE DEF SessionInv, ConformInv
<1>2. SettledInv' /\ OfferInv' /\ BodyInv' /\ ServedInv'
  BY <1>1, NextSettled, NextOffer, NextServed
<1>3. DutInv' /\ ExpectsInv' /\ PassInv'
  BY <1>1, NextDutInv, NextExpects, NextPass
<1> QED BY <1>2, <1>3

\* Whatever the scripts and their order, the channels and the number of
\* inquiries: a DUT that does all that the test plan asks of it passes every
\* measurement of every script, and none of them stops early.
THEOREM ConformantDutPasses ==
  SessionSpec => []ConformantPasses
<1>1. CASE Conformant
  <2>1. Triggered /\ ~Overlap
    BY <1>1, SessionAssumption
  <2>2. SessionInit => SessionInv /\ ConformInv
    BY InitSession, InitConform
  <2>3. SessionInv /\ ConformInv /\ [SessionNext]_allVars => SessionInv' /\ ConformInv'
    BY <1>1, <2>1, NextSession, NextConform
  <2>4. SessionInv /\ ConformInv => ConformantPasses
    BY DEF ConformInv, PassInv, ConformantPasses
  <2> QED BY <2>2, <2>3, <2>4, PTL DEF SessionSpec
<1>2. CASE ~Conformant
  <2>1. ConformantPasses
    BY <1>2 DEF ConformantPasses
  <2> QED BY <2>1, PTL
<1> QED BY <1>1, <1>2
=============================================================================
