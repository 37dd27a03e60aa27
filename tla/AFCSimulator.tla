---------------------------- MODULE AFCSimulator ----------------------------
(***************************************************************************)
(* The AFC System Simulator service (afc_simulator_service, routes.py).    *)
(*                                                                         *)
(* The service is a Flask application started with app.run, which serves   *)
(* every HTTP request in a thread of its own, and it keeps everything it   *)
(* knows in module globals that no lock protects.  Two parties use it: the *)
(* device under test posts Available Spectrum Inquiry Requests, and the    *)
(* test script posts set-response, set-params and reset and reads          *)
(* get-status.                                                             *)
(*                                                                         *)
(* The handler of an inquiry is a sequence of steps, one for each stretch  *)
(* of code between two accesses of the globals that another thread can get *)
(* between; the operations of the test script are one step each.  Spectrum *)
(* is abstracted to sets of center frequency indices (CFIs) of the channel *)
(* width under test, without the masks and power limits that               *)
(* build_random_vector makes of them.                                      *)
(***************************************************************************)
EXTENDS Integers, FiniteSets

CONSTANTS
  Inquiry,      \* the inquiries the DUT sends in a behaviour, one thread each
  Cfi,          \* the CFIs of the channel width under test
  Body,         \* the request bodies the DUT may post
  Setting,      \* the bodies test scripts post to set-response
  VectorFile,   \* the test vector files on disk: name -> Spectrum
  Overlap,      \* may the DUT post an inquiry while another is unanswered?
  Prompt        \* do the script's waits outlast the handler's work?

\* The content of a response's availableChannelInfo and
\* availableFrequencyInfo; {} also stands for a field that is absent.
Spectrum == [chan: SUBSET Cfi, freq: SUBSET Cfi]

\* What can be wrong with a request body, in the order the handler looks;
\* envelope: version, the list of inquiries or the requestId is missing, or the
\* list is empty; noCert: the certificationId list is.
Fault == {"unparsable", "envelope", "descriptor", "certType", "version",
          "noCert", "rulesetType", "locationKey", "location", "inquired",
          "wrongType"}

BodyType == [json: BOOLEAN,             \* Content-Type is application/json
             faults: SUBSET Fault,
             country: {"US", "CA"},     \* country of every rulesetId
             has_channel: BOOLEAN, has_freq_range: BOOLEAN,
             chan: SUBSET Cfi,          \* CFIs inquired by channel
             empty_cfi: BOOLEAN,        \* by an empty channelCfi list
             freq: SUBSET Cfi]          \* CFIs inside the inquired ranges

\* The purposes the scripts name; the file name prefix is made of it.
Purpose == {"RSA", "USA", "SAU", "UAU"}

\* An optional member of a JSON object.
Given(tc, key, default) == IF key \in DOMAIN tc THEN tc[key] ELSE default

IsSetting(tc) ==
  /\ {"purpose", "testVector"} \subseteq DOMAIN tc
  /\ tc.purpose \in Purpose /\ tc.testVector \in 0..3
  /\ Given(tc, "phase", 0) \in 0..2
  /\ Given(tc, "holdResponse", FALSE) \in BOOLEAN
  /\ Given(tc, "countryCode", "US") \in {"US", "CA"}
  /\ Given(tc, "channelWidth", 80) \in {80, 160, 320}
  /\ Given(tc, "random", FALSE) \in BOOLEAN
  /\ Given(tc, "onlyRandomPower", FALSE) \in BOOLEAN
  /\ Given(tc, "difference_last_picks", FALSE) \in BOOLEAN

NoBody == "no body"                \* recv_request["body"] == {}

ASSUME ConstantsAssumption ==
  /\ IsFiniteSet(Cfi)
  /\ NoBody \notin Inquiry
  /\ Body \subseteq BodyType
  /\ \A tc \in Setting : IsSetting(tc)
  /\ \A name \in DOMAIN VectorFile : VectorFile[name] \in Spectrum
  /\ Overlap \in BOOLEAN /\ Prompt \in BOOLEAN
-----------------------------------------------------------------------------
VARIABLES
  (* The globals of routes.py. *)
  vectors,                \* its keys ("listed": the list in
                          \* vectors["responses"] is not empty) and response
  recv_request,           \* inquiry whose body is in recv_request["body"]
  valid_request, hold_response,
  sent_response,          \* the response object sent_response refers to
  phase, filename_prefix, script_test_vector, country_code, channel_width,
  is_random, only_random_power, difference_last_picks, random_picks,
  (* The response objects, by the thread and the statement that make them. *)
  heap,
  (* The local state of the handler threads. *)
  pc,                     \* next step of the handler
  body,                   \* the request body posted to this thread
  req,                    \* inquiry whose body the thread has read back
  picks,                  \* build_random_vector's CFIs, before publication
  resp,                   \* response object the local "resp" points into
  reply                   \* the HTTP response returned to the DUT

settings == <<phase, filename_prefix, script_test_vector, country_code,
              channel_width, is_random, only_random_power,
              difference_last_picks>>
threads == <<body, req, picks, resp, reply>>
globals == <<vectors, recv_request, valid_request, hold_response,
             sent_response, settings, random_picks>>
vars == <<globals, heap, pc, threads>>

\* gen_err_resp makes an "error" object, copy.deepcopy an "answer"; Unsent
\* is a sent_response in which there is no response.
Object == Inquiry \X {"answer", "error"}
Unsent == <<NoBody, "none">>

\* A response object: the requestId it carries (0 as in the handler's
\* "req_id = 0"), its responseCode and the spectrum it grants.
Response == [requestId: Inquiry \cup {0}, code: {-1, 0, 100, 102, 103},
             spectrum: Spectrum]

NoSpectrum == [chan |-> {}, freq |-> {}]
EmptyVectors == [keys |-> {}, responses |-> NoSpectrum]
BlankResponse == [requestId |-> 0, code |-> 0, spectrum |-> NoSpectrum]
BlankBody == [json |-> FALSE, faults |-> {}, country |-> "US",
              has_channel |-> FALSE, has_freq_range |-> FALSE,
              chan |-> {}, empty_cfi |-> FALSE, freq |-> {}]

\* The HTTP response: none yet, 400, 500, 200 without a response object, or
\* 200 with one.
Reply == [status: {"none", "400", "500", "empty", "200"}, response: Response]
NoReply == [status |-> "none", response |-> BlankResponse]
BadRequest == [status |-> "400", response |-> BlankResponse]
ServerError == [status |-> "500", response |-> BlankResponse]
EmptyReply == [status |-> "empty", response |-> BlankResponse]

Step == {"idle", "parse", "validate", "check", "build", "publish", "append",
         "accept", "load", "hold", "copy", "stamp", "filter", "send",
         "sendError", "done"}

TypeOK ==
  /\ vectors \in [keys: SUBSET {"testCaseID", "responses", "listed"},
                 responses: Spectrum]
  /\ recv_request \in Inquiry \cup {NoBody}
  /\ valid_request \in BOOLEAN /\ hold_response \in BOOLEAN
  /\ sent_response \in Object \cup {Unsent}
  /\ phase \in 0..2                      \* 0 is None
  /\ filename_prefix \in Purpose \cup {"default"}
  /\ script_test_vector \in 0..3
  /\ country_code \in {"US", "CA"}
  /\ channel_width \in {80, 160, 320}
  /\ is_random \in BOOLEAN /\ only_random_power \in BOOLEAN
  /\ difference_last_picks \in BOOLEAN
  /\ random_picks \in SUBSET Cfi
  /\ heap \in [Object -> Response]
  /\ pc \in [Inquiry -> Step]
  /\ body \in [Inquiry -> BodyType]
  /\ req \in [Inquiry -> Inquiry \cup {NoBody}]
  /\ picks \in [Inquiry -> SUBSET Cfi]
  /\ resp \in [Inquiry -> Object \cup {Unsent}]
  /\ reply \in [Inquiry -> Reply]

Init ==
  /\ vectors = EmptyVectors /\ recv_request = NoBody
  /\ valid_request = FALSE /\ hold_response = FALSE
  /\ sent_response = Unsent
  /\ phase = 0 /\ filename_prefix = "default" /\ script_test_vector = 0
  /\ country_code = "US" /\ channel_width = 80
  /\ is_random = FALSE /\ only_random_power = FALSE
  /\ difference_last_picks = FALSE /\ random_picks = {}
  /\ heap = [o \in Object |-> BlankResponse]
  /\ pc = [t \in Inquiry |-> "idle"]
  /\ body = [t \in Inquiry |-> BlankBody]
  /\ req = [t \in Inquiry |-> NoBody]
  /\ picks = [t \in Inquiry |-> {}]
  /\ resp = [t \in Inquiry |-> Unsent]
  /\ reply = [t \in Inquiry |-> NoReply]
-----------------------------------------------------------------------------
(***************************************************************************)
(* The checks of the inquiry handler.                                      *)
(***************************************************************************)
NotConfigured == ""
NeedsFreqRange == script_test_vector \in {1, 3}
NeedsChannel == script_test_vector \in {2, 3}
\* A random vector needs two CFIs to choose from, one when they are 320 MHz.
TooFew(cfis) ==
  is_random /\ Cardinality(cfis) < (IF channel_width = 320 THEN 1 ELSE 2)

\* The responseCode of the first check of its content that b fails, else 0.
RequestCodeUnlocated(b) ==     \* mutant: the location is not looked at
  IF filename_prefix = NotConfigured THEN -1
  ELSE IF "descriptor" \in b.faults THEN 102
  ELSE IF "certType" \in b.faults THEN 103
  ELSE IF "version" \in b.faults THEN 100
  ELSE IF "noCert" \notin b.faults /\ "rulesetType" \in b.faults THEN 103
  ELSE IF "noCert" \notin b.faults /\ b.country # country_code THEN -1
  ELSE IF "inquired" \in b.faults THEN 102
  ELSE IF "wrongType" \in b.faults THEN -1
  ELSE 0

RequestCode(b) ==
  IF filename_prefix = NotConfigured THEN -1
  ELSE IF "descriptor" \in b.faults THEN 102
  ELSE IF "certType" \in b.faults THEN 103
  ELSE IF "version" \in b.faults THEN 100
  ELSE IF "noCert" \notin b.faults /\ "rulesetType" \in b.faults THEN 103
  ELSE IF "noCert" \notin b.faults /\ b.country # country_code THEN -1
  ELSE IF "locationKey" \in b.faults THEN 102
  ELSE IF "location" \in b.faults THEN -1
  ELSE IF "inquired" \in b.faults THEN 102
  ELSE IF "wrongType" \in b.faults THEN -1
  ELSE 0

\* The same for what the test vector needs of it.
VectorCode(b) ==
  IF NeedsFreqRange /\ ~b.has_freq_range THEN 102
  ELSE IF NeedsFreqRange /\ TooFew(b.freq) THEN -1
  ELSE IF NeedsChannel /\ ~b.has_channel THEN 102
  ELSE IF NeedsChannel /\ TooFew(b.chan) THEN -1
  ELSE 0

\* req_cfi_bwX: the CFIs inquired by channel, unless there are none or the
\* frequency ranges hold fewer.
req_cfi_bwX(b) ==
  LET byChan == IF b.has_channel THEN b.chan ELSE {}
  IN  IF b.has_freq_range
         /\ (byChan = {} \/ Cardinality(b.freq) < Cardinality(byChan))
      THEN b.freq
      ELSE byChan

\* The CFIs build_random_vector may pick when inq is inquired.
RandomPicksAnew(inq) ==        \* mutant: picks without regard to the last ones
  IF Cardinality(inq) < 2 THEN {inq}
  ELSE {s \in SUBSET inq : Cardinality(s) = Cardinality(inq) \div 2}

RandomPicks(inq) ==
  IF Cardinality(inq) < 2 THEN {inq}
  ELSE IF difference_last_picks THEN {inq \ random_picks}
  ELSE {s \in SUBSET inq : Cardinality(s) = Cardinality(inq) \div 2}

\* The test vector of a request: the script's, else what the body inquires;
\* 0 when it inquires nothing.
TestVector(b) ==
  IF script_test_vector # 0 THEN script_test_vector
  ELSE IF b.has_freq_range /\ b.has_channel THEN 3
  ELSE IF b.has_channel THEN 2
  ELSE IF b.has_freq_range THEN 1
  ELSE 0

FileName(vec) ==
  IF filename_prefix = "default"
  THEN <<country_code, filename_prefix, 0, 0>>
  ELSE <<country_code, filename_prefix, vec, phase>>

\* What json.dumps makes of the object sent_response refers to.
Dumped == IF sent_response = Unsent
          THEN EmptyReply
          ELSE [status |-> "200", response |-> heap[sent_response]]
-----------------------------------------------------------------------------
(***************************************************************************)
(* The handler of an inquiry, AvailableSpectrum.post.                      *)
(***************************************************************************)
Goto(t, step) == pc' = [pc EXCEPT ![t] = step]

\* gen_err_resp: make the error object and let sent_response refer to it.
\* The thread then writes the inquiry file and returns what sent_response
\* refers to by that time (Send).
ErrorObjectUnidentified(id, code) ==     \* mutant: without the requestId
  [code |-> code, spectrum |-> NoSpectrum]

ErrorObject(id, code) ==
  [requestId |-> id, code |-> code, spectrum |-> NoSpectrum]

gen_err_resp(t, id, code) ==
  /\ heap' = [heap EXCEPT ![<<t, "error">>] = ErrorObject(id, code)]
  /\ sent_response' = <<t, "error">>
  /\ Goto(t, "sendError")

Active(t) == pc[t] \notin {"idle", "done"}

\* A request arrives and its body is stored in recv_request.  A body that
\* request.json cannot parse leaves the old one there and fails.
Receive(t, b) ==
  /\ pc[t] = "idle"
  /\ Overlap \/ \A u \in Inquiry : ~Active(u)
  /\ body' = [body EXCEPT ![t] = b]
  /\ \/ /\ ~b.json
        /\ recv_request' = NoBody
        /\ reply' = [reply EXCEPT ![t] = BadRequest]
        /\ Goto(t, "done")
        /\ UNCHANGED <<heap, sent_response>>
     \/ /\ b.json /\ "unparsable" \in b.faults
        /\ gen_err_resp(t, 0, -1)
        /\ UNCHANGED <<recv_request, reply>>
     \/ /\ b.json /\ "unparsable" \notin b.faults
        /\ recv_request' = t
        /\ Goto(t, "parse")
        /\ UNCHANGED <<heap, sent_response, reply>>
  /\ UNCHANGED <<vectors, valid_request, hold_response, settings,
                 random_picks, req, picks, resp>>

\* version, req and req_id are read back from the global recv_request, whose
\* body may meanwhile be another request's or, after a reset, be empty.  What
\* is missing is a KeyError, an empty list of inquiries any other exception.
EnvelopeCodes == IF recv_request = NoBody THEN {102} ELSE {-1, 102}

Parse(t) ==
  /\ pc[t] = "parse"
  /\ IF recv_request = NoBody \/ "envelope" \in body[recv_request].faults
     THEN (\E code \in EnvelopeCodes : gen_err_resp(t, 0, code)) /\ UNCHANGED req
     ELSE /\ req' = [req EXCEPT ![t] = recv_request]
          /\ Goto(t, "validate")
          /\ UNCHANGED <<heap, sent_response>>
  /\ UNCHANGED <<vectors, recv_request, valid_request, hold_response,
                 settings, random_picks, body, picks, resp, reply>>

\* The checks of the request's content.
Validate(t) ==
  LET code == RequestCode(body[req[t]]) IN
  /\ pc[t] = "validate"
  /\ \/ /\ code # 0
        /\ gen_err_resp(t, req[t], code)
     \/ /\ code = 0
        /\ Goto(t, "check")
        /\ UNCHANGED <<heap, sent_response>>
  /\ UNCHANGED <<vectors, recv_request, valid_request, hold_response,
                 settings, random_picks, threads>>

\* The checks against the test vector, and the decision to build a random
\* one.
CheckVector(t) ==
  LET code == VectorCode(body[req[t]]) IN
  /\ pc[t] = "check"
  /\ \/ /\ code # 0
        /\ gen_err_resp(t, req[t], code)
     \/ /\ code = 0
        /\ Goto(t, IF is_random /\ "responses" \notin vectors.keys
                   THEN "build" ELSE "accept")
        /\ UNCHANGED <<heap, sent_response>>
  /\ UNCHANGED <<vectors, recv_request, valid_request, hold_response,
                 settings, random_picks, threads>>

\* build_random_vector chooses the CFIs; all of them when only the power is
\* to be random.
Build(t) ==
  /\ pc[t] = "build"
  /\ \/ /\ only_random_power
        /\ picks' = [picks EXCEPT ![t] = Cfi]
        /\ UNCHANGED random_picks
     \/ /\ ~only_random_power
        /\ random_picks' \in RandomPicks(req_cfi_bwX(body[req[t]]))
        /\ UNCHANGED picks
  /\ Goto(t, "publish")
  /\ UNCHANGED <<vectors, recv_request, valid_request, hold_response,
                 sent_response, settings, heap, body, req, resp, reply>>

\* It makes masks of the CFIs that are in random_picks by now and puts an
\* empty list of responses into vectors.
Publish(t) ==
  /\ pc[t] = "publish"
  /\ picks' = [picks EXCEPT ![t] = IF @ = {} THEN random_picks ELSE @]
  /\ vectors' = [keys |-> (vectors.keys \cup {"responses"}) \ {"listed"},
                 responses |-> NoSpectrum]
  /\ Goto(t, "append")
  /\ UNCHANGED <<recv_request, valid_request, hold_response, sent_response,
                 settings, random_picks, heap, body, req, resp, reply>>

\* It appends the response to the list.  When set-response or reset has
\* replaced vectors, that raises a KeyError which nothing catches; of a list
\* that another builder has appended to only the first response counts.
AppendResponse(t) ==
  /\ pc[t] = "append"
  /\ \/ /\ "responses" \notin vectors.keys
        /\ reply' = [reply EXCEPT ![t] = ServerError]
        /\ picks' = [picks EXCEPT ![t] = {}]
        /\ Goto(t, "done")
        /\ UNCHANGED vectors
     \/ /\ "responses" \in vectors.keys
        /\ vectors' =
             IF "listed" \in vectors.keys THEN vectors
             ELSE [keys |-> vectors.keys \cup {"listed"},
                   responses |-> [chan |-> IF NeedsChannel THEN picks[t] ELSE {},
                                  freq |-> IF NeedsFreqRange THEN picks[t] ELSE {}]]
        /\ Goto(t, "accept")
        /\ UNCHANGED <<reply, picks>>
  /\ UNCHANGED <<recv_request, valid_request, hold_response, sent_response,
                 settings, random_picks, heap, body, req, resp>>

Accept(t) ==
  /\ pc[t] = "accept"
  /\ valid_request' = TRUE
  /\ Goto(t, "load")
  /\ UNCHANGED <<vectors, recv_request, hold_response, sent_response, settings,
                 random_picks, heap, threads>>

\* Unless the vector is random it is loaded from disk.
Load(t) ==
  LET vec == TestVector(body[req[t]])
      missing == ~is_random /\ vec # 0 /\ FileName(vec) \notin DOMAIN VectorFile
      loaded == ~is_random /\ vec # 0 /\ ~missing
  IN
  /\ pc[t] = "load"
  /\ vectors' = IF loaded
                THEN [keys |-> {"testCaseID", "responses", "listed"},
                      responses |-> VectorFile[FileName(vec)]]
                ELSE vectors
  /\ IF missing
     THEN gen_err_resp(t, req[t], -1)
     ELSE Goto(t, "hold") /\ UNCHANGED <<heap, sent_response>>
  /\ UNCHANGED <<recv_request, valid_request, hold_response, settings,
                 random_picks, threads>>

\* The thread leaves the loop that polls hold_response once a second, and
\* has slept for resp_wait_time.
ReleaseUnheld(t) ==            \* mutant: hold_response is not polled
  /\ pc[t] = "hold"
  /\ Goto(t, "copy")
  /\ UNCHANGED <<globals, heap, threads>>

ReleasePrepared(t) ==          \* mutant: it also waits for a response
  /\ pc[t] = "hold"
  /\ ~hold_response /\ "responses" \in vectors.keys
  /\ Goto(t, "copy")
  /\ UNCHANGED <<globals, heap, threads>>

Release(t) ==
  /\ pc[t] = "hold"
  /\ ~hold_response
  /\ Goto(t, "copy")
  /\ UNCHANGED <<globals, heap, threads>>

\* sent_response becomes a deep copy of the vector's responses, which may be
\* an empty list as yet.
Copy(t) ==
  /\ pc[t] = "copy"
  /\ \/ /\ "responses" \notin vectors.keys
        /\ gen_err_resp(t, req[t], -1)
     \/ /\ "responses" \in vectors.keys /\ "listed" \notin vectors.keys
        /\ sent_response' = Unsent
        /\ Goto(t, "stamp")
        /\ UNCHANGED heap
     \/ /\ {"responses", "listed"} \subseteq vectors.keys
        /\ heap' = [heap EXCEPT ![<<t, "answer">>] =
                      [requestId |-> 0, code |-> 0,
                       spectrum |-> vectors.responses]]
        /\ sent_response' = <<t, "answer">>
        /\ Goto(t, "stamp")
  /\ UNCHANGED <<vectors, recv_request, valid_request, hold_response,
                 settings, random_picks, threads>>

\* version, requestId and rulesetId are written into the object that
\* sent_response refers to now; "resp" keeps pointing into it.
Stamp(t) ==
  /\ pc[t] = "stamp"
  /\ \/ /\ sent_response = Unsent
        /\ gen_err_resp(t, req[t], -1)
        /\ UNCHANGED resp
     \/ /\ sent_response # Unsent
        /\ "noCert" \in body[req[t]].faults    \* ruleset_ids[0] fails
        /\ heap' = [heap EXCEPT ![sent_response].requestId = req[t],
                                ![<<t, "error">>] = ErrorObject(req[t], -1)]
        /\ sent_response' = <<t, "error">>
        /\ Goto(t, "sendError")
        /\ UNCHANGED resp
     \/ /\ sent_response # Unsent
        /\ "noCert" \notin body[req[t]].faults
        /\ heap' = [heap EXCEPT ![sent_response].requestId = req[t]]
        /\ resp' = [resp EXCEPT ![t] = sent_response]
        /\ Goto(t, "filter")
        /\ UNCHANGED sent_response
  /\ UNCHANGED <<vectors, recv_request, valid_request, hold_response,
                 settings, random_picks, body, req, picks, reply>>

\* The channels the filter takes for inquired: to it an empty channelCfi is
\* no restriction, although no CFI is counted for it by the checks.
FilterCfi(b) == IF b.empty_cfi THEN Cfi ELSE b.chan

\* Keep only the channels and the frequency ranges that were inquired.  The
\* code empties the lists of the response and refills them; that it is one
\* step hides the partial lists, which only an overlapping inquiry or a
\* get-status in between could see.
FilterRangesOnly(t) ==         \* mutant: all channels are kept
  LET b == body[req[t]] IN
  /\ pc[t] = "filter"
  /\ heap' = [heap EXCEPT ![resp[t]].spectrum =
                [chan |-> IF b.has_channel THEN @.chan ELSE {},
                 freq |-> IF b.has_freq_range THEN @.freq \cap b.freq ELSE {}]]
  /\ Goto(t, "send")
  /\ UNCHANGED <<globals, threads>>

Filter(t) ==
  LET b == body[req[t]] IN
  /\ pc[t] = "filter"
  /\ heap' = [heap EXCEPT ![resp[t]].spectrum =
                [chan |-> IF b.has_channel THEN @.chan \cap FilterCfi(b) ELSE {},
                 freq |-> IF b.has_freq_range THEN @.freq \cap b.freq ELSE {}]]
  /\ Goto(t, "send")
  /\ UNCHANGED <<globals, threads>>

\* Return what sent_response refers to; the thread ends, its locals with it.
Send(t) ==
  /\ pc[t] \in {"send", "sendError"}
  /\ reply' = [reply EXCEPT ![t] = Dumped]
  /\ picks' = [picks EXCEPT ![t] = {}]
  /\ resp' = [resp EXCEPT ![t] = Unsent]
  /\ Goto(t, "done")
  /\ UNCHANGED <<globals, heap, body, req>>

Handle(t) == \/ Parse(t) \/ Validate(t) \/ CheckVector(t) \/ Build(t)
             \/ Publish(t) \/ AppendResponse(t) \/ Accept(t) \/ Load(t) \/ Release(t)
             \/ Copy(t) \/ Stamp(t) \/ Filter(t) \/ Send(t)
-----------------------------------------------------------------------------
(***************************************************************************)
(* The operations of the test script.  When Prompt, its waits are long     *)
(* enough for every handler to have finished or to be held.                *)
(***************************************************************************)
ScriptMayAct == Prompt => \A t \in Inquiry : pc[t] \in {"idle", "hold", "done"}

\* What set-response and reset do to the exchange seen so far; the keys that
\* are left in vectors, and valid_request afterwards, are theirs.
NewExchangeKeepsRequest(keys, valid) ==  \* mutant: recv_request is not cleared
  /\ vectors' = [keys |-> keys, responses |-> NoSpectrum]
  /\ sent_response' = Unsent
  /\ valid_request' = valid
  /\ UNCHANGED recv_request

NewExchangeUnverified(keys, valid) ==    \* mutant: set-response clears the flag
  /\ vectors' = [keys |-> keys, responses |-> NoSpectrum]
  /\ recv_request' = NoBody /\ sent_response' = Unsent
  /\ valid_request' = FALSE

NewExchange(keys, valid) ==
  /\ vectors' = [keys |-> keys, responses |-> NoSpectrum]
  /\ recv_request' = NoBody /\ sent_response' = Unsent
  /\ valid_request' = valid

\* POST /set-response.  Neither valid_request nor random_picks is touched,
\* and hold_response, country_code and channel_width only when given.
SetResponse(tc) ==
  LET random == Given(tc, "random", FALSE) IN
  /\ ScriptMayAct
  /\ NewExchange({"testCaseID"}, valid_request)
  /\ filename_prefix' = tc.purpose
  /\ script_test_vector' = tc.testVector
  /\ phase' = Given(tc, "phase", 0)
  /\ hold_response' = Given(tc, "holdResponse", hold_response)
  /\ country_code' = Given(tc, "countryCode", country_code)
  /\ channel_width' = Given(tc, "channelWidth", channel_width)
  /\ is_random' = random
  /\ only_random_power' = IF random THEN Given(tc, "onlyRandomPower", FALSE)
                          ELSE only_random_power
  /\ difference_last_picks' =
       IF random THEN Given(tc, "difference_last_picks", FALSE)
       ELSE difference_last_picks
  /\ UNCHANGED <<random_picks, heap, pc, threads>>

\* POST /set-params
SetParams(holdResponse) ==
  /\ ScriptMayAct
  /\ hold_response' = holdResponse
  /\ UNCHANGED <<vectors, recv_request, valid_request, sent_response,
                 settings, random_picks, heap, pc, threads>>

\* GET /get-status changes nothing; what it returns of the exchange:
GetStatus == [receivedRequest |-> recv_request, sentResponse |-> Dumped,
              valid_request |-> valid_request]

\* POST /reset.  random_picks and country_code survive.
ResetKeepsHold ==              \* mutant: hold_response survives as well
  /\ ScriptMayAct
  /\ NewExchange({}, FALSE)
  /\ phase' = 0 /\ filename_prefix' = "default" /\ script_test_vector' = 0
  /\ is_random' = FALSE /\ only_random_power' = FALSE
  /\ difference_last_picks' = FALSE /\ channel_width' = 80
  /\ UNCHANGED <<hold_response, country_code, random_picks, heap, pc, threads>>

Reset ==
  /\ ScriptMayAct
  /\ NewExchange({}, FALSE)
  /\ phase' = 0 /\ filename_prefix' = "default" /\ script_test_vector' = 0
  /\ is_random' = FALSE /\ only_random_power' = FALSE
  /\ difference_last_picks' = FALSE /\ channel_width' = 80
  /\ hold_response' = FALSE
  /\ UNCHANGED <<country_code, random_picks, heap, pc, threads>>

Next ==
  \/ \E t \in Inquiry : (\E b \in Body : Receive(t, b)) \/ Handle(t)
  \/ \E tc \in Setting : SetResponse(tc)
  \/ \E h \in BOOLEAN : SetParams(h)
  \/ Reset

Spec == Init /\ [][Next]_vars

\* A handler thread that can take a step eventually does; the DUT and the
\* test script owe nothing.
FairSpec == Spec /\ \A t \in Inquiry : WF_vars(Handle(t))
-----------------------------------------------------------------------------
(***************************************************************************)
(* Properties.                                                             *)
(***************************************************************************)
Granted(t) == reply[t].status = "200" /\ reply[t].response.code = 0

\* When the DUT sends one inquiry at a time, an inquiry is granted spectrum
\* only in an answer that carries its own requestId, only if nothing is wrong
\* with its registration information, and only spectrum it inquired about,
\* whatever set-response, set-params and reset do to the globals while the
\* handler is between two of its steps.
OwnAnswer ==
  \A t \in Inquiry : Granted(t) =>
    LET a == reply[t].response IN
    /\ a.requestId = t
    /\ body[t].json /\ body[t].faults = {}
    /\ a.spectrum.chan \subseteq FilterCfi(body[t])
    /\ a.spectrum.freq \subseteq body[t].freq

\* The test script is never told that the request it sees was invalid once
\* the handler has passed the checks: while recv_request still holds the body
\* of an inquiry that was accepted, get-status reports valid_request.
AcceptedIsReported ==
  \A t \in Inquiry :
    /\ GetStatus.receivedRequest = t
    /\ req[t] = t
    /\ pc[t] \in {"load", "hold", "copy", "stamp", "filter", "send"} \/ Granted(t)
    => GetStatus.valid_request

\* An inquiry that has been received is answered if hold_response is in the
\* end left False: no interleaving leaves a handler stuck.
Answered ==
  <>[](~hold_response) => \A t \in Inquiry : Active(t) ~> (pc[t] = "done")

\* Violated after a second set-response.  When get-status shows a request
\* that was refused, valid_request, which the scripts record as "Valid
\* mandatory registration information", is False.
RefusedIsReported ==
  \A t \in Inquiry :
    GetStatus.receivedRequest = t /\ reply[t].response.code \in {100, 102, 103}
    => ~GetStatus.valid_request
=============================================================================
