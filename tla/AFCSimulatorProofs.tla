------------------------- MODULE AFCSimulatorProofs -------------------------
(***************************************************************************)
(* Proofs about AFCSimulator, for every set of inquiries, CFIs, request    *)
(* bodies, settings and test vector files: its types; then, for a DUT that *)
(* sends one inquiry at a time, the invariant that follows the handler     *)
(* through its steps, what is sent and reported, and that the simulator    *)
(* implements AFCService.                                                  *)
(***************************************************************************)
EXTENDS AFCSimulatorService, TLAPS

\* The checks answer with one of the service's codes, and a body that passes
\* them is faultless but for an empty certificationId list (or a fault met
\* before the checks).
LEMMA RequestCodeFacts ==
  ASSUME NEW b \in BodyType
  PROVE  /\ RequestCode(b) \in {-1, 0, 100, 102, 103}
         /\ RequestCode(b) = 0 =>
              b.faults \subseteq {"unparsable", "envelope", "noCert", "rulesetType"}
         /\ RequestCode(b) = 0 /\ "rulesetType" \in b.faults => "noCert" \in b.faults
<1>1. RequestCode(b) \in {-1, 0, 100, 102, 103}
  BY DEF RequestCode
<1>2. b.faults \subseteq Fault
  BY DEF BodyType
<1>3. ASSUME RequestCode(b) = 0
      PROVE  /\ "descriptor" \notin b.faults /\ "certType" \notin b.faults
             /\ "version" \notin b.faults /\ "locationKey" \notin b.faults
             /\ "location" \notin b.faults /\ "inquired" \notin b.faults
             /\ "wrongType" \notin b.faults
  BY <1>3 DEF RequestCode
<1>4. ASSUME RequestCode(b) = 0, "rulesetType" \in b.faults
      PROVE  "noCert" \in b.faults
  BY <1>4 DEF RequestCode
<1> QED BY <1>1, <1>2, <1>3, <1>4 DEF Fault

LEMMA VectorCodeType ==
  ASSUME NEW b \in BodyType
  PROVE  VectorCode(b) \in {-1, 0, 102}
BY DEF VectorCode

\* What build_random_vector picks is a set of CFIs.
LEMMA RandomPicksType ==
  ASSUME NEW inq \in SUBSET Cfi, NEW s \in RandomPicks(inq)
  PROVE  s \in SUBSET Cfi
BY DEF RandomPicks

LEMMA InquiredType ==
  ASSUME NEW b \in BodyType
  PROVE  req_cfi_bwX(b) \in SUBSET Cfi
BY DEF req_cfi_bwX, BodyType

\* The objects a thread may dump.
LEMMA DumpedType ==
  ASSUME TypeOK
  PROVE  Dumped \in Reply
<1>1. BlankResponse \in Response
  BY DEF BlankResponse, Response, NoSpectrum, Spectrum
<1>2. CASE sent_response = Unsent
  BY <1>1, <1>2 DEF Dumped, EmptyReply, Reply
<1>3. CASE sent_response # Unsent
  BY <1>3 DEF Dumped, Reply, TypeOK
<1> QED BY <1>2, <1>3

LEMMA ErrorObjectType ==
  ASSUME NEW id \in Inquiry \cup {0}, NEW code \in {-1, 100, 102, 103}
  PROVE  ErrorObject(id, code) \in Response
BY DEF ErrorObject, Response, NoSpectrum, Spectrum

\* gen_err_resp keeps the types of what it changes.
LEMMA GenErrType ==
  ASSUME TypeOK, NEW t \in Inquiry, NEW id \in Inquiry \cup {0},
         NEW code \in {-1, 100, 102, 103}, gen_err_resp(t, id, code)
  PROVE  /\ heap' \in [Object -> Response]
         /\ sent_response' \in Object \cup {Unsent}
         /\ pc' \in [Inquiry -> Step]
<1>1. <<t, "error">> \in Object
  BY DEF Object
<1> QED BY <1>1, ErrorObjectType DEF gen_err_resp, Goto, TypeOK, Step

\* The handler has a request to work on between Parse and its answer.
ReqOK == \A t \in Inquiry :
  pc[t] \notin {"idle", "parse", "sendError", "done"} => req[t] \in Inquiry

\* "resp" is set while the handler filters.
RespOK == \A t \in Inquiry : pc[t] = "filter" => resp[t] \in Object

TypeInv == TypeOK /\ ReqOK /\ RespOK

LEMMA InitType == Init => TypeInv
<1> SUFFICES ASSUME Init PROVE TypeInv
  OBVIOUS
<1>1. BlankResponse \in Response
  BY DEF BlankResponse, Response, NoSpectrum, Spectrum
<1>2. BlankBody \in BodyType
  BY DEF BlankBody, BodyType
<1>3. NoReply \in Reply
  BY <1>1 DEF NoReply, Reply
<1>4. vectors \in [keys: SUBSET {"testCaseID", "responses", "listed"}, responses: Spectrum]
  BY DEF Init, EmptyVectors, NoSpectrum, Spectrum
<1>6. /\ heap \in [Object -> Response]
      /\ pc \in [Inquiry -> Step]
      /\ body \in [Inquiry -> BodyType]
      /\ req \in [Inquiry -> Inquiry \cup {NoBody}]
      /\ picks \in [Inquiry -> SUBSET Cfi]
      /\ resp \in [Inquiry -> Object \cup {Unsent}]
      /\ reply \in [Inquiry -> Reply]
  BY <1>1, <1>2, <1>3 DEF Init, Step
<1>7. /\ phase \in 0..2 /\ script_test_vector \in 0..3
      /\ channel_width \in {80, 160, 320}
  BY SMT DEF Init
<1>8. TypeOK
  BY <1>4, <1>6, <1>7, Zenon DEF Init, TypeOK
<1> QED BY <1>8 DEF Init, TypeInv, ReqOK, RespOK

\* The types are preserved by every step.
LEMMA NextType == TypeInv /\ [Next]_vars => TypeInv'
<1> SUFFICES ASSUME TypeInv, [Next]_vars PROVE TypeInv'
  OBVIOUS
<1> USE ConstantsAssumption DEF TypeInv
<1>0. -1 \in {-1, 100, 102, 103} /\ 102 \in {-1, 100, 102, 103}
  OBVIOUS
<1>1. ASSUME NEW t \in Inquiry, NEW b \in Body, Receive(t, b) PROVE TypeInv'
  <2>1. b \in BodyType
    OBVIOUS
  <2>2. BadRequest \in Reply
    BY DEF BadRequest, Reply, BlankResponse, Response, NoSpectrum, Spectrum
  <2>3. /\ heap' \in [Object -> Response]
        /\ sent_response' \in Object \cup {Unsent}
        /\ pc' \in [Inquiry -> Step]
    BY <1>1, <1>0, GenErrType DEF Receive, Goto, TypeOK, Step
  <2>4. /\ body' \in [Inquiry -> BodyType]
        /\ recv_request' \in Inquiry \cup {NoBody}
        /\ reply' \in [Inquiry -> Reply]
    BY <1>1, <2>1, <2>2 DEF Receive, TypeOK
  <2>5. TypeOK'
    BY <1>1, <2>3, <2>4 DEF Receive, TypeOK, settings
  <2>6. ReqOK' /\ RespOK'
    BY <1>1 DEF Receive, gen_err_resp, Goto, TypeOK, ReqOK, RespOK
  <2> QED BY <2>5, <2>6
<1>2. ASSUME NEW t \in Inquiry, Parse(t) PROVE TypeInv'
  <2>1. /\ heap' \in [Object -> Response]
        /\ sent_response' \in Object \cup {Unsent}
        /\ pc' \in [Inquiry -> Step]
        /\ req' \in [Inquiry -> Inquiry \cup {NoBody}]
    BY <1>2, <1>0, GenErrType DEF Parse, EnvelopeCodes, Goto, TypeOK, Step
  <2>2. TypeOK'
    BY <1>2, <2>1 DEF Parse, TypeOK, settings
  <2>3. ReqOK' /\ RespOK'
    BY <1>2 DEF Parse, gen_err_resp, Goto, TypeOK, ReqOK, RespOK
  <2> QED BY <2>2, <2>3
<1>3. ASSUME NEW t \in Inquiry, Validate(t) PROVE TypeInv'
  <2>1. req[t] \in Inquiry /\ body[req[t]] \in BodyType
    BY <1>3 DEF Validate, ReqOK, TypeOK
  <2>2. RequestCode(body[req[t]]) # 0 => RequestCode(body[req[t]]) \in {-1, 100, 102, 103}
    BY <2>1, RequestCodeFacts
  <2>3. /\ heap' \in [Object -> Response]
        /\ sent_response' \in Object \cup {Unsent}
        /\ pc' \in [Inquiry -> Step]
    BY <1>3, <2>1, <2>2, GenErrType DEF Validate, Goto, TypeOK, Step
  <2>4. TypeOK'
    BY <1>3, <2>3 DEF Validate, TypeOK, settings, threads
  <2>5. ReqOK' /\ RespOK'
    BY <1>3, <2>1 DEF Validate, gen_err_resp, Goto, TypeOK, ReqOK, RespOK, threads
  <2> QED BY <2>4, <2>5
<1>4. ASSUME NEW t \in Inquiry, CheckVector(t) PROVE TypeInv'
  <2>1. req[t] \in Inquiry /\ body[req[t]] \in BodyType
    BY <1>4 DEF CheckVector, ReqOK, TypeOK
  <2>2. VectorCode(body[req[t]]) # 0 => VectorCode(body[req[t]]) \in {-1, 100, 102, 103}
    BY <2>1, VectorCodeType
  <2>3. /\ heap' \in [Object -> Response]
        /\ sent_response' \in Object \cup {Unsent}
        /\ pc' \in [Inquiry -> Step]
    BY <1>4, <2>1, <2>2, GenErrType DEF CheckVector, Goto, TypeOK, Step
  <2>4. TypeOK'
    BY <1>4, <2>3 DEF CheckVector, TypeOK, settings, threads
  <2>5. ReqOK' /\ RespOK'
    BY <1>4, <2>1 DEF CheckVector, gen_err_resp, Goto, TypeOK, ReqOK, RespOK, threads
  <2> QED BY <2>4, <2>5
<1>5. ASSUME NEW t \in Inquiry, Build(t) PROVE TypeInv'
  <2>1. req[t] \in Inquiry /\ body[req[t]] \in BodyType
    BY <1>5 DEF Build, ReqOK, TypeOK
  <2>2. \A s \in RandomPicks(req_cfi_bwX(body[req[t]])) : s \in SUBSET Cfi
    BY <2>1, InquiredType, RandomPicksType
  <2>3. random_picks' \in SUBSET Cfi
    BY <1>5, <2>2 DEF Build, TypeOK
  <2>4. /\ picks' \in [Inquiry -> SUBSET Cfi]
        /\ pc' \in [Inquiry -> Step]
    BY <1>5 DEF Build, Goto, TypeOK, Step
  <2>5. TypeOK'
    BY <1>5, <2>3, <2>4 DEF Build, TypeOK, settings
  <2>6. ReqOK' /\ RespOK'
    BY <1>5, <2>1 DEF Build, Goto, TypeOK, ReqOK, RespOK
  <2> QED BY <2>5, <2>6
<1>6. ASSUME NEW t \in Inquiry, Publish(t) \/ AppendResponse(t) PROVE TypeInv'
  <2>1. vectors' \in [keys: SUBSET {"testCaseID", "responses", "listed"},
                      responses: Spectrum]
    BY <1>6 DEF Publish, AppendResponse, TypeOK, Spectrum, NoSpectrum
  <2>2. ServerError \in Reply
    BY DEF ServerError, Reply, BlankResponse, Response, NoSpectrum, Spectrum
  <2>3. /\ pc' \in [Inquiry -> Step]
        /\ picks' \in [Inquiry -> SUBSET Cfi]
        /\ reply' \in [Inquiry -> Reply]
    BY <1>6, <2>2 DEF Publish, AppendResponse, Goto, TypeOK, Step
  <2>4. TypeOK'
    BY <1>6, <2>1, <2>3 DEF Publish, AppendResponse, TypeOK, settings
  <2>5. ReqOK' /\ RespOK'
    BY <1>6 DEF Publish, AppendResponse, Goto, TypeOK, ReqOK, RespOK
  <2> QED BY <2>4, <2>5
<1>16. ASSUME NEW t \in Inquiry, Accept(t) PROVE TypeInv'
  <2>1. pc' \in [Inquiry -> Step]
    BY <1>16 DEF Accept, Goto, TypeOK, Step
  <2>2. TypeOK'
    BY <1>16, <2>1 DEF Accept, TypeOK, settings, threads
  <2>3. ReqOK' /\ RespOK'
    BY <1>16 DEF Accept, Goto, TypeOK, ReqOK, RespOK, threads
  <2> QED BY <2>2, <2>3
<1>17. ASSUME NEW t \in Inquiry, Load(t) PROVE TypeInv'
  <2>1. req[t] \in Inquiry
    BY <1>17 DEF Load, ReqOK, TypeOK
  <2>2. vectors' \in [keys: SUBSET {"testCaseID", "responses", "listed"},
                      responses: Spectrum]
    BY <1>17 DEF Load, TypeOK
  <2>3. /\ heap' \in [Object -> Response]
        /\ sent_response' \in Object \cup {Unsent}
        /\ pc' \in [Inquiry -> Step]
    BY <1>0, <1>17, <2>1, GenErrType DEF Load, Goto, TypeOK, Step
  <2>4. TypeOK'
    BY <1>17, <2>2, <2>3 DEF Load, TypeOK, settings, threads
  <2>5. ReqOK' /\ RespOK'
    BY <1>17, <2>1 DEF Load, gen_err_resp, Goto, TypeOK, ReqOK, RespOK, threads
  <2> QED BY <2>4, <2>5
<1>7. ASSUME NEW t \in Inquiry, Release(t) PROVE TypeInv'
  <2>1. pc' \in [Inquiry -> Step]
    BY <1>7 DEF Release, Goto, TypeOK, Step
  <2>2. TypeOK'
    BY <1>7, <2>1 DEF Release, TypeOK, globals, settings, threads
  <2>3. ReqOK' /\ RespOK'
    BY <1>7 DEF Release, Goto, TypeOK, ReqOK, RespOK, threads
  <2> QED BY <2>2, <2>3
<1>8. ASSUME NEW t \in Inquiry, Copy(t) PROVE TypeInv'
  <2>1. req[t] \in Inquiry /\ <<t, "answer">> \in Object
    BY <1>8 DEF Copy, ReqOK, TypeOK, Object
  <2>2. [requestId |-> 0, code |-> 0, spectrum |-> vectors.responses] \in Response
    BY DEF TypeOK, Response
  <2>3. /\ heap' \in [Object -> Response]
        /\ sent_response' \in Object \cup {Unsent}
        /\ pc' \in [Inquiry -> Step]
    <3>1. CASE "responses" \in vectors.keys
      BY <1>8, <2>1, <2>2, <3>1 DEF Copy, Goto, TypeOK, Step
    <3>2. CASE "responses" \notin vectors.keys
      BY <1>0, <1>8, <2>1, <3>2, GenErrType DEF Copy
    <3> QED BY <3>1, <3>2
  <2>4. TypeOK'
    BY <1>8, <2>3 DEF Copy, TypeOK, settings, threads
  <2>5. ReqOK' /\ RespOK'
    BY <1>8, <2>1 DEF Copy, gen_err_resp, Goto, TypeOK, ReqOK, RespOK, threads
  <2> QED BY <2>4, <2>5
<1>9. ASSUME NEW t \in Inquiry, Stamp(t) PROVE TypeInv'
  <2>1. req[t] \in Inquiry /\ <<t, "error">> \in Object
    BY <1>9 DEF Stamp, ReqOK, TypeOK, Object
  <2>2. ErrorObject(req[t], -1) \in Response
    BY <1>0, <2>1, ErrorObjectType
  <2>3. sent_response # Unsent =>
          [heap[sent_response] EXCEPT !.requestId = req[t]] \in Response
    BY <2>1 DEF TypeOK, Response
  <2>4. /\ heap' \in [Object -> Response]
        /\ sent_response' \in Object \cup {Unsent}
        /\ pc' \in [Inquiry -> Step]
        /\ resp' \in [Inquiry -> Object \cup {Unsent}]
    <3>1. CASE sent_response = Unsent
      BY <1>0, <1>9, <2>1, <3>1, GenErrType DEF Stamp, TypeOK
    <3>2. CASE sent_response # Unsent /\ "noCert" \in body[req[t]].faults
      BY <1>9, <2>1, <2>2, <2>3, <3>2 DEF Stamp, Goto, TypeOK, Step
    <3>3. CASE sent_response # Unsent /\ "noCert" \notin body[req[t]].faults
      BY <1>9, <2>1, <2>3, <3>3 DEF Stamp, Goto, TypeOK, Step
    <3> QED BY <3>1, <3>2, <3>3
  <2>5. TypeOK'
    BY <1>9, <2>4 DEF Stamp, TypeOK, settings
  <2>6. ReqOK' /\ RespOK'
    BY <1>9, <2>1 DEF Stamp, gen_err_resp, Goto, TypeOK, ReqOK, RespOK
  <2> QED BY <2>5, <2>6
<1>10. ASSUME NEW t \in Inquiry, Filter(t) PROVE TypeInv'
  <2>1. req[t] \in Inquiry /\ resp[t] \in Object
    BY <1>10 DEF Filter, ReqOK, RespOK, TypeOK
  <2>2. heap' \in [Object -> Response]
    <3> DEFINE b == body[req[t]]
               old == heap[resp[t]]
               kept == [chan |-> IF b.has_channel
                                 THEN old.spectrum.chan \cap FilterCfi(b) ELSE {},
                        freq |-> IF b.has_freq_range
                                 THEN old.spectrum.freq \cap b.freq ELSE {}]
    <3>1. old \in Response
      BY <2>1 DEF TypeOK
    <3>2. old.spectrum.chan \in SUBSET Cfi /\ old.spectrum.freq \in SUBSET Cfi
      BY <3>1 DEF Response, Spectrum
    <3>3. kept \in Spectrum
      BY <3>2 DEF Spectrum
    <3>4. [old EXCEPT !.spectrum = kept] \in Response
      BY <3>1, <3>3 DEF Response
    <3>5. heap' = [heap EXCEPT ![resp[t]] = [old EXCEPT !.spectrum = kept]]
      BY <1>10, <2>1 DEF Filter, TypeOK
    <3> QED BY <2>1, <3>4, <3>5 DEF TypeOK
  <2>3. pc' \in [Inquiry -> Step]
    BY <1>10 DEF Filter, Goto, TypeOK, Step
  <2>4. TypeOK'
    BY <1>10, <2>2, <2>3 DEF Filter, TypeOK, globals, settings, threads
  <2>5. ReqOK' /\ RespOK'
    BY <1>10, <2>1 DEF Filter, Goto, TypeOK, ReqOK, RespOK, threads
  <2> QED BY <2>4, <2>5
<1>11. ASSUME NEW t \in Inquiry, Send(t) PROVE TypeInv'
  <2>1. /\ reply' \in [Inquiry -> Reply]
        /\ picks' \in [Inquiry -> SUBSET Cfi]
        /\ resp' \in [Inquiry -> Object \cup {Unsent}]
        /\ pc' \in [Inquiry -> Step]
    BY <1>11, DumpedType DEF Send, Goto, TypeOK, Step
  <2>2. TypeOK'
    BY <1>11, <2>1 DEF Send, TypeOK, globals, settings
  <2>3. ReqOK' /\ RespOK'
    BY <1>11 DEF Send, Goto, TypeOK, ReqOK, RespOK
  <2> QED BY <2>2, <2>3
<1>12. ASSUME NEW tc \in Setting, SetResponse(tc) PROVE TypeInv'
  <2>1. IsSetting(tc)
    OBVIOUS
  <2>2. /\ filename_prefix' \in Purpose \cup {"default"}
        /\ script_test_vector' \in 0..3 /\ phase' \in 0..2
        /\ country_code' \in {"US", "CA"} /\ channel_width' \in {80, 160, 320}
    BY <1>12, <2>1 DEF SetResponse, NewExchange, IsSetting, Given, TypeOK
  <2>3. /\ hold_response' \in BOOLEAN /\ is_random' \in BOOLEAN
        /\ only_random_power' \in BOOLEAN /\ difference_last_picks' \in BOOLEAN
    BY <1>12, <2>1 DEF SetResponse, NewExchange, IsSetting, Given, TypeOK
  <2>4. vectors' \in [keys: SUBSET {"testCaseID", "responses", "listed"}, responses: Spectrum]
    BY <1>12 DEF SetResponse, NewExchange, NoSpectrum, Spectrum
  <2>5. TypeOK'
    BY <1>12, <2>2, <2>3, <2>4 DEF SetResponse, NewExchange, TypeOK, threads
  <2>6. ReqOK' /\ RespOK'
    BY <1>12 DEF SetResponse, NewExchange, ReqOK, RespOK, threads
  <2> QED BY <2>5, <2>6
<1>13. ASSUME NEW h \in BOOLEAN, SetParams(h) PROVE TypeInv'
  <2>1. TypeOK'
    BY <1>13 DEF SetParams, TypeOK, settings, threads
  <2>2. ReqOK' /\ RespOK'
    BY <1>13 DEF SetParams, ReqOK, RespOK, threads
  <2> QED BY <2>1, <2>2
<1>14. ASSUME Reset PROVE TypeInv'
  <2>1. vectors' \in [keys: SUBSET {"testCaseID", "responses", "listed"}, responses: Spectrum]
    BY <1>14 DEF Reset, NewExchange, EmptyVectors, NoSpectrum, Spectrum
  <2>2. phase' \in 0..2 /\ script_test_vector' \in 0..3
        /\ channel_width' \in {80, 160, 320}
    BY <1>14 DEF Reset, NewExchange
  <2>3. TypeOK'
    BY <1>14, <2>1, <2>2 DEF Reset, NewExchange, TypeOK, threads
  <2>4. ReqOK' /\ RespOK'
    BY <1>14 DEF Reset, NewExchange, ReqOK, RespOK, threads
  <2> QED BY <2>3, <2>4
<1>15. CASE UNCHANGED vars
  BY <1>15 DEF vars, globals, settings, threads, TypeOK, ReqOK, RespOK
<1> QED
  BY <1>1, <1>2, <1>3, <1>4, <1>5, <1>6, <1>7, <1>8, <1>9, <1>10, <1>11, <1>12,
     <1>13, <1>14, <1>15, <1>16, <1>17 DEF Next, Handle

\* Every global, response object and handler thread keeps its type: in
\* particular no step dereferences an absent request or response.
THEOREM TypeCorrect == Spec => []TypeOK
<1>1. TypeInv => TypeOK
  BY DEF TypeInv
<1> QED BY <1>1, InitType, NextType, PTL DEF Spec
-----------------------------------------------------------------------------
(***************************************************************************)
(* A DUT that sends one inquiry at a time (~Overlap).  The test script     *)
(* stays unconstrained: set-response, set-params and reset may come        *)
(* between any two steps of the handler.                                   *)
(***************************************************************************)
\* At most one handler thread is at work.
OneAtATime == \A t, u \in Inquiry : Active(t) /\ Active(u) => t = u

Checked == {"check", "build", "publish", "append", "accept", "load", "hold",
            "copy", "stamp", "filter", "send"}

\* Only a finished handler has answered.
AnsweredWhenDone(t) == reply[t].status # "none" => pc[t] = "done"

\* The handler reads back the body it stored, unless that was cleared.
ReadsOwnBody(t) ==
  /\ pc[t] = "parse" => /\ recv_request \in {t, NoBody}
                        /\ body[t].json /\ "unparsable" \notin body[t].faults
  /\ pc[t] \in Checked \cup {"validate"} =>
       /\ req[t] = t
       /\ body[t].json
       /\ "unparsable" \notin body[t].faults /\ "envelope" \notin body[t].faults

\* What the checks let through.  An empty certificationId list is noticed
\* only when ruleset_ids[0] is stamped.
PassedChecks(t) ==
  /\ pc[t] \in Checked /\ body[t].faults # {} => "noCert" \in body[t].faults
  /\ pc[t] \in {"filter", "send"} => body[t].faults = {}

\* sent_response refers to the object the handler is filling, unless that
\* was cleared.
FillsOwnObject(t) ==
  /\ pc[t] \in {"stamp", "filter", "send"} =>
       sent_response \in {<<t, "answer">>, Unsent}
  /\ pc[t] = "filter" => resp[t] = <<t, "answer">>
  /\ pc[t] \in {"filter", "send"} => heap[<<t, "answer">>].requestId = t
  /\ pc[t] = "send" =>
       LET s == heap[<<t, "answer">>].spectrum IN
       s.chan \subseteq FilterCfi(body[t]) /\ s.freq \subseteq body[t].freq
  /\ pc[t] = "sendError" => /\ sent_response \in {<<t, "error">>, Unsent}
                            /\ heap[<<t, "error">>].code # 0

HandlerInv(t) == /\ AnsweredWhenDone(t)
                 /\ ReadsOwnBody(t)
                 /\ PassedChecks(t)
                 /\ FillsOwnObject(t)

SequentialInv == /\ OneAtATime
                 /\ \A t \in Inquiry : HandlerInv(t)
                 /\ OwnAnswer
-----------------------------------------------------------------------------
\* No other thread is at work, and what is known of the others is unchanged.
OthersRest(t) ==
  \A u \in Inquiry \ {t} : /\ ~Active(u)
                           /\ pc'[u] = pc[u]
                           /\ body'[u] = body[u]
                           /\ reply'[u] = reply[u]

LEMMA HandlerFrame ==
  ASSUME TypeInv, OneAtATime, ~Overlap, NEW t \in Inquiry,
         (\E b \in Body : Receive(t, b)) \/ Handle(t)
  PROVE  OthersRest(t)
<1>1. CASE \E b \in Body : Receive(t, b)
  BY <1>1 DEF Receive, gen_err_resp, Goto, OthersRest, TypeInv, TypeOK, Active
<1>2. CASE Handle(t)
  <2>1. Active(t)
    BY <1>2 DEF Handle, Parse, Validate, CheckVector, Build, Publish, AppendResponse,
                Accept, Load, Release, Copy, Stamp, Filter, Send, Active
  <2>2. \A u \in Inquiry \ {t} : ~Active(u)
    BY <2>1 DEF OneAtATime
  <2>3. \A u \in Inquiry \ {t} : pc'[u] = pc[u]
    BY <1>2 DEF Handle, Parse, Validate, CheckVector, Build, Publish, AppendResponse,
                Accept, Load, Release, Copy, Stamp, Filter, Send, gen_err_resp, Goto, TypeInv, TypeOK
  <2>4. \A u \in Inquiry \ {t} : body'[u] = body[u] /\ reply'[u] = reply[u]
    BY <1>2 DEF Handle, Parse, Validate, CheckVector, Build, Publish, AppendResponse,
                Accept, Load, Release, Copy, Stamp, Filter, Send, threads, TypeInv, TypeOK
  <2> QED BY <2>2, <2>3, <2>4 DEF OthersRest
<1> QED BY <1>1, <1>2

\* It is enough to look at the thread that takes the step.
LEMMA OthersKeepInv ==
  ASSUME TypeInv, SequentialInv, NEW t \in Inquiry, OthersRest(t),
         HandlerInv(t)',
         Granted(t)' => /\ reply'[t].response.requestId = t
                        /\ body'[t].json /\ body'[t].faults = {}
                        /\ reply'[t].response.spectrum.chan \subseteq FilterCfi(body'[t])
                        /\ reply'[t].response.spectrum.freq \subseteq body'[t].freq
  PROVE  SequentialInv'
<1>1. OneAtATime'
  BY DEF OthersRest, OneAtATime, Active
<1>2. ASSUME NEW u \in Inquiry PROVE HandlerInv(u)'
  <2>1. CASE u = t
    BY <2>1
  <2>2. CASE u # t
    <3>1. pc'[u] \in {"idle", "done"} /\ reply'[u] = reply[u] /\ pc'[u] = pc[u]
      BY <2>2 DEF OthersRest, Active
    <3>2. AnsweredWhenDone(u)'
      BY <3>1 DEF SequentialInv, HandlerInv, AnsweredWhenDone
    <3> QED
      BY <3>1, <3>2 DEF HandlerInv, ReadsOwnBody, PassedChecks, FillsOwnObject,
                        Checked
  <2> QED BY <2>1, <2>2
<1>3. OwnAnswer'
  BY DEF SequentialInv, OwnAnswer, OthersRest, Granted
<1> QED BY <1>1, <1>2, <1>3 DEF SequentialInv

LEMMA InitSequential == Init => SequentialInv
BY DEF Init, SequentialInv, OneAtATime, Active, HandlerInv, AnsweredWhenDone,
       ReadsOwnBody, PassedChecks, FillsOwnObject, Checked, OwnAnswer, Granted,
       NoReply

LEMMA NextSequential ==
  ASSUME ~Overlap, TypeInv, TypeInv', SequentialInv, [Next]_vars
  PROVE  SequentialInv'
<1> USE DEF TypeInv
<1> DEFINE Steps(t) == (\E b \in Body : Receive(t, b)) \/ Handle(t)
<1>0. ASSUME NEW t \in Inquiry PROVE HandlerInv(t)
  BY DEF SequentialInv
<1>a. ASSUME NEW t \in Inquiry, Steps(t) PROVE OthersRest(t)
  BY <1>a, HandlerFrame DEF SequentialInv
\* A thread that has just failed has an error object of its own.
<1>b. ASSUME NEW t \in Inquiry, NEW id, NEW code \in {-1, 100, 102, 103},
             gen_err_resp(t, id, code)
      PROVE  /\ pc'[t] = "sendError" /\ sent_response' = <<t, "error">>
             /\ heap'[<<t, "error">>].code # 0
  BY <1>b DEF gen_err_resp, Goto, ErrorObject, TypeOK, Object
\* A step that fails needs nothing more.
<1>c. ASSUME NEW t \in Inquiry, Steps(t), reply'[t] = reply[t], pc[t] # "done",
             pc'[t] = "sendError", sent_response' = <<t, "error">>,
             heap'[<<t, "error">>].code # 0
      PROVE  SequentialInv'
  <2>1. reply[t].status = "none"
    BY <1>0, <1>c DEF HandlerInv, AnsweredWhenDone
  <2>2. HandlerInv(t)' /\ ~Granted(t)'
    BY <1>c, <2>1 DEF HandlerInv, AnsweredWhenDone, ReadsOwnBody, PassedChecks,
                      FillsOwnObject, Checked, Granted
  <2> QED BY <1>a, <1>c, <2>2, OthersKeepInv
\* Before the answer is sent nothing is granted.
<1>d. ASSUME NEW t \in Inquiry, Steps(t), reply'[t] = reply[t], pc[t] # "done",
             ReadsOwnBody(t)', PassedChecks(t)', FillsOwnObject(t)'
      PROVE  SequentialInv'
  <2>1. reply[t].status = "none"
    BY <1>0, <1>d DEF HandlerInv, AnsweredWhenDone
  <2>2. HandlerInv(t)' /\ ~Granted(t)'
    BY <1>d, <2>1 DEF HandlerInv, AnsweredWhenDone, Granted
  <2> QED BY <1>a, <1>d, <2>2, OthersKeepInv
<1>e. -1 \in {-1, 100, 102, 103} /\ 102 \in {-1, 100, 102, 103}
  OBVIOUS
<1>1. ASSUME NEW t \in Inquiry, NEW b \in Body, Receive(t, b)
      PROVE  SequentialInv'
  <2>1. CASE ~b.json
    <3>1. reply'[t] = BadRequest /\ pc'[t] = "done"
      BY <1>1, <2>1 DEF Receive, Goto, TypeOK
    <3>2. HandlerInv(t)' /\ ~Granted(t)'
      BY <3>1 DEF HandlerInv, AnsweredWhenDone, ReadsOwnBody, PassedChecks,
                  FillsOwnObject, Checked, Granted, BadRequest
    <3> QED BY <1>1, <1>a, <3>2, OthersKeepInv
  <2>2. CASE b.json /\ "unparsable" \in b.faults
    BY <1>1, <1>b, <1>c, <1>e, <2>2 DEF Receive
  <2>3. CASE b.json /\ "unparsable" \notin b.faults
    <3>1. pc'[t] = "parse" /\ body'[t] = b /\ recv_request' = t
          /\ reply'[t] = reply[t] /\ pc[t] # "done"
      BY <1>1, <2>3 DEF Receive, Goto, TypeOK
    <3>2. ReadsOwnBody(t)' /\ PassedChecks(t)' /\ FillsOwnObject(t)'
      BY <2>3, <3>1 DEF ReadsOwnBody, PassedChecks, FillsOwnObject, Checked
    <3> QED BY <1>1, <1>d, <3>1, <3>2
  <2> QED BY <2>1, <2>2, <2>3
<1>2. ASSUME NEW t \in Inquiry, Parse(t) PROVE SequentialInv'
  <2>0. pc[t] = "parse" /\ recv_request \in {t, NoBody} /\ reply'[t] = reply[t]
        /\ body'[t] = body[t] /\ body[t].json /\ "unparsable" \notin body[t].faults
    BY <1>0, <1>2 DEF Parse, HandlerInv, ReadsOwnBody
  <2>1. CASE recv_request = NoBody \/ "envelope" \in body[recv_request].faults
    <3>1. PICK code \in EnvelopeCodes : gen_err_resp(t, 0, code)
      BY <1>2, <2>1 DEF Parse
    <3>2. code \in {-1, 102}
      BY DEF EnvelopeCodes
    <3>3. /\ pc'[t] = "sendError" /\ sent_response' = <<t, "error">>
          /\ heap'[<<t, "error">>].code # 0
      BY <1>b, <3>1, <3>2
    <3> QED BY <1>2, <1>c, <2>0, <3>3 DEF Handle
  <2>2. CASE ~(recv_request = NoBody \/ "envelope" \in body[recv_request].faults)
    <3>1. pc'[t] = "validate" /\ req'[t] = t /\ "envelope" \notin body[t].faults
      BY <1>2, <2>0, <2>2 DEF Parse, Goto, TypeOK
    <3>2. ReadsOwnBody(t)' /\ PassedChecks(t)' /\ FillsOwnObject(t)'
      BY <2>0, <3>1 DEF ReadsOwnBody, PassedChecks, FillsOwnObject, Checked
    <3> QED BY <1>2, <1>d, <2>0, <3>2 DEF Handle
  <2> QED BY <2>1, <2>2
<1>3. ASSUME NEW t \in Inquiry, Validate(t) PROVE SequentialInv'
  <2>0. /\ pc[t] = "validate" /\ reply'[t] = reply[t] /\ body'[t] = body[t]
        /\ req[t] = t /\ req'[t] = t /\ body[t].json /\ body[t] \in BodyType
        /\ "unparsable" \notin body[t].faults /\ "envelope" \notin body[t].faults
    BY <1>0, <1>3 DEF Validate, HandlerInv, ReadsOwnBody, threads, TypeOK
  <2>1. CASE RequestCode(body[t]) # 0
    <3>1. RequestCode(body[t]) \in {-1, 100, 102, 103}
      BY <2>0, <2>1, RequestCodeFacts
    <3>2. gen_err_resp(t, t, RequestCode(body[t]))
      BY <1>3, <2>0, <2>1 DEF Validate
    <3>3. /\ pc'[t] = "sendError" /\ sent_response' = <<t, "error">>
          /\ heap'[<<t, "error">>].code # 0
      BY <1>b, <3>1, <3>2
    <3> QED BY <1>3, <1>c, <2>0, <3>3 DEF Handle
  <2>2. CASE RequestCode(body[t]) = 0
    <3>1. pc'[t] = "check"
      BY <1>3, <2>0, <2>2 DEF Validate, Goto, TypeOK
    <3>2. body[t].faults # {} => "noCert" \in body[t].faults
      BY <2>0, <2>2, RequestCodeFacts
    <3>3. ReadsOwnBody(t)' /\ PassedChecks(t)' /\ FillsOwnObject(t)'
      BY <2>0, <3>1, <3>2 DEF ReadsOwnBody, PassedChecks, FillsOwnObject, Checked
    <3> QED BY <1>3, <1>d, <2>0, <3>3 DEF Handle
  <2> QED BY <2>1, <2>2
\* Steps that keep the request and do not touch sent_response.
<1>4. ASSUME NEW t \in Inquiry, reply'[t] = reply[t],
             Build(t) \/ Publish(t) \/ AppendResponse(t) \/ Accept(t) \/ Release(t)
      PROVE  SequentialInv'
  <2>1. /\ pc[t] \in Checked
        /\ pc'[t] \in {"publish", "append", "accept", "load", "copy", "done"}
        /\ body'[t] = body[t] /\ req'[t] = req[t]
    BY <1>4 DEF Build, Publish, AppendResponse, Accept, Release, Goto, threads, Checked,
                TypeOK
  <2>2. ReadsOwnBody(t) /\ PassedChecks(t)
    BY <1>0 DEF HandlerInv
  <2>3. ReadsOwnBody(t)' /\ PassedChecks(t)' /\ FillsOwnObject(t)'
    BY <2>1, <2>2 DEF ReadsOwnBody, PassedChecks, FillsOwnObject, Checked
  <2> QED BY <1>4, <1>d, <2>1, <2>3 DEF Handle, Checked
<1>15. ASSUME NEW t \in Inquiry, AppendResponse(t), reply'[t] = ServerError,
              pc'[t] = "done"
       PROVE  SequentialInv'
  <2>1. HandlerInv(t)' /\ ~Granted(t)'
    BY <1>15 DEF HandlerInv, AnsweredWhenDone, ReadsOwnBody, PassedChecks,
                 FillsOwnObject, Checked, Granted, ServerError
  <2> QED BY <1>15, <1>a, <2>1, OthersKeepInv DEF Handle
<1>16. ASSUME NEW t \in Inquiry,
              Build(t) \/ Publish(t) \/ AppendResponse(t) \/ Accept(t) \/ Release(t)
       PROVE  SequentialInv'
  <2>1. CASE AppendResponse(t)
    <3>1. reply'[t] = reply[t] \/ (reply'[t] = ServerError /\ pc'[t] = "done")
      BY <2>1 DEF AppendResponse, Goto, TypeOK
    <3> QED BY <1>4, <1>15, <2>1, <3>1
  <2>2. CASE Build(t) \/ Publish(t) \/ Accept(t) \/ Release(t)
    <3>1. reply'[t] = reply[t]
      BY <2>2 DEF Build, Publish, Accept, Release, threads
    <3> QED BY <1>4, <2>2, <3>1
  <2> QED BY <1>16, <2>1, <2>2
\* Steps that may fail or go on without touching sent_response.
<1>17. ASSUME NEW t \in Inquiry, CheckVector(t) PROVE SequentialInv'
  <2>0. /\ pc[t] = "check" /\ reply'[t] = reply[t] /\ body'[t] = body[t]
        /\ req[t] = t /\ req'[t] = t /\ body[t] \in BodyType
    BY <1>0, <1>17 DEF CheckVector, HandlerInv, ReadsOwnBody, Checked, threads,
                       TypeOK
  <2>1. CASE VectorCode(body[t]) # 0
    <3>1. VectorCode(body[t]) \in {-1, 100, 102, 103}
      BY <2>0, <2>1, VectorCodeType
    <3>2. gen_err_resp(t, t, VectorCode(body[t]))
      BY <1>17, <2>0, <2>1 DEF CheckVector
    <3>3. /\ pc'[t] = "sendError" /\ sent_response' = <<t, "error">>
          /\ heap'[<<t, "error">>].code # 0
      BY <1>b, <3>1, <3>2
    <3> QED BY <1>17, <1>c, <2>0, <3>3 DEF Handle
  <2>2. CASE VectorCode(body[t]) = 0
    <3>1. pc'[t] \in {"build", "accept"}
      BY <1>17, <2>0, <2>2 DEF CheckVector, Goto, TypeOK
    <3>2. ReadsOwnBody(t) /\ PassedChecks(t)
      BY <1>0 DEF HandlerInv
    <3>3. ReadsOwnBody(t)' /\ PassedChecks(t)' /\ FillsOwnObject(t)'
      BY <2>0, <3>1, <3>2 DEF ReadsOwnBody, PassedChecks, FillsOwnObject, Checked
    <3> QED BY <1>17, <1>d, <2>0, <3>3 DEF Handle
  <2> QED BY <2>1, <2>2
<1>5. ASSUME NEW t \in Inquiry, Load(t) PROVE SequentialInv'
  <2>1. /\ pc[t] = "load" /\ reply'[t] = reply[t] /\ body'[t] = body[t]
        /\ req'[t] = req[t]
    BY <1>5 DEF Load, threads
  <2>2. CASE gen_err_resp(t, req[t], -1)
    BY <1>5, <1>b, <1>c, <1>e, <2>1, <2>2 DEF Handle
  <2>3. CASE pc' = [pc EXCEPT ![t] = "hold"]
    <3>1. pc'[t] = "hold"
      BY <2>3 DEF TypeOK
    <3>2. ReadsOwnBody(t) /\ PassedChecks(t)
      BY <1>0 DEF HandlerInv
    <3>3. ReadsOwnBody(t)' /\ PassedChecks(t)' /\ FillsOwnObject(t)'
      BY <2>1, <3>1, <3>2 DEF ReadsOwnBody, PassedChecks, FillsOwnObject, Checked
    <3> QED BY <1>5, <1>d, <2>1, <3>3 DEF Handle
  <2> QED BY <1>5, <2>2, <2>3 DEF Load, Goto
<1>6. ASSUME NEW t \in Inquiry, Copy(t) PROVE SequentialInv'
  <2>1. /\ pc[t] = "copy" /\ reply'[t] = reply[t] /\ body'[t] = body[t]
        /\ req'[t] = req[t]
    BY <1>6 DEF Copy, threads
  <2>2. CASE gen_err_resp(t, req[t], -1)
    BY <1>6, <1>b, <1>c, <1>e, <2>1, <2>2 DEF Handle
  <2>3. CASE /\ pc' = [pc EXCEPT ![t] = "stamp"]
             /\ sent_response' \in {<<t, "answer">>, Unsent}
    <3>1. pc'[t] = "stamp"
      BY <2>3 DEF TypeOK
    <3>2. ReadsOwnBody(t) /\ PassedChecks(t)
      BY <1>0 DEF HandlerInv
    <3>3. ReadsOwnBody(t)' /\ PassedChecks(t)' /\ FillsOwnObject(t)'
      BY <2>1, <2>3, <3>1, <3>2 DEF ReadsOwnBody, PassedChecks, FillsOwnObject, Checked
    <3> QED BY <1>6, <1>d, <2>1, <3>3 DEF Handle
  <2> QED BY <1>6, <2>2, <2>3 DEF Copy, Goto
<1>7. ASSUME NEW t \in Inquiry, Stamp(t) PROVE SequentialInv'
  <2>1. /\ pc[t] = "stamp" /\ reply'[t] = reply[t] /\ body'[t] = body[t]
        /\ req'[t] = req[t] /\ req[t] = t
        /\ sent_response \in {<<t, "answer">>, Unsent}
    BY <1>7, <1>0 DEF Stamp, HandlerInv, ReadsOwnBody, FillsOwnObject, Checked
  <2>2. CASE gen_err_resp(t, req[t], -1)
    BY <1>7, <1>b, <1>c, <1>e, <2>1, <2>2 DEF Handle
  <2>3. CASE sent_response # Unsent /\ "noCert" \in body[t].faults
    <3>1. /\ pc'[t] = "sendError" /\ sent_response' = <<t, "error">>
          /\ heap'[<<t, "error">>] = ErrorObject(t, -1)
      BY <1>7, <2>1, <2>3 DEF Stamp, Goto, TypeOK, Object
    <3>2. heap'[<<t, "error">>].code # 0
      BY <3>1 DEF ErrorObject
    <3> QED BY <1>7, <1>c, <2>1, <3>1, <3>2 DEF Handle
  <2>4. CASE sent_response # Unsent /\ "noCert" \notin body[t].faults
    <3>1. /\ pc'[t] = "filter" /\ sent_response' = <<t, "answer">>
          /\ resp'[t] = <<t, "answer">>
      BY <1>7, <2>1, <2>4 DEF Stamp, Goto, TypeOK, Object
    <3>2. heap'[<<t, "answer">>].requestId = t
      BY <1>7, <2>1, <2>4 DEF Stamp, TypeOK, Object, Response
    <3>3. ReadsOwnBody(t) /\ PassedChecks(t)
      BY <1>0 DEF HandlerInv
    <3>4. body[t].faults = {}
      BY <2>1, <2>4, <3>3 DEF PassedChecks, Checked
    <3>5. ReadsOwnBody(t)' /\ PassedChecks(t)' /\ FillsOwnObject(t)'
      BY <2>1, <3>1, <3>2, <3>3, <3>4
      DEF ReadsOwnBody, PassedChecks, FillsOwnObject, Checked
    <3> QED BY <1>7, <1>d, <2>1, <3>5 DEF Handle
  <2> QED BY <1>7, <2>1, <2>2, <2>3, <2>4 DEF Stamp
<1>8. ASSUME NEW t \in Inquiry, Filter(t) PROVE SequentialInv'
  <2>0. /\ pc[t] = "filter" /\ reply'[t] = reply[t] /\ body'[t] = body[t]
        /\ req'[t] = req[t] /\ sent_response' = sent_response
    BY <1>8 DEF Filter, threads, globals
  <2>1. /\ pc'[t] = "send" /\ req[t] = t /\ resp[t] = <<t, "answer">>
        /\ heap[<<t, "answer">>].requestId = t
        /\ sent_response \in {<<t, "answer">>, Unsent}
    <3>1. pc'[t] = "send"
      BY <1>8 DEF Filter, Goto, TypeOK
    <3> QED
      BY <1>0, <2>0, <3>1 DEF HandlerInv, ReadsOwnBody, FillsOwnObject, Checked
  <2>2. <<t, "answer">> \in Object /\ heap[<<t, "answer">>] \in Response
        /\ body[t] \in BodyType
    BY DEF Object, TypeOK
  <2>3. heap'[<<t, "answer">>].requestId = t
    BY <1>8, <2>1, <2>2 DEF Filter, TypeOK, Response
  <2>4. /\ heap'[<<t, "answer">>].spectrum.chan \subseteq FilterCfi(body[t])
        /\ heap'[<<t, "answer">>].spectrum.freq \subseteq body[t].freq
    BY <1>8, <2>1, <2>2 DEF Filter, TypeOK, Response, Spectrum
  <2>5. ReadsOwnBody(t) /\ PassedChecks(t)
    BY <1>0 DEF HandlerInv
  <2>6. ReadsOwnBody(t)' /\ PassedChecks(t)' /\ FillsOwnObject(t)'
    BY <2>0, <2>1, <2>3, <2>4, <2>5
    DEF ReadsOwnBody, PassedChecks, FillsOwnObject, Checked
  <2> QED BY <1>8, <1>d, <2>0, <2>6 DEF Handle
\* The only step that can grant anything.
<1>9. ASSUME NEW t \in Inquiry, Send(t) PROVE SequentialInv'
  <2>1. /\ pc[t] \in {"send", "sendError"} /\ pc'[t] = "done"
        /\ reply'[t] = Dumped /\ body'[t] = body[t]
    BY <1>9 DEF Send, Goto, TypeOK
  <2>2. HandlerInv(t)'
    BY <2>1 DEF HandlerInv, AnsweredWhenDone, ReadsOwnBody, PassedChecks,
                FillsOwnObject, Checked
  <2>3. CASE sent_response = Unsent
    <3>1. ~Granted(t)'
      BY <2>1, <2>3 DEF Dumped, EmptyReply, Granted
    <3> QED BY <1>9, <1>a, <2>2, <3>1, OthersKeepInv DEF Handle
  <2>4. CASE sent_response # Unsent /\ pc[t] = "sendError"
    <3>1. sent_response = <<t, "error">> /\ heap[<<t, "error">>].code # 0
      BY <1>0, <2>4 DEF HandlerInv, FillsOwnObject
    <3>2. ~Granted(t)'
      BY <2>1, <2>4, <3>1 DEF Dumped, Granted
    <3> QED BY <1>9, <1>a, <2>2, <3>2, OthersKeepInv DEF Handle
  <2>5. CASE sent_response # Unsent /\ pc[t] = "send"
    <3>1. HandlerInv(t)
      BY <1>0
    <3>2. /\ sent_response = <<t, "answer">>
          /\ heap[<<t, "answer">>].requestId = t
          /\ heap[<<t, "answer">>].spectrum.chan \subseteq FilterCfi(body[t])
          /\ heap[<<t, "answer">>].spectrum.freq \subseteq body[t].freq
          /\ body[t].json /\ body[t].faults = {}
      BY <2>5, <3>1 DEF HandlerInv, FillsOwnObject, PassedChecks, ReadsOwnBody,
                        Checked
    <3>3. reply'[t].response = heap[<<t, "answer">>]
      BY <2>1, <2>5, <3>2 DEF Dumped
    <3> QED BY <1>9, <1>a, <2>1, <2>2, <3>2, <3>3, OthersKeepInv DEF Handle
  <2> QED BY <2>1, <2>3, <2>4, <2>5
\* The script clears recv_request and sent_response, and touches no thread.
<1>10. ASSUME /\ UNCHANGED <<heap, pc, threads>>
              /\ recv_request' \in {recv_request, NoBody}
              /\ sent_response' \in {sent_response, Unsent}
       PROVE  SequentialInv'
  <2>1. OneAtATime' /\ OwnAnswer'
    BY <1>10 DEF SequentialInv, OneAtATime, OwnAnswer, Active, Granted, threads
  <2>2. ASSUME NEW t \in Inquiry PROVE HandlerInv(t)'
    BY <1>0, <1>10 DEF HandlerInv, AnsweredWhenDone, ReadsOwnBody, PassedChecks,
                       FillsOwnObject, Checked, threads
  <2> QED BY <2>1, <2>2 DEF SequentialInv
<1>11. ASSUME NEW tc \in Setting, SetResponse(tc) PROVE SequentialInv'
  BY <1>10, <1>11 DEF SetResponse, NewExchange
<1>12. ASSUME NEW h \in BOOLEAN, SetParams(h) PROVE SequentialInv'
  BY <1>10, <1>12 DEF SetParams
<1>13. CASE Reset
  BY <1>10, <1>13 DEF Reset, NewExchange
<1>14. CASE UNCHANGED vars
  BY <1>10, <1>14 DEF vars, globals
<1> QED
  BY <1>1, <1>2, <1>3, <1>5, <1>6, <1>7, <1>8, <1>9, <1>11, <1>12, <1>13, <1>14,
     <1>16, <1>17
  DEF Next, Handle

\* A DUT that waits for its answer before it sends the next inquiry is only
\* ever granted its own answer (OwnAnswer): the handler's unlocked use of
\* recv_request and sent_response is harmless against set-response,
\* set-params and reset, and needs a second inquiry to go wrong.
THEOREM OwnAnswerSequential ==
  ASSUME ~Overlap PROVE Spec => []OwnAnswer
<1>1. Init => TypeInv /\ SequentialInv
  BY InitType, InitSequential
<1>2. TypeInv /\ SequentialInv /\ [Next]_vars => (TypeInv /\ SequentialInv)'
  BY NextType, NextSequential
<1>3. SequentialInv => OwnAnswer
  BY DEF SequentialInv
<1> QED BY <1>1, <1>2, <1>3, PTL DEF Spec
-----------------------------------------------------------------------------
\* The reason get-status never calls an accepted request invalid: only reset
\* clears valid_request, and it clears recv_request with it.
Reported(t) ==
  /\ recv_request = t
  /\ pc[t] \in {"load", "hold", "copy", "stamp", "filter", "send"} \/ Granted(t)
  => valid_request

LEMMA NextReported ==
  ASSUME ~Overlap, TypeInv, SequentialInv, \A t \in Inquiry : Reported(t),
         [Next]_vars
  PROVE  \A t \in Inquiry : Reported(t)'
<1> USE DEF TypeInv
<1> SUFFICES ASSUME NEW u \in Inquiry, Reported(u) PROVE Reported(u)'
  OBVIOUS
<1>0. NoBody # u
  BY ConstantsAssumption
<1>1. ASSUME NEW t \in Inquiry, NEW b \in Body, Receive(t, b)
      PROVE  Reported(u)'
  <2>1. CASE t # u
    <3>1. pc'[u] = pc[u] /\ reply'[u] = reply[u] /\ valid_request' = valid_request
      BY <1>1, <2>1 DEF Receive, gen_err_resp, Goto, TypeOK
    <3>2. recv_request' = u => recv_request = u
      BY <1>0, <1>1, <2>1 DEF Receive
    <3> QED BY <3>1, <3>2 DEF Reported, Granted
  <2>2. CASE t = u
    <3>1. pc'[u] \in {"parse", "sendError", "done"} /\ pc[u] = "idle"
      BY <1>1, <2>2 DEF Receive, gen_err_resp, Goto, TypeOK
    <3>2. reply'[u] \in {reply[u], BadRequest}
      BY <1>1, <2>2 DEF Receive, TypeOK
    <3>3. reply[u].status = "none"
      BY <3>1 DEF SequentialInv, HandlerInv, AnsweredWhenDone
    <3> QED BY <3>1, <3>2, <3>3 DEF Reported, Granted, BadRequest
  <2> QED BY <2>1, <2>2
<1>2. ASSUME NEW t \in Inquiry, Handle(t) PROVE Reported(u)'
  <2>1. recv_request' = recv_request /\ (valid_request => valid_request')
    BY <1>2 DEF Handle, Parse, Validate, CheckVector, Build, Publish, AppendResponse,
                Accept, Load, Release, Copy, Stamp, Filter, Send, globals
  <2>2. CASE t # u
    <3>1. pc'[u] = pc[u] /\ reply'[u] = reply[u]
      BY <1>2, <2>2, HandlerFrame DEF SequentialInv, OthersRest
    <3> QED BY <2>1, <3>1 DEF Reported, Granted
  <2>3. CASE t = u /\ Accept(t)
    BY <2>3 DEF Accept, Reported
  <2>4. CASE t = u /\ (Parse(t) \/ Validate(t) \/ CheckVector(t) \/ Build(t)
                       \/ Publish(t) \/ AppendResponse(t))
    <3>1. pc[u] # "done"
      BY <2>4 DEF Parse, Validate, CheckVector, Build, Publish, AppendResponse
    <3>2. reply[u].status = "none"
      BY <3>1 DEF SequentialInv, HandlerInv, AnsweredWhenDone
    <3>3. /\ pc'[u] \in {"validate", "check", "build", "publish", "append",
                         "accept", "sendError", "done"}
          /\ reply'[u] \in {reply[u], ServerError}
      BY <2>4 DEF Parse, Validate, CheckVector, Build, Publish, AppendResponse,
                  gen_err_resp, Goto, threads, TypeOK
    <3> QED BY <3>2, <3>3 DEF Reported, Granted, ServerError
  <2>5. CASE t = u /\ (Load(t) \/ Release(t) \/ Copy(t) \/ Stamp(t) \/ Filter(t))
    <3>1. /\ pc[u] \in {"load", "hold", "copy", "stamp", "filter"}
          /\ reply'[u] = reply[u]
      BY <2>5 DEF Load, Release, Copy, Stamp, Filter, threads
    <3> QED BY <2>1, <3>1 DEF Reported
  <2>6. CASE t = u /\ Send(t)
    <3>1. CASE pc[u] = "send"
      BY <2>1, <3>1 DEF Reported
    <3>2. CASE pc[u] = "sendError"
      <4>1. reply'[u] = Dumped
        BY <2>6 DEF Send, TypeOK
      <4>2. sent_response \in {<<u, "error">>, Unsent}
            /\ heap[<<u, "error">>].code # 0
        BY <3>2 DEF SequentialInv, HandlerInv, FillsOwnObject
      <4>3. ~Granted(u)'
        BY <4>1, <4>2 DEF Granted, Dumped, EmptyReply
      <4>4. pc'[u] = "done"
        BY <2>6 DEF Send, Goto, TypeOK
      <4> QED BY <4>3, <4>4 DEF Reported
    <3> QED BY <2>6, <3>1, <3>2 DEF Send
  <2> QED BY <1>2, <2>2, <2>3, <2>4, <2>5, <2>6 DEF Handle
<1>3. ASSUME NEW tc \in Setting, SetResponse(tc) PROVE Reported(u)'
  BY <1>0, <1>3 DEF SetResponse, NewExchange, Reported
<1>4. ASSUME NEW h \in BOOLEAN, SetParams(h) PROVE Reported(u)'
  BY <1>4 DEF SetParams, Reported, Granted, threads
<1>5. CASE Reset
  BY <1>0, <1>5 DEF Reset, NewExchange, Reported
<1>6. CASE UNCHANGED vars
  BY <1>6 DEF vars, globals, threads, Reported, Granted
<1> QED BY <1>1, <1>2, <1>3, <1>4, <1>5, <1>6 DEF Next

\* With a DUT that sends one inquiry at a time, get-status reports
\* valid_request for every accepted request it shows, at every moment.
THEOREM AcceptedIsReportedSequential ==
  ASSUME ~Overlap PROVE Spec => []AcceptedIsReported
<1> DEFINE Inv == TypeInv /\ SequentialInv /\ \A t \in Inquiry : Reported(t)
<1>1. Init => Inv
  <2>1. Init => \A t \in Inquiry : Reported(t)
    BY DEF Init, Reported, Granted, NoReply
  <2> QED BY <2>1, InitType, InitSequential
<1>2. Inv /\ [Next]_vars => Inv'
  BY NextType, NextSequential, NextReported
<1>3. Inv => AcceptedIsReported
  BY DEF Reported, AcceptedIsReported, GetStatus
<1> QED BY <1>1, <1>2, <1>3, PTL DEF Spec
-----------------------------------------------------------------------------
(* The simulator implements AFCService. *)

\* A finished handler has answered.
DoneIsAnswered == \A t \in Inquiry : pc[t] = "done" => reply[t].status # "none"

RefinementInv == TypeInv /\ SequentialInv /\ DoneIsAnswered

LEMMA InitDone == Init => DoneIsAnswered
BY DEF Init, DoneIsAnswered

LEMMA NextDone ==
  ASSUME TypeInv, DoneIsAnswered, [Next]_vars PROVE DoneIsAnswered'
<1> USE DEF TypeInv
<1>1. ASSUME NEW t \in Inquiry, NEW b \in Body, Receive(t, b)
      PROVE  DoneIsAnswered'
  <2>1. \A u \in Inquiry \ {t} : pc'[u] = pc[u] /\ reply'[u] = reply[u]
    BY <1>1 DEF Receive, gen_err_resp, Goto, TypeOK
  <2>2. pc'[t] = "done" => reply'[t] = BadRequest
    BY <1>1 DEF Receive, gen_err_resp, Goto, TypeOK
  <2> QED BY <2>1, <2>2 DEF DoneIsAnswered, BadRequest
<1>2. ASSUME NEW t \in Inquiry, Send(t) PROVE DoneIsAnswered'
  <2>1. \A u \in Inquiry \ {t} : pc'[u] = pc[u] /\ reply'[u] = reply[u]
    BY <1>2 DEF Send, Goto, TypeOK
  <2>2. reply'[t] = Dumped
    BY <1>2 DEF Send, TypeOK
  <2> QED BY <2>1, <2>2 DEF DoneIsAnswered, Dumped, EmptyReply
<1>8. ASSUME NEW t \in Inquiry, AppendResponse(t) PROVE DoneIsAnswered'
  <2>1. \A u \in Inquiry \ {t} : pc'[u] = pc[u] /\ reply'[u] = reply[u]
    BY <1>8 DEF AppendResponse, Goto, TypeOK
  <2>2. pc'[t] = "done" => reply'[t] = ServerError
    BY <1>8 DEF AppendResponse, Goto, TypeOK
  <2> QED BY <2>1, <2>2 DEF DoneIsAnswered, ServerError
<1>3. ASSUME NEW t \in Inquiry, Handle(t), ~Send(t), ~AppendResponse(t)
      PROVE  DoneIsAnswered'
  <2>1. reply' = reply /\ pc'[t] # "done"
    BY <1>3 DEF Handle, Parse, Validate, CheckVector, Build, Publish,
                Accept, Load, Release, Copy, Stamp, Filter, gen_err_resp, Goto, threads, TypeOK
  <2>2. \A u \in Inquiry \ {t} : pc'[u] = pc[u]
    BY <1>3 DEF Handle, Parse, Validate, CheckVector, Build, Publish,
                Accept, Load, Release, Copy, Stamp, Filter, gen_err_resp, Goto, TypeOK
  <2> QED BY <2>1, <2>2 DEF DoneIsAnswered
<1>4. ASSUME NEW tc \in Setting, SetResponse(tc) PROVE DoneIsAnswered'
  BY <1>4 DEF SetResponse, NewExchange, threads, DoneIsAnswered
<1>5. ASSUME NEW h \in BOOLEAN, SetParams(h) PROVE DoneIsAnswered'
  BY <1>5 DEF SetParams, threads, DoneIsAnswered
<1>6. CASE Reset
  BY <1>6 DEF Reset, NewExchange, threads, DoneIsAnswered
<1>7. CASE UNCHANGED vars
  BY <1>7 DEF vars, threads, DoneIsAnswered
<1> QED BY <1>1, <1>2, <1>3, <1>4, <1>5, <1>6, <1>7, <1>8 DEF Next
-----------------------------------------------------------------------------
\* What is mapped of an inquiry depends on its own thread's state only.
LEMMA SameThread ==
  ASSUME NEW t \in Inquiry, (pc[t] = "idle") <=> (pc'[t] = "idle"),
         body'[t] = body[t], reply'[t] = reply[t]
  PROVE  Requested(t)' = Requested(t) /\ Answering(t)' = Answering(t)
BY DEF Requested, Answering, Granted, FilterCfi

LEMMA InitService == Init => Service!Init
<1> SUFFICES ASSUME Init PROVE Service!Init
  OBVIOUS
<1>1. ASSUME NEW t \in Inquiry PROVE Requested(t) = Service!NotAsked
  BY DEF Init, Requested, Service!NotAsked
<1>2. ASSUME NEW t \in Inquiry PROVE Answering(t) = Service!Pending
  BY DEF Init, Answering, Service!Pending, Granted, NoReply
<1> QED BY <1>1, <1>2 DEF Service!Init

LEMMA ReceiveService ==
  ASSUME ~Overlap, RefinementInv, TypeInv', NEW t \in Inquiry, NEW b \in Body,
         Receive(t, b)
  PROVE  Service!Ask(t)
<1> USE DEF RefinementInv
<1>1. pc[t] = "idle" /\ pc'[t] # "idle"
  BY DEF Receive, gen_err_resp, Goto, TypeInv, TypeOK
<1>2. reply[t].status = "none"
  BY <1>1 DEF SequentialInv, HandlerInv, AnsweredWhenDone
<1>3. ASSUME NEW u \in Inquiry, u # t
      PROVE  Requested(u)' = Requested(u) /\ Answering(u)' = Answering(u)
  <2>1. pc'[u] = pc[u] /\ body'[u] = body[u] /\ reply'[u] = reply[u]
    BY <1>3 DEF Receive, gen_err_resp, Goto, TypeInv, TypeOK
  <2> QED BY <2>1, SameThread
<1>4. Requested(t) = Service!NotAsked
  BY <1>1 DEF Requested, Service!NotAsked
<1>5. ASSUME NEW u \in Inquiry
      PROVE  Requested(u) = Service!NotAsked \/ Answering(u) # Service!Pending
  <2>1. pc[u] \in {"idle", "done"}
    BY DEF Receive, Active
  <2>2. CASE pc[u] = "idle"
    BY <2>2 DEF Requested, Service!NotAsked
  <2>3. CASE pc[u] = "done"
    BY <2>3 DEF DoneIsAnswered, Answering, Service!Pending
  <2> QED BY <2>1, <2>2, <2>3
<1>6. Requested(t)' \in Service!Request
  <2>1. body'[t] \in BodyType
    BY DEF TypeInv, TypeOK
  <2>2. /\ FilterCfi(body'[t]) \in SUBSET Cfi /\ body'[t].freq \in SUBSET Cfi
        /\ (body'[t].json /\ body'[t].faults = {}) \in BOOLEAN
    BY <2>1 DEF BodyType, FilterCfi
  <2> QED BY <1>1, <2>2 DEF Requested, FilterCfi, Service!Request
<1>7. Answering(t)' = Answering(t) \/ Answering(t)' = Service!Refused
  <2>1. reply'[t] = reply[t] \/ reply'[t] = BadRequest
    BY DEF Receive, TypeInv, TypeOK
  <2>2. CASE reply'[t] = reply[t]
    BY <2>2 DEF Answering, Granted
  <2>3. CASE reply'[t] = BadRequest
    BY <2>3 DEF Answering, Granted, BadRequest, Service!Refused, Service!Pending
  <2> QED BY <2>1, <2>2, <2>3
<1> QED
  BY <1>3, <1>4, <1>5, <1>6, <1>7 DEF Service!Ask, Service!Open
-----------------------------------------------------------------------------
LEMMA SendService ==
  ASSUME RefinementInv, RefinementInv', NEW t \in Inquiry, Send(t)
  PROVE  Service!Answer(t)
<1> USE DEF RefinementInv
<1>1. /\ pc[t] \in {"send", "sendError"} /\ pc'[t] = "done"
      /\ body' = body /\ reply'[t] = Dumped
  BY DEF Send, Goto, TypeInv, TypeOK
<1>2. reply[t].status = "none"
  BY <1>1 DEF SequentialInv, HandlerInv, AnsweredWhenDone
<1>3. ASSUME NEW u \in Inquiry
      PROVE  Requested(u)' = Requested(u)
  <2>1. (pc[u] = "idle") <=> (pc'[u] = "idle")
    BY <1>1 DEF Send, Goto, TypeInv, TypeOK
  <2> QED BY <1>1, <2>1 DEF Requested, FilterCfi
<1>4. ASSUME NEW u \in Inquiry, u # t PROVE Answering(u)' = Answering(u)
  BY <1>4 DEF Send, Answering, Granted, TypeInv, TypeOK
<1>5. Requested(t) # Service!NotAsked /\ Answering(t) = Service!Pending
  <2>1. Requested(t).sent # Service!NotAsked.sent
    BY <1>1 DEF Requested, Service!NotAsked
  <2>2. Answering(t) = Service!Pending
    BY <1>2 DEF Answering, Granted, Service!Pending
  <2> QED BY <2>1, <2>2
<1>6. CASE ~Granted(t)'
  <2>1. reply'[t].status # "none"
    BY <1>1 DEF Dumped, EmptyReply
  <2>2. Answering(t)' = Service!Refused
    BY <1>6, <2>1 DEF Answering, Granted, Service!Refused, Service!Pending
  <2> QED BY <1>3, <1>4, <1>5, <2>2 DEF Service!Answer, Service!Open
<1>7. CASE Granted(t)'
  <2> DEFINE a == reply'[t].response
  <2>1. /\ a.requestId = t /\ body[t].json /\ body[t].faults = {}
        /\ a.spectrum.chan \subseteq FilterCfi(body[t])
        /\ a.spectrum.freq \subseteq body[t].freq
    BY <1>1, <1>7 DEF SequentialInv, OwnAnswer, FilterCfi, Granted
  <2>2. Answering(t)' = [status |-> "granted", requestId |-> t,
                         chan |-> a.spectrum.chan, freq |-> a.spectrum.freq]
    BY <1>7, <2>1 DEF Answering, Granted
  <2>3. /\ Requested(t).sound /\ Requested(t).chan = FilterCfi(body[t])
        /\ Requested(t).freq = body[t].freq
    BY <1>1, <2>1 DEF Requested
  <2>4. Answering(t)' \in Service!Grants(t, Requested(t))
    BY <2>1, <2>2, <2>3 DEF Service!Grants
  <2> QED BY <1>3, <1>4, <1>5, <2>3, <2>4
       DEF Service!Answer, Service!Open
<1> QED BY <1>6, <1>7

\* A builder whose vectors were replaced answers with an error.
LEMMA AppendService ==
  ASSUME RefinementInv, NEW t \in Inquiry, AppendResponse(t), pc'[t] = "done"
  PROVE  Service!Answer(t)
<1> USE DEF RefinementInv
<1>1. pc[t] = "append" /\ body' = body /\ reply'[t] = ServerError
  BY DEF AppendResponse, Goto, TypeInv, TypeOK
<1>2. reply[t].status = "none"
  BY <1>1 DEF SequentialInv, HandlerInv, AnsweredWhenDone
<1>3. ASSUME NEW u \in Inquiry PROVE Requested(u)' = Requested(u)
  <2>1. (pc[u] = "idle") <=> (pc'[u] = "idle")
    BY <1>1 DEF AppendResponse, Goto, TypeInv, TypeOK
  <2> QED BY <1>1, <2>1 DEF Requested, FilterCfi
<1>4. ASSUME NEW u \in Inquiry, u # t PROVE Answering(u)' = Answering(u)
  <2>1. reply'[u] = reply[u]
    BY <1>4 DEF AppendResponse, TypeInv, TypeOK
  <2> QED BY <2>1 DEF Answering, Granted
<1>5. Requested(t) # Service!NotAsked /\ Answering(t) = Service!Pending
  <2>1. Requested(t).sent # Service!NotAsked.sent
    BY <1>1 DEF Requested, Service!NotAsked
  <2>2. Answering(t) = Service!Pending
    BY <1>2 DEF Answering, Granted, Service!Pending
  <2> QED BY <2>1, <2>2
<1>6. Answering(t)' = Service!Refused
  BY <1>1 DEF Answering, Granted, ServerError, Service!Refused, Service!Pending
<1> QED BY <1>3, <1>4, <1>5, <1>6 DEF Service!Answer, Service!Open

LEMMA NextService ==
  ASSUME ~Overlap, RefinementInv, RefinementInv', [Next]_vars
  PROVE  [Service!Next]_(Service!serviceVars)
<1> USE DEF RefinementInv
<1>1. ASSUME \A u \in Inquiry : /\ (pc[u] = "idle") <=> (pc'[u] = "idle")
                                /\ body'[u] = body[u] /\ reply'[u] = reply[u]
      PROVE  UNCHANGED Service!serviceVars
  BY <1>1, SameThread DEF Service!serviceVars
<1>2. ASSUME NEW t \in Inquiry, NEW b \in Body, Receive(t, b)
      PROVE  Service!Next
  BY <1>2, ReceiveService DEF Service!Next
<1>3. ASSUME NEW t \in Inquiry, Send(t) PROVE Service!Next
  BY <1>3, SendService DEF Service!Next
<1>7. ASSUME NEW t \in Inquiry, AppendResponse(t)
      PROVE  Service!Next \/ UNCHANGED Service!serviceVars
  <2>1. CASE pc'[t] = "done"
    BY <1>7, <2>1, AppendService DEF Service!Next
  <2>2. CASE pc'[t] # "done"
    <3>1. body' = body /\ reply' = reply
      BY <1>7, <2>2 DEF AppendResponse, Goto, TypeInv, TypeOK
    <3>2. \A u \in Inquiry : (pc[u] = "idle") <=> (pc'[u] = "idle")
      BY <1>7 DEF AppendResponse, Goto, TypeInv, TypeOK
    <3> QED BY <1>1, <3>1, <3>2
  <2> QED BY <2>1, <2>2
<1>4. ASSUME NEW t \in Inquiry, Handle(t), ~Send(t), ~AppendResponse(t)
      PROVE  UNCHANGED Service!serviceVars
  <2>1. body' = body /\ reply' = reply
    BY <1>4 DEF Handle, Parse, Validate, CheckVector, Build, Publish,
                Accept, Load, Release, Copy, Stamp, Filter, threads
  <2>2. \A u \in Inquiry : (pc[u] = "idle") <=> (pc'[u] = "idle")
    BY <1>4 DEF Handle, Parse, Validate, CheckVector, Build, Publish,
                Accept, Load, Release, Copy, Stamp, Filter, gen_err_resp, Goto, TypeInv, TypeOK
  <2> QED BY <1>1, <2>1, <2>2
<1>5. ASSUME pc' = pc, body' = body, reply' = reply
      PROVE  UNCHANGED Service!serviceVars
  BY <1>1, <1>5
<1>6. CASE (\E tc \in Setting : SetResponse(tc)) \/ Reset
           \/ (\E h \in BOOLEAN : SetParams(h)) \/ UNCHANGED vars
  BY <1>5, <1>6 DEF SetResponse, NewExchange, Reset, SetParams, threads, vars
<1> QED BY <1>2, <1>3, <1>4, <1>6, <1>7 DEF Next

\* With a DUT that sends one inquiry at a time the handler, for all its steps
\* and whatever the test script posts between them, does what AFCService
\* does: it answers each inquiry once and grants only what was asked for.
THEOREM SimulatorImplementsService ==
  ASSUME ~Overlap PROVE Spec => ImplementsService
<1>1. Init => RefinementInv /\ Service!Init
  BY InitType, InitSequential, InitDone, InitService DEF RefinementInv
<1>2. RefinementInv /\ [Next]_vars => RefinementInv'
  BY NextType, NextSequential, NextDone DEF RefinementInv
<1>3. RefinementInv /\ RefinementInv' /\ [Next]_vars
      => [Service!Next]_(Service!serviceVars)
  BY NextService
<1> QED BY <1>1, <1>2, <1>3, PTL DEF Spec, ImplementsService, Service!Spec
=============================================================================
