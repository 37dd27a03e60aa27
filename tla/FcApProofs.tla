------------------------------ MODULE FcApProofs ------------------------------
(***************************************************************************)
(* Proofs about the simulator for the standard power access point, for any *)
(* inquiries, bodies, settings and test vector files.  Types hold however  *)
(* inquiries overlap; that a grant comes from the file its own inquiry     *)
(* named, and that the service implements AFCService, is proved for an     *)
(* access point that sends one inquiry at a time.                          *)
(***************************************************************************)
EXTENDS FcApService, TLAPS

File == DOMAIN VectorFile \cup {NoFile}
Steps == {"idle", "parse", "validate", "accept", "load", "hold", "copy", "stamp",
          "filter", "send", "sendError", "done"}

\* A thread that has parsed has a body to work on, and one that filters an
\* object to filter.
ReqOK == \A t \in Inquiry :
  pc[t] \notin {"idle", "parse", "sendError", "done"} => req[t] \in Inquiry
RespOK == \A t \in Inquiry : pc[t] = "filter" => resp[t] \in Object

TypeInv == TypeOK /\ ReqOK /\ RespOK
-----------------------------------------------------------------------------
LEMMA ErrorType ==
  ASSUME NEW id \in Inquiry \cup {0}, NEW code \in {-1, 0, 100, 102, 103}
  PROVE  ErrorResponse(id, code) \in Response
BY DEF ErrorResponse, Response, NoSpectrum, Spectrum

LEMMA CodeType ==
  ASSUME NEW b
  PROVE  RequestCode(b) \in {-1, 0, 100, 102, 103}
BY DEF RequestCode

LEMMA GenErrType ==
  ASSUME TypeOK, NEW t \in Inquiry, NEW id \in Inquiry \cup {0},
         NEW code \in {-1, 0, 100, 102, 103}, gen_err_resp(t, id, code)
  PROVE  /\ heap' \in [Object -> Response]
         /\ sent_response' \in Object \cup {Unsent}
         /\ pc' = [pc EXCEPT ![t] = "sendError"]
BY ErrorType DEF gen_err_resp, TypeOK, Goto, Object

LEMMA CheckType ==
  ASSUME TypeOK, NEW t \in Inquiry, NEW id \in Inquiry \cup {0},
         NEW code \in {-1, 0, 100, 102, 103}, NEW next, Check(t, id, code, next)
  PROVE  /\ heap' \in [Object -> Response]
         /\ sent_response' \in Object \cup {Unsent}
         /\ \/ pc' = [pc EXCEPT ![t] = "sendError"]
            \/ code = 0 /\ pc' = [pc EXCEPT ![t] = next]
<1>1. CASE code # 0
  BY <1>1, GenErrType DEF Check
<1>2. CASE code = 0
  BY <1>2 DEF Check, Goto, TypeOK
<1> QED BY <1>1, <1>2

LEMMA InitType == Init => TypeInv
<1> SUFFICES ASSUME Init PROVE TypeInv
  OBVIOUS
<1>1. Blank \in Response
  BY ErrorType DEF Blank
<1>2. /\ heap \in [Object -> Response]
      /\ reply \in [Inquiry -> Reply]
  BY <1>1 DEF Init, Reply
<1>3. /\ pc \in [Inquiry -> Steps]
      /\ body \in [Inquiry -> BodyType]
      /\ req \in [Inquiry -> Inquiry \cup {Nobody}]
      /\ test_case_file \in [Inquiry -> File]
      /\ resp \in [Inquiry -> Object \cup {Unsent}]
  BY DEF Init, Steps, BodyType, File
<1>4. phase \in 0..2 /\ script_test_vector \in 0..3 /\ vectors \in File
  BY DEF Init, File
<1>5. TypeOK
  BY <1>2, <1>3, <1>4, Zenon DEF Init, TypeOK, Steps, File
<1> QED BY <1>5 DEF Init, TypeInv, ReqOK, RespOK

\* A step of thread t that goes to a step nxt.
LEMMA GoneType ==
  ASSUME TypeInv, NEW t \in Inquiry, NEW next \in Steps, pc' = [pc EXCEPT ![t] = next],
         req' \in [Inquiry -> Inquiry \cup {Nobody}],
         \A u \in Inquiry \ {t} : req'[u] = req[u] /\ resp'[u] = resp[u],
         next \notin {"idle", "parse", "sendError", "done"} => req'[t] \in Inquiry,
         next = "filter" => resp'[t] \in Object
  PROVE  pc' \in [Inquiry -> Steps] /\ ReqOK' /\ RespOK'
BY DEF TypeInv, TypeOK, ReqOK, RespOK, Steps

LEMMA NextType == TypeInv /\ [Next]_vars => TypeInv'
<1> SUFFICES ASSUME TypeInv, [Next]_vars PROVE TypeInv'
  OBVIOUS
<1>0. TypeOK
  BY DEF TypeInv
<1>1. ASSUME NEW t \in Inquiry, NEW b \in Body, Receive(t, b) PROVE TypeInv'
  <2>1. b \in BodyType
    BY FcApAssumption
  <2>2. body' \in [Inquiry -> BodyType]
    BY <1>0, <1>1, <2>1 DEF Receive, TypeOK
  <2>3. UNCHANGED <<vectors, valid_request, hold_response, phase, filename_prefix,
                    script_test_vector, country_code, req, test_case_file, resp>>
    BY <1>1 DEF Receive
  <2>4. CASE ~b.json
    <3>1. /\ recv_request' = Nobody /\ UNCHANGED <<heap, sent_response>>
          /\ pc' = [pc EXCEPT ![t] = "done"]
      BY <1>1, <2>4 DEF Receive, Goto
    <3>2. reply' \in [Inquiry -> Reply]
      BY <1>0, <1>1, <2>4 DEF Receive, TypeOK, Reply
    <3>3. pc' \in [Inquiry -> Steps] /\ ReqOK' /\ RespOK'
      BY <1>0, <2>3, <3>1, GoneType DEF TypeOK, Steps
    <3> QED BY <1>0, <2>2, <2>3, <3>1, <3>2, <3>3, Zenon DEF TypeInv, TypeOK, Steps
  <2>5. CASE b.json /\ "unparsable" \in b.faults
    <3>1. gen_err_resp(t, 0, -1) /\ UNCHANGED <<recv_request, reply>>
      BY <1>1, <2>5, Zenon DEF Receive
    <3>2. /\ heap' \in [Object -> Response]
          /\ sent_response' \in Object \cup {Unsent}
          /\ pc' = [pc EXCEPT ![t] = "sendError"]
      BY <1>0, <3>1, GenErrType
    <3>3. pc' \in [Inquiry -> Steps] /\ ReqOK' /\ RespOK'
      BY <1>0, <2>3, <3>2, GoneType DEF TypeOK, Steps
    <3> QED BY <1>0, <2>2, <2>3, <3>1, <3>2, <3>3, Zenon DEF TypeInv, TypeOK, Steps
  <2>6. CASE b.json /\ "unparsable" \notin b.faults
    <3>1. /\ recv_request' = t /\ UNCHANGED <<heap, sent_response, reply>>
          /\ pc' = [pc EXCEPT ![t] = "parse"]
      BY <1>1, <2>6, Zenon DEF Receive, Goto
    <3>2. pc' \in [Inquiry -> Steps] /\ ReqOK' /\ RespOK'
      BY <1>0, <2>3, <3>1, GoneType DEF TypeOK, Steps
    <3>3. recv_request' \in Inquiry \cup {Nobody}
      BY <3>1
    <3> QED BY <1>0, <2>2, <2>3, <3>1, <3>2, <3>3, Zenon DEF TypeInv, TypeOK, Steps
  <2> QED BY <2>4, <2>5, <2>6, Zenon
<1>2. ASSUME NEW t \in Inquiry, Handle(t) PROVE TypeInv'
  <2>1. CASE Parse(t)
    <3> DEFINE missing == recv_request = Nobody \/ "envelope" \in body[recv_request].faults
    <3>0. PICK code \in {-1, 102} : Check(t, 0, IF missing THEN code ELSE 0, "validate")
      BY <2>1 DEF Parse, EnvelopeCodes
    <3>1. /\ req' = IF missing THEN req ELSE [req EXCEPT ![t] = recv_request]
          /\ SettingsKept /\ UNCHANGED <<vectors, valid_request, test_case_file, resp, reply>>
      BY <2>1 DEF Parse
    <3>2. /\ heap' \in [Object -> Response]
          /\ sent_response' \in Object \cup {Unsent}
          /\ \/ pc' = [pc EXCEPT ![t] = "sendError"]
             \/ ~missing /\ pc' = [pc EXCEPT ![t] = "validate"]
      <4> HIDE DEF missing
      <4>1. (IF missing THEN code ELSE 0) \in {-1, 0, 100, 102, 103}
        OBVIOUS
      <4>2. (IF missing THEN code ELSE 0) = 0 => ~missing
        OBVIOUS
      <4> QED BY <1>0, <3>0, <4>1, <4>2, CheckType
    <3>3. /\ req' \in [Inquiry -> Inquiry \cup {Nobody}]
          /\ \A u \in Inquiry \ {t} : req'[u] = req[u]
          /\ ~missing => req'[t] \in Inquiry
      BY <1>0, <3>1 DEF TypeOK
    <3>4. pc' \in [Inquiry -> Steps] /\ ReqOK' /\ RespOK'
      BY <3>1, <3>2, <3>3, GoneType DEF Steps
    <3> QED BY <1>0, <3>1, <3>2, <3>3, <3>4, Zenon DEF TypeInv, TypeOK, Steps, SettingsKept
  <2>2. CASE Validate(t)
    <3>1. /\ Check(t, req[t], RequestCode(body[req[t]]), "accept") /\ SettingsKept
          /\ UNCHANGED <<vectors, valid_request, req, test_case_file, resp, reply>>
          /\ req[t] \in Inquiry
      BY <2>2 DEF Validate, TypeInv, ReqOK
    <3>2. RequestCode(body[req[t]]) \in {-1, 0, 100, 102, 103}
      BY CodeType
    <3>3. /\ heap' \in [Object -> Response]
          /\ sent_response' \in Object \cup {Unsent}
          /\ \/ pc' = [pc EXCEPT ![t] = "sendError"]
             \/ pc' = [pc EXCEPT ![t] = "accept"]
      BY <1>0, <3>1, <3>2, CheckType
    <3>4. pc' \in [Inquiry -> Steps] /\ ReqOK' /\ RespOK'
      BY <1>0, <3>1, <3>3, GoneType DEF Steps, TypeOK
    <3> QED BY <1>0, <3>1, <3>3, <3>4, Zenon DEF TypeInv, TypeOK, Steps, SettingsKept
  <2>3. CASE Accept(t)
    <3>1. /\ pc' = [pc EXCEPT ![t] = "load"] /\ req[t] \in Inquiry
          /\ UNCHANGED <<req, resp>> /\ valid_request' = TRUE
      BY <2>3 DEF Accept, Goto, TypeInv, ReqOK
    <3>2. pc' \in [Inquiry -> Steps] /\ ReqOK' /\ RespOK'
      BY <1>0, <3>1, GoneType DEF Steps, TypeOK
    <3> QED BY <1>0, <2>3, <3>1, <3>2, Zenon DEF Accept, TypeInv, TypeOK, Steps, SettingsKept
  <2>4. CASE Load(t)
    <3> DEFINE vec == Vec(body[req[t]])
               name == FileName(vec)
               found == vec # 0 /\ name \in DOMAIN VectorFile
    <3>1. /\ Check(t, req[t], IF vec # 0 /\ ~found THEN -1 ELSE 0, "hold")
          /\ vectors' = IF found THEN name ELSE vectors
          /\ test_case_file' = IF found THEN [test_case_file EXCEPT ![t] = name]
                               ELSE test_case_file
          /\ SettingsKept /\ UNCHANGED <<valid_request, req, resp, reply>>
          /\ req[t] \in Inquiry
      BY <2>4 DEF Load, TypeInv, ReqOK
    <3>2. vectors' \in File /\ test_case_file' \in [Inquiry -> File]
      BY <1>0, <3>1 DEF TypeOK, File
    <3>3. /\ heap' \in [Object -> Response]
          /\ sent_response' \in Object \cup {Unsent}
          /\ \/ pc' = [pc EXCEPT ![t] = "sendError"]
             \/ pc' = [pc EXCEPT ![t] = "hold"]
      <4> HIDE DEF found, name, vec
      <4>1. (IF vec # 0 /\ ~found THEN -1 ELSE 0) \in {-1, 0, 100, 102, 103}
        OBVIOUS
      <4> QED BY <1>0, <3>1, <4>1, CheckType
    <3>4. pc' \in [Inquiry -> Steps] /\ ReqOK' /\ RespOK'
      BY <1>0, <3>1, <3>3, GoneType DEF Steps, TypeOK
    <3> QED BY <1>0, <3>1, <3>2, <3>3, <3>4, Zenon
        DEF TypeInv, TypeOK, Steps, SettingsKept, File
  <2>5. CASE Release(t)
    <3>1. /\ pc' = [pc EXCEPT ![t] = "copy"] /\ req[t] \in Inquiry
          /\ UNCHANGED <<req, resp>>
      BY <2>5 DEF Release, Goto, TypeInv, ReqOK
    <3>2. pc' \in [Inquiry -> Steps] /\ ReqOK' /\ RespOK'
      BY <1>0, <3>1, GoneType DEF Steps, TypeOK
    <3> QED BY <1>0, <2>5, <3>2, Zenon DEF Release, globals, TypeInv, TypeOK, Steps
  <2>6. CASE Copy(t)
    <3>1. /\ SettingsKept
          /\ UNCHANGED <<vectors, valid_request, req, test_case_file, resp, reply>>
          /\ req[t] \in Inquiry
      BY <2>6 DEF Copy, TypeInv, ReqOK
    <3>2. /\ heap' \in [Object -> Response]
          /\ sent_response' \in Object \cup {Unsent}
          /\ \/ pc' = [pc EXCEPT ![t] = "sendError"]
             \/ pc' = [pc EXCEPT ![t] = "stamp"]
      <4>1. CASE vectors = NoFile
        BY <1>0, <2>6, <3>1, <4>1, GenErrType DEF Copy
      <4>2. CASE vectors # NoFile
        <5>1. [requestId |-> 0, code |-> 0, file |-> vectors,
               spectrum |-> VectorFile[vectors]] \in Response
          BY <1>0, <4>2, FcApAssumption DEF TypeOK, Response
        <5>2. <<t, "answer">> \in Object
          BY DEF Object
        <5> QED BY <1>0, <2>6, <4>2, <5>1, <5>2 DEF Copy, Goto, TypeOK
      <4> QED BY <4>1, <4>2
    <3>3. pc' \in [Inquiry -> Steps] /\ ReqOK' /\ RespOK'
      BY <1>0, <3>1, <3>2, GoneType DEF Steps, TypeOK
    <3> QED BY <1>0, <3>1, <3>2, <3>3, Zenon DEF TypeInv, TypeOK, Steps, SettingsKept
  <2>7. CASE Stamp(t)
    <3> DEFINE stamped == [heap EXCEPT ![sent_response].requestId = req[t]]
    <3>1. /\ SettingsKept
          /\ UNCHANGED <<vectors, valid_request, req, test_case_file, reply>>
          /\ req[t] \in Inquiry
      BY <2>7 DEF Stamp, TypeInv, ReqOK
    <3>2. sent_response # Unsent => stamped \in [Object -> Response]
      <4>1. SUFFICES ASSUME sent_response \in Object
                     PROVE  stamped \in [Object -> Response]
        BY <1>0 DEF TypeOK
      <4>2. [heap[sent_response] EXCEPT !.requestId = req[t]] \in Response
        BY <1>0, <3>1, <4>1 DEF TypeOK, Response
      <4> QED BY <1>0, <4>1, <4>2 DEF TypeOK
    <3>3. /\ heap' \in [Object -> Response]
          /\ sent_response' \in Object \cup {Unsent}
          /\ resp' \in [Inquiry -> Object \cup {Unsent}]
          /\ \A u \in Inquiry \ {t} : resp'[u] = resp[u]
          /\ \/ pc' = [pc EXCEPT ![t] = "sendError"]
             \/ pc' = [pc EXCEPT ![t] = "filter"] /\ resp'[t] \in Object
      <4>1. CASE sent_response = Unsent
        <5>1. gen_err_resp(t, req[t], -1) /\ UNCHANGED resp
          BY <2>7, <4>1 DEF Stamp
        <5> QED BY <1>0, <3>1, <5>1, GenErrType DEF TypeOK
      <4>2. CASE sent_response # Unsent /\ "noCert" \in body[req[t]].faults
        <5>1. ErrorResponse(req[t], -1) \in Response /\ <<t, "error">> \in Object
          BY <3>1, ErrorType DEF Object
        <5>2. /\ heap' = [stamped EXCEPT ![<<t, "error">>] = ErrorResponse(req[t], -1)]
              /\ sent_response' = <<t, "error">> /\ UNCHANGED resp
              /\ pc' = [pc EXCEPT ![t] = "sendError"]
          BY <2>7, <4>2 DEF Stamp, Goto
        <5> HIDE DEF stamped
        <5> QED BY <1>0, <3>2, <4>2, <5>1, <5>2 DEF TypeOK
      <4>3. CASE sent_response # Unsent /\ "noCert" \notin body[req[t]].faults
        <5>1. /\ heap' = stamped /\ resp' = [resp EXCEPT ![t] = sent_response]
              /\ UNCHANGED sent_response /\ pc' = [pc EXCEPT ![t] = "filter"]
          BY <2>7, <4>3 DEF Stamp, Goto
        <5> QED BY <1>0, <3>2, <4>3, <5>1 DEF TypeOK
      <4> QED BY <4>1, <4>2, <4>3
    <3>4. pc' \in [Inquiry -> Steps] /\ ReqOK' /\ RespOK'
      BY <1>0, <3>1, <3>3, GoneType DEF Steps, TypeOK
    <3> QED BY <1>0, <3>1, <3>3, <3>4, Zenon DEF TypeInv, TypeOK, Steps, SettingsKept
  <2>8. CASE Filter(t)
    <3>1. /\ pc' = [pc EXCEPT ![t] = "send"] /\ req[t] \in Inquiry
          /\ UNCHANGED <<req, resp>>
      BY <2>8 DEF Filter, Goto, TypeInv, ReqOK
    <3>2. pc' \in [Inquiry -> Steps] /\ ReqOK' /\ RespOK'
      BY <1>0, <3>1, GoneType DEF Steps, TypeOK
    <3>3. heap' \in [Object -> Response]
      <4>1. resp[t] \in Object
        BY <2>8 DEF Filter, TypeInv, RespOK
      <4> DEFINE kept == [chan |-> heap[resp[t]].spectrum.chan \cap body[req[t]].chan,
                          freq |-> heap[resp[t]].spectrum.freq \cap body[req[t]].freq]
      <4>2. heap' = [heap EXCEPT ![resp[t]].spectrum = kept]
        BY <2>8 DEF Filter
      <4>3. heap[resp[t]] \in Response /\ heap \in [Object -> Response]
        BY <1>0, <4>1 DEF TypeOK
      <4>4. kept \in Spectrum
        BY <4>3 DEF Response, Spectrum
      <4> HIDE DEF kept
      <4>5. [heap[resp[t]] EXCEPT !.spectrum = kept] \in Response
        BY <4>3, <4>4 DEF Response
      <4> QED BY <4>1, <4>2, <4>3, <4>5
    <3> QED BY <1>0, <2>8, <3>2, <3>3, Zenon DEF Filter, globals, TypeInv, TypeOK, Steps
  <2>9. CASE Send(t)
    <3>1. /\ pc' = [pc EXCEPT ![t] = "done"] /\ UNCHANGED <<req, resp>>
      BY <2>9 DEF Send, Goto
    <3>2. pc' \in [Inquiry -> Steps] /\ ReqOK' /\ RespOK'
      BY <1>0, <3>1, GoneType DEF Steps, TypeOK
    <3>3. reply' \in [Inquiry -> Reply]
      <4>1. Blank \in Response
        BY ErrorType DEF Blank
      <4> QED BY <1>0, <2>9, <4>1 DEF Send, TypeOK, Reply
    <3> QED BY <1>0, <2>9, <3>2, <3>3, Zenon DEF Send, globals, TypeInv, TypeOK, Steps
  <2> QED BY <1>2, <2>1, <2>2, <2>3, <2>4, <2>5, <2>6, <2>7, <2>8, <2>9, Zenon DEF Handle
<1>3. ASSUME NEW tc \in Setting, SetResponse(tc) PROVE TypeInv'
  <2>1. IsSetting(tc)
    BY FcApAssumption
  <2>2. /\ phase' \in 0..2 /\ script_test_vector' \in 0..3
        /\ country_code' \in {"US", "CA"} /\ hold_response' \in BOOLEAN
    BY <1>0, <1>3, <2>1 DEF SetResponse, IsSetting, Given, TypeOK
  <2>3. /\ vectors' \in File /\ recv_request' \in Inquiry \cup {Nobody}
        /\ sent_response' \in Object \cup {Unsent}
        /\ filename_prefix' \in {"default", "named"}
    BY <1>0, <1>3 DEF SetResponse, TypeOK, File
  <2>4. UNCHANGED <<valid_request, heap, pc, body, req, test_case_file, resp, reply>>
    BY <1>3 DEF SetResponse
  <2> QED BY <1>0, <2>2, <2>3, <2>4, Zenon DEF TypeInv, TypeOK, ReqOK, RespOK, File
<1>4. CASE Reset
  <2>1. /\ vectors' \in File /\ recv_request' \in Inquiry \cup {Nobody}
        /\ sent_response' \in Object \cup {Unsent}
    BY <1>4 DEF Reset, File
  <2>2. phase' \in 0..2 /\ script_test_vector' \in 0..3
    BY <1>4 DEF Reset
  <2>3. /\ hold_response' \in BOOLEAN /\ valid_request' \in BOOLEAN
        /\ filename_prefix' \in {"default", "named"}
    BY <1>4, Zenon DEF Reset
  <2>4. UNCHANGED <<country_code, heap, pc, body, req, test_case_file, resp, reply>>
    BY <1>4 DEF Reset
  <2> QED BY <1>0, <2>1, <2>2, <2>3, <2>4, Zenon DEF TypeInv, TypeOK, ReqOK, RespOK, File
<1>5. CASE UNCHANGED vars
  BY <1>0, <1>5, Zenon DEF vars, globals, TypeInv, TypeOK, ReqOK, RespOK
<1> QED BY <1>1, <1>2, <1>3, <1>4, <1>5, Zenon DEF Next

\* Every reachable state of the service is type correct, whatever the scripts
\* post and however inquiries overlap.
THEOREM TypeCorrect == Spec => []TypeOK
<1>1. TypeInv => TypeOK
  BY DEF TypeInv
<1> QED BY <1>1, InitType, NextType, PTL DEF Spec
-----------------------------------------------------------------------------
(* Where the spectrum of an answer comes from, one inquiry at a time. *)
OneAtATime == \A t, u \in Inquiry : Active(t) /\ Active(u) => t = u

\* The body read back inquires nothing: the only case in which Load leaves
\* vectors as it finds them, and one in which Filter keeps nothing.
InquiresNothing(t) == body[req[t]].chan = {} /\ body[req[t]].freq = {}

FreshInv(t) ==
  /\ pc[t] # "done" => reply[t].status = "none"
  /\ pc[t] \in {"hold", "copy"} =>
       vectors \in {NoFile, test_case_file[t]} \/ InquiresNothing(t)
  /\ pc[t] \in {"stamp", "filter"} =>
       heap[<<t, "answer">>].file = test_case_file[t] \/ InquiresNothing(t)
  /\ pc[t] = "filter" => resp[t] = <<t, "answer">>
  /\ pc[t] = "send" =>
       \/ heap[<<t, "answer">>].file = test_case_file[t]
       \/ heap[<<t, "answer">>].spectrum = NoSpectrum
  /\ pc[t] \in {"stamp", "filter", "send"} => sent_response \in {<<t, "answer">>, Unsent}
  /\ pc[t] = "sendError" => /\ sent_response \in {<<t, "error">>, Unsent}
                            /\ heap[<<t, "error">>].code # 0

Fresh(t) ==
  Granted(t) /\ reply[t].response.spectrum # NoSpectrum =>
    reply[t].response.file = test_case_file[t]

SequentialInv == OneAtATime /\ \A t \in Inquiry : FreshInv(t) /\ Fresh(t)

\* What a step of thread t does to the others: nothing, and they are at rest.
OthersRest(t) ==
  \A u \in Inquiry \ {t} : /\ ~Active(u) /\ pc'[u] = pc[u]
                           /\ reply'[u] = reply[u]
                           /\ test_case_file'[u] = test_case_file[u]

LEMMA HandlerFrame ==
  ASSUME TypeInv, OneAtATime, ~Overlap, NEW t \in Inquiry,
         (\E b \in Body : Receive(t, b)) \/ Handle(t)
  PROVE  OthersRest(t)
<1>1. ASSUME NEW b \in Body, Receive(t, b) PROVE OthersRest(t)
  <2>1. \E next \in {"done", "sendError", "parse"} : Goto(t, next)
    BY <1>1, Zenon DEF Receive, gen_err_resp
  <2>2. reply' = [reply EXCEPT ![t].status = "400"] \/ reply' = reply
    BY <1>1, Zenon DEF Receive
  <2>3. test_case_file' = test_case_file
    BY <1>1 DEF Receive
  <2>4. \A u \in Inquiry : ~Active(u)
    BY <1>1 DEF Receive
  <2> QED BY <2>1, <2>2, <2>3, <2>4 DEF Goto, OthersRest, TypeInv, TypeOK
<1>2. CASE Handle(t)
  <2>1. Active(t)
    BY <1>2 DEF Handle, Parse, Validate, Accept, Load, Release, Copy, Stamp, Filter, Send,
                Active
  <2>2. \A u \in Inquiry \ {t} : ~Active(u)
    BY <2>1 DEF OneAtATime
  <2>3. \A u \in Inquiry \ {t} : pc'[u] = pc[u]
    BY <1>2 DEF Handle, Parse, Validate, Accept, Load, Release, Copy, Stamp, Filter, Send,
                Check, gen_err_resp, Goto, TypeInv, TypeOK
  <2>4. \A u \in Inquiry \ {t} : reply'[u] = reply[u]
    BY <1>2 DEF Handle, Parse, Validate, Accept, Load, Release, Copy, Stamp, Filter, Send,
                TypeInv, TypeOK
  <2>5. \A u \in Inquiry \ {t} : test_case_file'[u] = test_case_file[u]
    BY <1>2 DEF Handle, Parse, Validate, Accept, Load, Release, Copy, Stamp, Filter, Send,
                TypeInv, TypeOK
  <2> QED BY <2>2, <2>3, <2>4, <2>5 DEF OthersRest
<1> QED BY <1>1, <1>2

\* It is enough to look at the thread that takes the step.
LEMMA OthersStayFresh ==
  ASSUME TypeInv, SequentialInv, NEW t \in Inquiry, OthersRest(t),
         FreshInv(t)', Fresh(t)'
  PROVE  SequentialInv'
<1>1. OneAtATime'
  BY DEF OneAtATime, OthersRest, Active
<1>2. ASSUME NEW u \in Inquiry \ {t} PROVE FreshInv(u)' /\ Fresh(u)'
  <2>1. /\ pc'[u] \in {"idle", "done"} /\ pc'[u] = pc[u] /\ reply'[u] = reply[u]
        /\ test_case_file'[u] = test_case_file[u]
    BY <1>2 DEF OthersRest, Active
  <2>2. FreshInv(u) /\ Fresh(u)
    BY <1>2 DEF SequentialInv
  <2>3. FreshInv(u)'
    BY <2>1, <2>2 DEF FreshInv
  <2>4. Fresh(u)'
    BY <2>1, <2>2 DEF Fresh, Granted
  <2> QED BY <2>3, <2>4
<1> QED BY <1>1, <1>2 DEF SequentialInv

LEMMA InitFresh == Init => SequentialInv
BY DEF Init, SequentialInv, OneAtATime, Active, FreshInv, Fresh, Granted

\* An error response grants nothing.
LEMMA ErrorIsFresh ==
  ASSUME TypeInv, NEW t \in Inquiry, NEW id \in Inquiry \cup {0},
         NEW code \in {-1, 100, 102, 103}, gen_err_resp(t, id, code),
         reply[t].status = "none", reply' = reply
  PROVE  FreshInv(t)' /\ Fresh(t)'
<1>1. /\ pc'[t] = "sendError" /\ sent_response' = <<t, "error">>
      /\ <<t, "error">> \in Object
      /\ heap'[<<t, "error">>] = ErrorResponse(id, code)
  BY DEF gen_err_resp, Goto, TypeInv, TypeOK, Object
<1>2. heap'[<<t, "error">>].code # 0
  BY <1>1 DEF ErrorResponse
<1> QED BY <1>1, <1>2 DEF FreshInv, Fresh, Granted

\* Neither does a thread that has not answered.
LEMMA SilentIsFresh ==
  ASSUME NEW t \in Inquiry, reply[t].status = "none", reply' = reply,
         pc'[t] \in {"parse", "validate", "accept", "load"}
  PROVE  FreshInv(t)' /\ Fresh(t)'
BY DEF FreshInv, Fresh, Granted

LEMMA HandlerIsFresh ==
  ASSUME TypeInv, NEW t \in Inquiry, FreshInv(t), Fresh(t), Handle(t)
  PROVE  FreshInv(t)' /\ Fresh(t)'
<1>0. TypeOK
  BY DEF TypeInv
<1>s. reply[t].status = "none"
  <2>1. pc[t] # "done"
    BY DEF Handle, Parse, Validate, Accept, Load, Release, Copy, Stamp, Filter, Send
  <2> QED BY <2>1 DEF FreshInv
<1>r. pc[t] \notin {"idle", "parse", "sendError", "done"} => req[t] \in Inquiry
  BY DEF TypeInv, ReqOK
<1>1. CASE Parse(t)
  <2>1. reply' = reply
    BY <1>1 DEF Parse
  <2>2. (\E code \in {-1, 102} : gen_err_resp(t, 0, code)) \/ pc'[t] = "validate"
    BY <1>0, <1>1 DEF Parse, EnvelopeCodes, Check, Goto, TypeOK
  <2> QED BY <1>s, <2>1, <2>2, ErrorIsFresh, SilentIsFresh
<1>2. CASE Validate(t)
  <2>1. reply' = reply /\ req[t] \in Inquiry
    BY <1>r, <1>2 DEF Validate
  <2>2. RequestCode(body[req[t]]) \in {-1, 0, 100, 102, 103}
    BY CodeType
  <2>3. \/ /\ RequestCode(body[req[t]]) # 0
           /\ gen_err_resp(t, req[t], RequestCode(body[req[t]]))
        \/ pc'[t] = "accept"
    BY <1>0, <1>2 DEF Validate, Check, Goto, TypeOK
  <2> QED BY <1>s, <2>1, <2>2, <2>3, ErrorIsFresh, SilentIsFresh
<1>3. CASE Accept(t)
  BY <1>0, <1>s, <1>3, SilentIsFresh DEF Accept, Goto, TypeOK
<1>4. CASE Load(t)
  <2> DEFINE vec == Vec(body[req[t]])
             name == FileName(vec)
             found == vec # 0 /\ name \in DOMAIN VectorFile
  <2>1. /\ reply' = reply /\ UNCHANGED <<req, body>> /\ req[t] \in Inquiry
        /\ vectors' = IF found THEN name ELSE vectors
        /\ test_case_file' = IF found THEN [test_case_file EXCEPT ![t] = name]
                             ELSE test_case_file
    BY <1>r, <1>4 DEF Load, SettingsKept
  <2>2. CASE vec # 0 /\ ~found
    <3>1. gen_err_resp(t, req[t], -1)
      BY <1>4, <2>2 DEF Load, Check
    <3> QED BY <1>s, <2>1, <3>1, ErrorIsFresh
  <2>3. CASE found
    <3>1. vectors' = name /\ test_case_file'[t] = name
      BY <1>0, <2>1, <2>3 DEF TypeOK
    <3>2. pc'[t] = "hold"
      BY <1>0, <1>4, <2>3 DEF Load, Check, Goto, TypeOK
    <3> HIDE DEF name, found
    <3> QED BY <1>s, <2>1, <3>1, <3>2 DEF FreshInv, Fresh, Granted
  <2>4. CASE vec = 0
    <3>1. InquiresNothing(t)'
      BY <2>1, <2>4 DEF Vec, InquiresNothing
    <3>2. pc'[t] = "hold"
      BY <1>0, <1>4, <2>4 DEF Load, Check, Goto, TypeOK
    <3> QED BY <1>s, <2>1, <3>1, <3>2 DEF FreshInv, Fresh, Granted
  <2> QED BY <2>2, <2>3, <2>4
<1>5. CASE Release(t)
  <2>1. /\ pc[t] = "hold" /\ pc'[t] = "copy"
        /\ UNCHANGED <<vectors, test_case_file, req, body, reply>>
    BY <1>0, <1>5 DEF Release, Goto, TypeOK, globals
  <2> QED BY <1>s, <2>1 DEF FreshInv, Fresh, Granted, InquiresNothing
<1>6. CASE Copy(t)
  <2>1. /\ UNCHANGED <<vectors, test_case_file, req, body, reply>>
        /\ pc[t] = "copy" /\ req[t] \in Inquiry
    BY <1>r, <1>6 DEF Copy, SettingsKept
  <2>2. CASE vectors = NoFile
    BY <1>6, <1>s, <2>1, <2>2, ErrorIsFresh DEF Copy
  <2>3. CASE vectors # NoFile
    <3>1. <<t, "answer">> \in Object
      BY DEF Object
    <3>2. /\ pc'[t] = "stamp" /\ sent_response' = <<t, "answer">>
          /\ heap'[<<t, "answer">>].file = vectors
      BY <1>0, <1>6, <2>3, <3>1 DEF Copy, Goto, TypeOK
    <3>3. vectors = test_case_file[t] \/ InquiresNothing(t)
      BY <2>1, <2>3 DEF FreshInv
    <3> QED BY <1>s, <2>1, <3>2, <3>3 DEF FreshInv, Fresh, Granted, InquiresNothing
  <2> QED BY <2>2, <2>3
<1>7. CASE Stamp(t)
  <2>1. /\ UNCHANGED <<test_case_file, req, body, reply>>
        /\ pc[t] = "stamp" /\ req[t] \in Inquiry
        /\ sent_response \in {<<t, "answer">>, Unsent}
        /\ heap[<<t, "answer">>].file = test_case_file[t] \/ InquiresNothing(t)
    BY <1>r, <1>7 DEF Stamp, SettingsKept, FreshInv
  <2>2. CASE sent_response = Unsent
    BY <1>7, <1>s, <2>1, <2>2, ErrorIsFresh DEF Stamp
  <2>3. CASE sent_response # Unsent /\ "noCert" \in body[req[t]].faults
    <3>1. <<t, "error">> \in Object
      BY DEF Object
    <3>2. /\ pc'[t] = "sendError" /\ sent_response' = <<t, "error">>
          /\ heap'[<<t, "error">>] = ErrorResponse(req[t], -1)
      BY <1>0, <1>7, <2>3, <3>1 DEF Stamp, Goto, TypeOK
    <3>3. heap'[<<t, "error">>].code # 0
      BY <3>2 DEF ErrorResponse
    <3> QED BY <1>s, <2>1, <3>2, <3>3 DEF FreshInv, Fresh, Granted
  <2>4. CASE sent_response # Unsent /\ "noCert" \notin body[req[t]].faults
    <3>1. <<t, "answer">> \in Object /\ sent_response = <<t, "answer">>
      BY <2>1, <2>4 DEF Object
    <3>2. /\ pc'[t] = "filter" /\ sent_response' = <<t, "answer">>
          /\ resp'[t] = <<t, "answer">>
          /\ heap' = [heap EXCEPT ![<<t, "answer">>].requestId = req[t]]
      BY <1>0, <1>7, <2>4, <3>1 DEF Stamp, Goto, TypeOK
    <3>3. heap'[<<t, "answer">>].file = heap[<<t, "answer">>].file
      BY <1>0, <3>1, <3>2 DEF TypeOK, Response
    <3> QED BY <1>s, <2>1, <3>2, <3>3 DEF FreshInv, Fresh, Granted, InquiresNothing
  <2> QED BY <2>2, <2>3, <2>4
<1>8. CASE Filter(t)
  <2>1. /\ UNCHANGED <<test_case_file, req, body, reply, sent_response>>
        /\ pc[t] = "filter" /\ pc'[t] = "send" /\ resp[t] = <<t, "answer">>
        /\ sent_response \in {<<t, "answer">>, Unsent}
        /\ heap[<<t, "answer">>].file = test_case_file[t] \/ InquiresNothing(t)
    BY <1>0, <1>8 DEF Filter, globals, FreshInv, Goto, TypeOK
  <2>2. <<t, "answer">> \in Object
    BY DEF Object
  <2> DEFINE kept == [chan |-> heap[<<t, "answer">>].spectrum.chan \cap body[req[t]].chan,
                      freq |-> heap[<<t, "answer">>].spectrum.freq \cap body[req[t]].freq]
  <2>3. heap' = [heap EXCEPT ![<<t, "answer">>].spectrum = kept]
    BY <1>8, <2>1 DEF Filter
  <2>4. InquiresNothing(t) => kept = NoSpectrum
    BY DEF InquiresNothing, NoSpectrum
  <2> HIDE DEF kept
  <2>5. /\ heap'[<<t, "answer">>].spectrum = kept
        /\ heap'[<<t, "answer">>].file = heap[<<t, "answer">>].file
    BY <1>0, <2>2, <2>3 DEF TypeOK, Response
  <2> QED BY <1>s, <2>1, <2>4, <2>5 DEF FreshInv, Fresh, Granted
<1>9. CASE Send(t)
  <2>1. pc'[t] = "done" /\ UNCHANGED <<heap, test_case_file>>
    BY <1>0, <1>9 DEF Send, Goto, TypeOK
  <2>2. FreshInv(t)'
    BY <2>1 DEF FreshInv
  <2>3. reply'[t] = IF sent_response = Unsent THEN [status |-> "empty", response |-> Blank]
                    ELSE [status |-> "200", response |-> heap[sent_response]]
    BY <1>0, <1>9 DEF Send, TypeOK
  <2>4. CASE sent_response = Unsent
    <3>1. reply'[t].status = "empty"
      BY <2>3, <2>4
    <3> QED BY <2>2, <3>1 DEF Fresh, Granted
  <2>5. CASE sent_response # Unsent
    <3>1. reply'[t].response = heap[sent_response]
      BY <2>3, <2>5
    <3>2. CASE pc[t] = "send"
      <4>1. /\ sent_response = <<t, "answer">>
            /\ \/ heap[<<t, "answer">>].file = test_case_file[t]
               \/ heap[<<t, "answer">>].spectrum = NoSpectrum
        BY <2>5, <3>2 DEF FreshInv
      <4> QED BY <2>1, <2>2, <3>1, <4>1 DEF Fresh
    <3>3. CASE pc[t] = "sendError"
      <4>1. heap[sent_response].code # 0
        BY <2>5, <3>3 DEF FreshInv
      <4> QED BY <2>2, <3>1, <4>1 DEF Fresh, Granted
    <3> QED BY <1>9, <3>2, <3>3 DEF Send
  <2> QED BY <2>4, <2>5
<1> QED BY <1>1, <1>2, <1>3, <1>4, <1>5, <1>6, <1>7, <1>8, <1>9 DEF Handle

LEMMA NextFresh ==
  ASSUME ~Overlap, TypeInv, SequentialInv, [Next]_vars
  PROVE  SequentialInv'
<1>1. ASSUME NEW t \in Inquiry, NEW b \in Body, Receive(t, b) PROVE SequentialInv'
  <2>1. OthersRest(t)
    BY <1>1, HandlerFrame DEF SequentialInv
  <2>2. reply[t].status = "none"
    BY <1>1 DEF Receive, SequentialInv, FreshInv
  <2>3. CASE ~b.json
    <3>1. pc'[t] = "done" /\ reply'[t].status = "400"
      BY <1>1, <2>3 DEF Receive, Goto, TypeInv, TypeOK, Reply
    <3>2. FreshInv(t)' /\ Fresh(t)'
      BY <3>1 DEF FreshInv, Fresh, Granted
    <3> QED BY <2>1, <3>2, OthersStayFresh
  <2>4. CASE b.json /\ "unparsable" \in b.faults
    <3>1. gen_err_resp(t, 0, -1) /\ reply' = reply
      BY <1>1, <2>4, Zenon DEF Receive
    <3> QED BY <2>1, <2>2, <3>1, ErrorIsFresh, OthersStayFresh
  <2>5. CASE b.json /\ "unparsable" \notin b.faults
    <3>1. pc'[t] = "parse" /\ reply' = reply
      BY <1>1, <2>5 DEF Receive, Goto, TypeInv, TypeOK
    <3> QED BY <2>1, <2>2, <3>1, SilentIsFresh, OthersStayFresh
  <2> QED BY <2>3, <2>4, <2>5, Zenon
<1>2. ASSUME NEW t \in Inquiry, Handle(t) PROVE SequentialInv'
  BY <1>2, HandlerFrame, HandlerIsFresh, OthersStayFresh DEF SequentialInv
<1>3. ASSUME vectors' \in {vectors, NoFile}, sent_response' \in {sent_response, Unsent},
             UNCHANGED <<heap, pc, body, req, test_case_file, resp, reply>>
      PROVE  SequentialInv'
  <2>1. OneAtATime'
    BY <1>3 DEF SequentialInv, OneAtATime, Active
  <2>2. ASSUME NEW t \in Inquiry PROVE FreshInv(t)' /\ Fresh(t)'
    BY <1>3, <2>2 DEF SequentialInv, FreshInv, Fresh, Granted, InquiresNothing
  <2> QED BY <2>1, <2>2 DEF SequentialInv
<1>4. ASSUME NEW tc \in Setting, SetResponse(tc) PROVE SequentialInv'
  BY <1>3, <1>4 DEF SetResponse
<1>5. CASE Reset
  BY <1>3, <1>5 DEF Reset
<1>6. CASE UNCHANGED vars
  BY <1>3, <1>6 DEF vars, globals
<1> QED BY <1>1, <1>2, <1>4, <1>5, <1>6, Zenon DEF Next

\* To an access point that sends one inquiry at a time, spectrum is granted
\* from the file its own inquiry named, although vectors outlives the inquiry
\* before and set-response may come between Load and Copy.
THEOREM GrantIsFreshSequential ==
  ASSUME ~Overlap PROVE Spec => []GrantIsFresh
<1>1. Init => TypeInv /\ SequentialInv
  BY InitType, InitFresh
<1>2. TypeInv /\ SequentialInv /\ [Next]_vars => TypeInv' /\ SequentialInv'
  BY NextType, NextFresh
<1>3. SequentialInv => GrantIsFresh
  BY DEF SequentialInv, Fresh, GrantIsFresh
<1> QED BY <1>1, <1>2, <1>3, PTL DEF Spec
-----------------------------------------------------------------------------
(* The service implements AFCService. *)
Checked == {"accept", "load", "hold", "copy", "stamp", "filter", "send"}

\* The handler works on its own body, fills its own object and grants what
\* that body asked for.
OwnInv(t) ==
  /\ pc[t] = "parse" => /\ recv_request \in {t, Nobody}
                        /\ body[t].json /\ "unparsable" \notin body[t].faults
  /\ pc[t] \in Checked \cup {"validate"} =>
       /\ req[t] = t /\ body[t].json
       /\ "unparsable" \notin body[t].faults /\ "envelope" \notin body[t].faults
  /\ pc[t] \in Checked /\ body[t].faults # {} => "noCert" \in body[t].faults
  /\ pc[t] \in {"filter", "send"} => /\ body[t].faults = {}
                                     /\ heap[<<t, "answer">>].requestId = t
  /\ pc[t] = "send" =>
       /\ heap[<<t, "answer">>].spectrum.chan \subseteq body[t].chan
       /\ heap[<<t, "answer">>].spectrum.freq \subseteq body[t].freq
  /\ pc[t] = "done" => reply[t].status # "none"
  /\ Granted(t) => /\ body[t].json /\ body[t].faults = {}
                   /\ reply[t].response.requestId = t
                   /\ reply[t].response.spectrum.chan \subseteq body[t].chan
                   /\ reply[t].response.spectrum.freq \subseteq body[t].freq

Own == \A t \in Inquiry : OwnInv(t)
RefinementInv == TypeInv /\ SequentialInv /\ Own
-----------------------------------------------------------------------------
LEMMA RequestCodeFacts ==
  ASSUME NEW b \in BodyType, RequestCode(b) = 0, "unparsable" \notin b.faults,
         "envelope" \notin b.faults, b.faults # {}
  PROVE  "noCert" \in b.faults
BY DEF RequestCode, BodyType, Fault

LEMMA InitOwn == Init => Own
BY DEF Init, Own, OwnInv, Checked, Granted

\* A thread that has failed, or has no checked body yet, promises little.
LEMMA FailedOwn ==
  ASSUME NEW t \in Inquiry, pc'[t] = "sendError", reply'[t].status = "none"
  PROVE  OwnInv(t)'
BY DEF OwnInv, Checked, Granted

LEMMA HandleKeepsBody ==
  ASSUME NEW t \in Inquiry, Handle(t) PROVE body' = body
BY DEF Handle, Parse, Validate, Accept, Load, Release, Copy, Stamp, Filter, Send,
       SettingsKept

LEMMA HandlerOwn ==
  ASSUME TypeInv, NEW t \in Inquiry, FreshInv(t), OwnInv(t), Handle(t)
  PROVE  OwnInv(t)'
<1>0. TypeOK /\ body' = body
  BY HandleKeepsBody DEF TypeInv
<1>s. reply[t].status = "none"
  <2>1. pc[t] # "done"
    BY DEF Handle, Parse, Validate, Accept, Load, Release, Copy, Stamp, Filter, Send
  <2> QED BY <2>1 DEF FreshInv
<1>1. CASE Parse(t)
  <2> DEFINE missing == recv_request = Nobody \/ "envelope" \in body[recv_request].faults
  <2>1. /\ reply' = reply /\ pc[t] = "parse"
        /\ req' = IF missing THEN req ELSE [req EXCEPT ![t] = recv_request]
        /\ pc'[t] = IF missing THEN "sendError" ELSE "validate"
    BY <1>0, <1>1 DEF Parse, EnvelopeCodes, Check, gen_err_resp, Goto, TypeOK
  <2>2. CASE missing
    BY <1>s, <2>1, <2>2, FailedOwn
  <2>3. CASE ~missing
    <3>1. recv_request = t /\ "envelope" \notin body[t].faults
          /\ body[t].json /\ "unparsable" \notin body[t].faults
      BY <2>1, <2>3 DEF OwnInv
    <3>2. req'[t] = t /\ pc'[t] = "validate"
      BY <1>0, <2>1, <2>3, <3>1 DEF TypeOK
    <3> QED BY <1>0, <1>s, <2>1, <3>1, <3>2 DEF OwnInv, Checked, Granted
  <2> QED BY <2>2, <2>3
<1>2. CASE Validate(t)
  <2>1. /\ reply' = reply /\ req' = req /\ pc[t] = "validate" /\ req[t] = t
        /\ pc'[t] = IF RequestCode(body[t]) # 0 THEN "sendError" ELSE "accept"
    BY <1>0, <1>2 DEF Validate, Check, gen_err_resp, Goto, TypeOK, OwnInv
  <2>2. CASE RequestCode(body[t]) # 0
    BY <1>s, <2>1, <2>2, FailedOwn
  <2>3. CASE RequestCode(body[t]) = 0
    <3>1. body[t].json /\ "unparsable" \notin body[t].faults
          /\ "envelope" \notin body[t].faults
      BY <2>1 DEF OwnInv
    <3>2. body[t].faults # {} => "noCert" \in body[t].faults
      BY <1>0, <2>3, <3>1, RequestCodeFacts DEF TypeOK
    <3>3. pc'[t] = "accept"
      BY <2>1, <2>3
    <3> QED BY <1>0, <1>s, <2>1, <3>1, <3>2, <3>3 DEF OwnInv, Checked, Granted
  <2> QED BY <2>2, <2>3
\* These four go on with the checked body, or fail.
<1>3. CASE Accept(t) \/ Load(t) \/ Release(t) \/ Copy(t)
  <2>1. /\ reply' = reply /\ req' = req /\ pc[t] \in Checked
        /\ pc'[t] \in {"load", "hold", "copy", "stamp", "sendError"}
    BY <1>0, <1>3 DEF Accept, Load, Release, Copy, Check, gen_err_resp, Goto, TypeOK, Checked
  <2>2. /\ req[t] = t /\ body[t].json /\ "unparsable" \notin body[t].faults
        /\ "envelope" \notin body[t].faults
        /\ body[t].faults # {} => "noCert" \in body[t].faults
    BY <2>1 DEF OwnInv
  <2> QED BY <1>0, <1>s, <2>1, <2>2 DEF OwnInv, Checked, Granted
<1>7. CASE Stamp(t)
  <2>1. /\ reply' = reply /\ req' = req /\ pc[t] = "stamp" /\ req[t] = t
        /\ sent_response \in {<<t, "answer">>, Unsent}
        /\ body[t].json /\ "unparsable" \notin body[t].faults
        /\ "envelope" \notin body[t].faults
        /\ body[t].faults # {} => "noCert" \in body[t].faults
    BY <1>7 DEF Stamp, FreshInv, OwnInv, Checked
  <2>2. CASE sent_response = Unsent \/ "noCert" \in body[t].faults
    <3>1. pc'[t] = "sendError"
      BY <1>0, <1>7, <2>1, <2>2 DEF Stamp, gen_err_resp, Goto, TypeOK
    <3> QED BY <1>s, <2>1, <3>1, FailedOwn
  <2>3. CASE sent_response # Unsent /\ "noCert" \notin body[t].faults
    <3>1. <<t, "answer">> \in Object /\ sent_response = <<t, "answer">>
      BY <2>1, <2>3 DEF Object
    <3>2. pc'[t] = "filter" /\ heap' = [heap EXCEPT ![<<t, "answer">>].requestId = t]
      BY <1>0, <1>7, <2>1, <2>3, <3>1 DEF Stamp, Goto, TypeOK
    <3>3. heap'[<<t, "answer">>].requestId = t
      BY <1>0, <3>1, <3>2 DEF TypeOK, Response
    <3> QED BY <1>0, <1>s, <2>1, <2>3, <3>2, <3>3 DEF OwnInv, Checked, Granted
  <2> QED BY <2>2, <2>3
<1>8. CASE Filter(t)
  <2>1. /\ reply' = reply /\ req' = req /\ pc[t] = "filter" /\ req[t] = t
        /\ pc'[t] = "send" /\ resp[t] = <<t, "answer">> /\ body[t].faults = {}
        /\ body[t].json /\ heap[<<t, "answer">>].requestId = t
    BY <1>0, <1>8 DEF Filter, FreshInv, OwnInv, Checked, Goto, TypeOK
  <2>2. <<t, "answer">> \in Object
    BY DEF Object
  <2> DEFINE kept == [chan |-> heap[<<t, "answer">>].spectrum.chan \cap body[t].chan,
                      freq |-> heap[<<t, "answer">>].spectrum.freq \cap body[t].freq]
  <2>3. heap' = [heap EXCEPT ![<<t, "answer">>].spectrum = kept]
    BY <1>8, <2>1 DEF Filter
  <2>4. kept.chan \subseteq body[t].chan /\ kept.freq \subseteq body[t].freq
    OBVIOUS
  <2> HIDE DEF kept
  <2>5. /\ heap'[<<t, "answer">>].spectrum = kept
        /\ heap'[<<t, "answer">>].requestId = t
    BY <1>0, <2>1, <2>2, <2>3 DEF TypeOK, Response
  <2> QED BY <1>0, <1>s, <2>1, <2>4, <2>5 DEF OwnInv, Checked, Granted
<1>9. CASE Send(t)
  <2>1. pc'[t] = "done" /\ pc[t] \in {"send", "sendError"}
    BY <1>0, <1>9 DEF Send, Goto, TypeOK
  <2>2. reply'[t] = IF sent_response = Unsent THEN [status |-> "empty", response |-> Blank]
                    ELSE [status |-> "200", response |-> heap[sent_response]]
    BY <1>0, <1>9 DEF Send, TypeOK
  <2>3. CASE sent_response = Unsent \/ pc[t] = "sendError"
    <3>1. ~Granted(t)' /\ reply'[t].status # "none"
      BY <2>2, <2>3 DEF FreshInv, Granted
    <3> QED BY <2>1, <3>1 DEF OwnInv, Checked
  <2>4. CASE sent_response # Unsent /\ pc[t] = "send"
    <3>1. sent_response = <<t, "answer">>
      BY <2>4 DEF FreshInv
    <3>2. reply'[t].response = heap[<<t, "answer">>] /\ reply'[t].status = "200"
      BY <2>2, <2>4, <3>1
    <3>3. /\ body[t].json /\ body[t].faults = {} /\ heap[<<t, "answer">>].requestId = t
          /\ heap[<<t, "answer">>].spectrum.chan \subseteq body[t].chan
          /\ heap[<<t, "answer">>].spectrum.freq \subseteq body[t].freq
      BY <2>4 DEF OwnInv, Checked
    <3> QED BY <1>0, <2>1, <3>2, <3>3 DEF OwnInv, Checked
  <2> QED BY <2>1, <2>3, <2>4
<1> QED BY <1>1, <1>2, <1>3, <1>7, <1>8, <1>9 DEF Handle

\* A thread at rest keeps what is known of it.
LEMMA RestingOwn ==
  ASSUME NEW u \in Inquiry, OwnInv(u), pc[u] \in {"idle", "done"}, pc'[u] = pc[u],
         body'[u] = body[u], reply'[u] = reply[u]
  PROVE  OwnInv(u)'
BY DEF OwnInv, Checked, Granted

LEMMA NextOwn ==
  ASSUME ~Overlap, TypeInv, SequentialInv, Own, [Next]_vars
  PROVE  Own'
<1>1. ASSUME NEW t \in Inquiry, NEW b \in Body, Receive(t, b) PROVE Own'
  <2>1. OthersRest(t)
    BY <1>1, HandlerFrame DEF SequentialInv
  <2>2. body' = [body EXCEPT ![t] = b] /\ pc[t] = "idle" /\ reply[t].status = "none"
    BY <1>1 DEF Receive, SequentialInv, FreshInv
  <2>3. ASSUME NEW u \in Inquiry \ {t} PROVE OwnInv(u)'
    <3>1. body'[u] = body[u]
      BY <2>2 DEF TypeInv, TypeOK
    <3>2. pc[u] \in {"idle", "done"} /\ pc'[u] = pc[u] /\ reply'[u] = reply[u]
      BY <2>1 DEF OthersRest, Active
    <3> QED BY <3>1, <3>2, RestingOwn DEF Own
  <2>4. OwnInv(t)'
    <3>1. CASE ~b.json
      <4>1. pc'[t] = "done" /\ reply'[t].status = "400"
        BY <1>1, <3>1 DEF Receive, Goto, TypeInv, TypeOK, Reply
      <4> QED BY <4>1 DEF OwnInv, Checked, Granted
    <3>2. CASE b.json /\ "unparsable" \in b.faults
      <4>1. pc'[t] = "sendError" /\ reply' = reply
        BY <1>1, <3>2 DEF Receive, gen_err_resp, Goto, TypeInv, TypeOK
      <4> QED BY <2>2, <4>1, FailedOwn
    <3>3. CASE b.json /\ "unparsable" \notin b.faults
      <4>1. pc'[t] = "parse" /\ reply' = reply /\ recv_request' = t /\ body'[t] = b
        BY <1>1, <3>3 DEF Receive, Goto, TypeInv, TypeOK
      <4> QED BY <2>2, <3>3, <4>1 DEF OwnInv, Checked, Granted
    <3> QED BY <3>1, <3>2, <3>3
  <2> QED BY <2>3, <2>4 DEF Own
<1>2. ASSUME NEW t \in Inquiry, Handle(t) PROVE Own'
  <2>1. OthersRest(t) /\ body' = body
    BY <1>2, HandlerFrame, HandleKeepsBody DEF SequentialInv
  <2>2. ASSUME NEW u \in Inquiry \ {t} PROVE OwnInv(u)'
    <3>1. pc[u] \in {"idle", "done"} /\ pc'[u] = pc[u] /\ reply'[u] = reply[u]
      BY <2>1 DEF OthersRest, Active
    <3> QED BY <2>1, <3>1, RestingOwn DEF Own
  <2>3. OwnInv(t)'
    BY <1>2, HandlerOwn DEF SequentialInv, Own
  <2> QED BY <2>2, <2>3 DEF Own
<1>3. ASSUME recv_request' \in {recv_request, Nobody},
             UNCHANGED <<heap, pc, body, req, reply>>
      PROVE  Own'
  <2>1. ASSUME NEW t \in Inquiry PROVE OwnInv(t)'
    BY <1>3, <2>1 DEF Own, OwnInv, Granted
  <2> QED BY <2>1 DEF Own
<1>4. ASSUME NEW tc \in Setting, SetResponse(tc) PROVE Own'
  BY <1>3, <1>4 DEF SetResponse
<1>5. CASE Reset
  BY <1>3, <1>5 DEF Reset
<1>6. CASE UNCHANGED vars
  BY <1>3, <1>6 DEF vars, globals
<1> QED BY <1>1, <1>2, <1>4, <1>5, <1>6, Zenon DEF Next
-----------------------------------------------------------------------------
\* What is mapped of an inquiry depends on its own thread's state only.
LEMMA SameThread ==
  ASSUME NEW t \in Inquiry, (pc[t] = "idle") <=> (pc'[t] = "idle"),
         body'[t] = body[t], reply'[t] = reply[t]
  PROVE  Requested(t)' = Requested(t) /\ Answering(t)' = Answering(t)
BY DEF Requested, Answering, Granted

LEMMA InitService == Init => Service!Init
<1> SUFFICES ASSUME Init PROVE Service!Init
  OBVIOUS
<1>1. ASSUME NEW t \in Inquiry PROVE Requested(t) = Service!NotAsked
  BY DEF Init, Requested, Service!NotAsked
<1>2. ASSUME NEW t \in Inquiry PROVE Answering(t) = Service!Pending
  BY DEF Init, Answering, Service!Pending, Granted
<1> QED BY <1>1, <1>2 DEF Service!Init

LEMMA ReceiveService ==
  ASSUME ~Overlap, RefinementInv, TypeInv', NEW t \in Inquiry, NEW b \in Body,
         Receive(t, b)
  PROVE  Service!Ask(t)
<1> USE DEF RefinementInv
<1>1. pc[t] = "idle" /\ pc'[t] # "idle"
  BY DEF Receive, gen_err_resp, Goto, TypeInv, TypeOK
<1>2. reply[t].status = "none"
  BY <1>1 DEF SequentialInv, FreshInv
<1>3. ASSUME NEW u \in Inquiry, u # t
      PROVE  Requested(u)' = Requested(u) /\ Answering(u)' = Answering(u)
  <2>1. pc'[u] = pc[u] /\ body'[u] = body[u] /\ reply'[u] = reply[u]
    BY <1>3 DEF Receive, gen_err_resp, Goto, TypeInv, TypeOK
  <2> QED BY <2>1, SameThread
<1>4. Requested(t) = Service!NotAsked
  BY <1>1 DEF Requested, Service!NotAsked
<1>5. ASSUME NEW u \in Inquiry
      PROVE  Requested(u) = Service!NotAsked \/ Answering(u) # Service!Pending
  <2>1. pc[u] \in {"idle", "done"}
    BY DEF Receive, Active
  <2>2. CASE pc[u] = "idle"
    BY <2>2 DEF Requested, Service!NotAsked
  <2>3. CASE pc[u] = "done"
    BY <2>3 DEF Own, OwnInv, Answering, Service!Pending
  <2> QED BY <2>1, <2>2, <2>3
<1>6. Requested(t)' \in Service!Request
  <2>1. body'[t] \in BodyType
    BY DEF TypeInv, TypeOK
  <2> QED BY <1>1, <2>1 DEF Requested, BodyType, Service!Request
<1>7. Answering(t)' = Answering(t) \/ Answering(t)' = Service!Refused
  <2>1. reply'[t] = reply[t] \/ reply'[t].status = "400"
    BY DEF Receive, TypeInv, TypeOK, Reply
  <2>2. CASE reply'[t] = reply[t]
    BY <2>2 DEF Answering, Granted
  <2>3. CASE reply'[t].status = "400"
    BY <2>3 DEF Answering, Granted, Service!Refused, Service!Pending
  <2> QED BY <2>1, <2>2, <2>3
<1> QED
  BY <1>3, <1>4, <1>5, <1>6, <1>7 DEF Service!Ask, Service!Open

LEMMA SendService ==
  ASSUME RefinementInv, RefinementInv', NEW t \in Inquiry, Send(t)
  PROVE  Service!Answer(t)
<1> USE DEF RefinementInv
<1>1. /\ pc[t] \in {"send", "sendError"} /\ pc'[t] = "done" /\ body' = body
  BY DEF Send, Goto, TypeInv, TypeOK
<1>2. reply[t].status = "none" /\ reply'[t].status # "none"
  BY <1>1 DEF SequentialInv, FreshInv, Own, OwnInv
<1>3. ASSUME NEW u \in Inquiry PROVE Requested(u)' = Requested(u)
  <2>1. (pc[u] = "idle") <=> (pc'[u] = "idle")
    BY <1>1 DEF Send, Goto, TypeInv, TypeOK
  <2> QED BY <1>1, <2>1 DEF Requested
<1>4. ASSUME NEW u \in Inquiry, u # t PROVE Answering(u)' = Answering(u)
  <2>1. reply'[u] = reply[u]
    BY <1>4 DEF Send, TypeInv, TypeOK
  <2> QED BY <2>1 DEF Answering, Granted
<1>5. Requested(t) # Service!NotAsked /\ Answering(t) = Service!Pending
  <2>1. Requested(t).sent # Service!NotAsked.sent
    BY <1>1 DEF Requested, Service!NotAsked
  <2>2. Answering(t) = Service!Pending
    BY <1>2 DEF Answering, Granted, Service!Pending
  <2> QED BY <2>1, <2>2
<1>6. CASE ~Granted(t)'
  <2>1. Answering(t)' = Service!Refused
    BY <1>2, <1>6 DEF Answering, Granted, Service!Refused, Service!Pending
  <2> QED BY <1>3, <1>4, <1>5, <2>1 DEF Service!Answer, Service!Open
<1>7. CASE Granted(t)'
  <2> DEFINE a == reply'[t].response
  <2>1. /\ a.requestId = t /\ body[t].json /\ body[t].faults = {}
        /\ a.spectrum.chan \subseteq body[t].chan
        /\ a.spectrum.freq \subseteq body[t].freq
    BY <1>1, <1>7 DEF Own, OwnInv
  <2>2. Answering(t)' = [status |-> "granted", requestId |-> t,
                         chan |-> a.spectrum.chan, freq |-> a.spectrum.freq]
    BY <1>2, <1>7, <2>1 DEF Answering
  <2>3. /\ Requested(t).sound /\ Requested(t).chan = body[t].chan
        /\ Requested(t).freq = body[t].freq
    BY <1>1, <2>1 DEF Requested
  <2>4. Answering(t)' \in Service!Grants(t, Requested(t))
    BY <2>1, <2>2, <2>3 DEF Service!Grants
  <2> QED BY <1>3, <1>4, <1>5, <2>3, <2>4 DEF Service!Answer, Service!Open
<1> QED BY <1>6, <1>7

LEMMA NextService ==
  ASSUME ~Overlap, RefinementInv, RefinementInv', [Next]_vars
  PROVE  [Service!Next]_(Service!serviceVars)
<1> USE DEF RefinementInv
<1>1. ASSUME \A u \in Inquiry : (pc[u] = "idle") <=> (pc'[u] = "idle"),
             body' = body, reply' = reply
      PROVE  UNCHANGED Service!serviceVars
  BY <1>1, SameThread DEF Service!serviceVars
<1>2. ASSUME NEW t \in Inquiry, NEW b \in Body, Receive(t, b) PROVE Service!Next
  BY <1>2, ReceiveService DEF Service!Next
<1>3. ASSUME NEW t \in Inquiry, Send(t) PROVE Service!Next
  BY <1>3, SendService DEF Service!Next
<1>4. ASSUME NEW t \in Inquiry, Handle(t), ~Send(t)
      PROVE  UNCHANGED Service!serviceVars
  <2>1. body' = body /\ reply' = reply
    BY <1>4 DEF Handle, Parse, Validate, Accept, Load, Release, Copy, Stamp, Filter,
                SettingsKept
  <2>2. \A u \in Inquiry : (pc[u] = "idle") <=> (pc'[u] = "idle")
    BY <1>4 DEF Handle, Parse, Validate, Accept, Load, Release, Copy, Stamp, Filter,
                Check, gen_err_resp, Goto, TypeInv, TypeOK
  <2> QED BY <1>1, <2>1, <2>2
<1>5. CASE (\E tc \in Setting : SetResponse(tc)) \/ Reset \/ UNCHANGED vars
  BY <1>1, <1>5 DEF SetResponse, Reset, vars
<1> QED BY <1>2, <1>3, <1>4, <1>5 DEF Next

\* To an access point that sends one inquiry at a time the service does what
\* AFCService does, although its globals outlive the scripts that rewrite them
\* between the handler's steps: each inquiry is answered once, and granted
\* only what it asked for.
THEOREM FcApImplementsService ==
  ASSUME ~Overlap PROVE Spec => ImplementsService
<1>1. Init => RefinementInv /\ Service!Init
  BY InitType, InitFresh, InitOwn, InitService DEF RefinementInv
<1>2. RefinementInv /\ [Next]_vars => RefinementInv'
  BY NextType, NextFresh, NextOwn DEF RefinementInv
<1>3. RefinementInv /\ RefinementInv' /\ [Next]_vars
      => [Service!Next]_(Service!serviceVars)
  BY NextService
<1> QED BY <1>1, <1>2, <1>3, PTL DEF Spec, ImplementsService, Service!Spec
=============================================================================
