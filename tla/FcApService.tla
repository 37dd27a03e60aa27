----------------------------- MODULE FcApService ------------------------------
(***************************************************************************)
(* The AFC simulator for the standard power access point that a fixed      *)
(* client under test is connected to (afc_fc_ap_service, routes.py): a     *)
(* second Flask service on its own port, with its own globals.  The access *)
(* point inquires on its own account; the test scripts only tell the       *)
(* service the country (AFCLib.set_afc_response) and never reset it, so    *)
(* its state outlives them.  The rest of its interface is modelled too.    *)
(*                                                                         *)
(* As in AFCSimulator a handler is a sequence of steps between accesses of *)
(* the globals, and spectrum is a set of channels and a set of ranges.     *)
(***************************************************************************)
EXTENDS Integers, FiniteSets

CONSTANTS
  Inquiry,      \* the inquiries of the access point, one thread each
  Cfi,          \* the channels and ranges that answers may grant
  Body,         \* the request bodies it may post
  Setting,      \* the bodies posted to set-response
  VectorFile,   \* the test vector files: name -> Spectrum
  Overlap       \* may it post an inquiry while another is unanswered?

Spectrum == [chan: SUBSET Cfi, freq: SUBSET Cfi]
NoSpectrum == [chan |-> {}, freq |-> {}]

\* What can be wrong with a body; envelope: version, the list of inquiries or
\* the requestId is missing, or that list is empty; noCert: the
\* certificationId list is.
Fault == {"unparsable", "envelope", "descriptor", "certType", "version",
          "noCert", "rulesetType", "locationKey", "location", "inquired",
          "wrongType"}
BodyType == [json: BOOLEAN, faults: SUBSET Fault, country: {"US", "CA"},
             chan: SUBSET Cfi, freq: SUBSET Cfi]

IsSetting(tc) ==
  /\ DOMAIN tc \subseteq {"purpose", "testVector", "phase", "holdResponse", "countryCode"}
  /\ "testVector" \in DOMAIN tc => tc.testVector \in 0..3
  /\ "phase" \in DOMAIN tc => tc.phase \in 1..2
  /\ "holdResponse" \in DOMAIN tc => tc.holdResponse \in BOOLEAN
  /\ "countryCode" \in DOMAIN tc => tc.countryCode \in {"US", "CA"}
Given(tc, key, otherwise) == IF key \in DOMAIN tc THEN tc[key] ELSE otherwise

Nobody == "nobody"
NoFile == <<"none">>
ASSUME FcApAssumption ==
  /\ Nobody \notin Inquiry
  /\ Body \subseteq BodyType
  /\ \A tc \in Setting : IsSetting(tc)
  /\ NoFile \notin DOMAIN VectorFile
  /\ \A name \in DOMAIN VectorFile : VectorFile[name] \in Spectrum
  /\ Overlap \in BOOLEAN
-----------------------------------------------------------------------------
VARIABLES
  (* The globals. *)
  vectors,            \* the file it was loaded from, NoFile for {}
  recv_request,       \* whose body is in recv_request["body"]
  valid_request, hold_response,
  sent_response,      \* the response object it refers to
  phase, filename_prefix, script_test_vector, country_code,
  (* The response objects, and the handler threads. *)
  heap,
  pc,
  body,               \* the body posted to the thread
  req,                \* the inquiry whose body it has read back
  test_case_file,     \* the file it has loaded
  resp,               \* the object its local "resp" points into
  reply               \* the HTTP response it returned

globals == <<vectors, recv_request, valid_request, hold_response, sent_response,
             phase, filename_prefix, script_test_vector, country_code>>
vars == <<globals, heap, pc, body, req, test_case_file, resp, reply>>

Object == Inquiry \X {"answer", "error"}
Unsent == <<Nobody, "none">>
Response == [requestId: Inquiry \cup {0}, code: {-1, 0, 100, 102, 103},
             file: DOMAIN VectorFile \cup {NoFile}, spectrum: Spectrum]
ErrorResponse(id, code) ==
  [requestId |-> id, code |-> code, file |-> NoFile, spectrum |-> NoSpectrum]
Blank == ErrorResponse(0, 0)
Reply == [status: {"none", "400", "empty", "200"}, response: Response]

TypeOK ==
  /\ vectors \in DOMAIN VectorFile \cup {NoFile}
  /\ recv_request \in Inquiry \cup {Nobody}
  /\ valid_request \in BOOLEAN /\ hold_response \in BOOLEAN
  /\ sent_response \in Object \cup {Unsent}
  /\ phase \in 0..2 /\ script_test_vector \in 0..3
  /\ filename_prefix \in {"default", "named"}
  /\ country_code \in {"US", "CA"}
  /\ heap \in [Object -> Response]
  /\ pc \in [Inquiry -> {"idle", "parse", "validate", "accept", "load", "hold", "copy",
                         "stamp", "filter", "send", "sendError", "done"}]
  /\ body \in [Inquiry -> BodyType]
  /\ req \in [Inquiry -> Inquiry \cup {Nobody}]
  /\ test_case_file \in [Inquiry -> DOMAIN VectorFile \cup {NoFile}]
  /\ resp \in [Inquiry -> Object \cup {Unsent}]
  /\ reply \in [Inquiry -> Reply]

Init ==
  /\ vectors = NoFile /\ recv_request = Nobody
  /\ valid_request = FALSE /\ hold_response = FALSE /\ sent_response = Unsent
  /\ phase = 0 /\ filename_prefix = "default" /\ script_test_vector = 0
  /\ country_code = "US"
  /\ heap = [o \in Object |-> Blank]
  /\ pc = [t \in Inquiry |-> "idle"]
  /\ body = [t \in Inquiry |-> [json |-> FALSE, faults |-> {}, country |-> "US",
                                chan |-> {}, freq |-> {}]]
  /\ req = [t \in Inquiry |-> Nobody]
  /\ test_case_file = [t \in Inquiry |-> NoFile]
  /\ resp = [t \in Inquiry |-> Unsent]
  /\ reply = [t \in Inquiry |-> [status |-> "none", response |-> Blank]]
-----------------------------------------------------------------------------
(* The handler of an inquiry, AvailableSpectrum.post. *)

\* The responseCode of the first check of its content that b fails, else 0.
RequestCode(b) ==
  IF "descriptor" \in b.faults THEN 102
  ELSE IF "certType" \in b.faults THEN 103
  ELSE IF "version" \in b.faults THEN 100
  ELSE IF "noCert" \notin b.faults /\ "rulesetType" \in b.faults THEN 103
  ELSE IF "noCert" \notin b.faults /\ b.country # country_code THEN -1
  ELSE IF "locationKey" \in b.faults THEN 102
  ELSE IF "location" \in b.faults THEN -1
  ELSE IF "inquired" \in b.faults THEN 102
  ELSE IF "wrongType" \in b.faults THEN -1
  ELSE 0

\* vec: the script's test vector, else what the body inquires, 0 for nothing.
Vec(b) == IF script_test_vector # 0 THEN script_test_vector
          ELSE IF b.freq # {} /\ b.chan # {} THEN 3
          ELSE IF b.chan # {} THEN 2
          ELSE IF b.freq # {} THEN 1 ELSE 0
FileName(vec) == IF filename_prefix = "default" THEN <<"default", country_code>>
                 ELSE <<"named", vec, phase>>

Goto(t, step) == pc' = [pc EXCEPT ![t] = step]
Active(t) == pc[t] \notin {"idle", "done"}

gen_err_resp(t, id, code) ==
  /\ heap' = [heap EXCEPT ![<<t, "error">>] = ErrorResponse(id, code)]
  /\ sent_response' = <<t, "error">>
  /\ Goto(t, "sendError")

Receive(t, b) ==
  /\ pc[t] = "idle"
  /\ Overlap \/ \A u \in Inquiry : ~Active(u)
  /\ body' = [body EXCEPT ![t] = b]
  /\ \/ /\ ~b.json
        /\ recv_request' = Nobody
        /\ reply' = [reply EXCEPT ![t].status = "400"]
        /\ Goto(t, "done") /\ UNCHANGED <<heap, sent_response>>
     \/ /\ b.json /\ "unparsable" \in b.faults
        /\ gen_err_resp(t, 0, -1) /\ UNCHANGED <<recv_request, reply>>
     \/ /\ b.json /\ "unparsable" \notin b.faults
        /\ recv_request' = t
        /\ Goto(t, "parse") /\ UNCHANGED <<heap, sent_response, reply>>
  /\ UNCHANGED <<vectors, valid_request, hold_response, phase, filename_prefix,
                 script_test_vector, country_code, req, test_case_file, resp>>

\* What the steps of a handler leave alone.
SettingsKept == UNCHANGED <<recv_request, hold_response, phase, filename_prefix,
                            script_test_vector, country_code, body>>
\* It goes on to the next step, or makes an error response.
Check(t, id, code, next) ==
  IF code # 0 THEN gen_err_resp(t, id, code)
  ELSE Goto(t, next) /\ UNCHANGED <<heap, sent_response>>

\* The body is read back from the global, which may have been cleared.  What
\* is missing is a KeyError, an empty list of inquiries any other exception.
EnvelopeCodes == IF recv_request = Nobody THEN {102} ELSE {-1, 102}
Parse(t) ==
  LET missing == recv_request = Nobody \/ "envelope" \in body[recv_request].faults
  IN /\ pc[t] = "parse"
     /\ \E code \in EnvelopeCodes : Check(t, 0, IF missing THEN code ELSE 0, "validate")
     /\ req' = IF missing THEN req ELSE [req EXCEPT ![t] = recv_request]
     /\ SettingsKept /\ UNCHANGED <<vectors, valid_request, test_case_file, resp, reply>>

Validate(t) ==
  /\ pc[t] = "validate"
  /\ Check(t, req[t], RequestCode(body[req[t]]), "accept")
  /\ SettingsKept
  /\ UNCHANGED <<vectors, valid_request, req, test_case_file, resp, reply>>

Accept(t) ==
  /\ pc[t] = "accept"
  /\ valid_request' = TRUE
  /\ Goto(t, "load")
  /\ SettingsKept
  /\ UNCHANGED <<vectors, sent_response, heap, req, test_case_file, resp, reply>>

LoadOnce(t) ==                     \* mutant: vectors are only loaded when there are none
  LET vec == Vec(body[req[t]])
      name == FileName(vec)
      found == vec # 0 /\ name \in DOMAIN VectorFile
  IN /\ pc[t] = "load"
     /\ Check(t, req[t], IF vec # 0 /\ ~found THEN -1 ELSE 0, "hold")
     /\ vectors' = IF found /\ vectors = NoFile THEN name ELSE vectors
     /\ test_case_file' = IF found THEN [test_case_file EXCEPT ![t] = name]
                          ELSE test_case_file
     /\ SettingsKept /\ UNCHANGED <<valid_request, req, resp, reply>>

LoadAnyway(t) ==                   \* mutant: a missing file is not noticed
  /\ pc[t] = "load"
  /\ vectors' = FileName(Vec(body[req[t]]))
  /\ test_case_file' = [test_case_file EXCEPT ![t] = FileName(Vec(body[req[t]]))]
  /\ Goto(t, "hold")
  /\ SettingsKept /\ UNCHANGED <<valid_request, heap, sent_response, req, resp, reply>>

\* An inquiry about nothing, without a test vector, leaves the last file in
\* vectors.
Load(t) ==
  LET vec == Vec(body[req[t]])
      name == FileName(vec)
      found == vec # 0 /\ name \in DOMAIN VectorFile
  IN /\ pc[t] = "load"
     /\ Check(t, req[t], IF vec # 0 /\ ~found THEN -1 ELSE 0, "hold")
     /\ vectors' = IF found THEN name ELSE vectors
     /\ test_case_file' = IF found THEN [test_case_file EXCEPT ![t] = name]
                          ELSE test_case_file
     /\ SettingsKept /\ UNCHANGED <<valid_request, req, resp, reply>>

ReleaseLoaded(t) ==                \* mutant: it also waits for vectors
  /\ pc[t] = "hold" /\ ~hold_response /\ vectors # NoFile
  /\ Goto(t, "copy")
  /\ UNCHANGED <<globals, heap, body, req, test_case_file, resp, reply>>

Release(t) ==
  /\ pc[t] = "hold" /\ ~hold_response
  /\ Goto(t, "copy")
  /\ UNCHANGED <<globals, heap, body, req, test_case_file, resp, reply>>

Copy(t) ==
  /\ pc[t] = "copy"
  /\ \/ /\ vectors = NoFile
        /\ gen_err_resp(t, req[t], -1)
     \/ /\ vectors # NoFile
        /\ heap' = [heap EXCEPT ![<<t, "answer">>] =
                      [requestId |-> 0, code |-> 0, file |-> vectors,
                       spectrum |-> VectorFile[vectors]]]
        /\ sent_response' = <<t, "answer">>
        /\ Goto(t, "stamp")
  /\ SettingsKept
  /\ UNCHANGED <<vectors, valid_request, req, test_case_file, resp, reply>>

\* requestId, then rulesetId (ruleset_ids[0] fails for noCert), are written
\* into whatever sent_response refers to by now.
Stamp(t) ==
  LET stamped == [heap EXCEPT ![sent_response].requestId = req[t]] IN
  /\ pc[t] = "stamp"
  /\ \/ /\ sent_response = Unsent
        /\ gen_err_resp(t, req[t], -1) /\ UNCHANGED resp
     \/ /\ sent_response # Unsent /\ "noCert" \in body[req[t]].faults
        /\ heap' = [stamped EXCEPT ![<<t, "error">>] = ErrorResponse(req[t], -1)]
        /\ sent_response' = <<t, "error">>
        /\ Goto(t, "sendError") /\ UNCHANGED resp
     \/ /\ sent_response # Unsent /\ "noCert" \notin body[req[t]].faults
        /\ heap' = stamped
        /\ resp' = [resp EXCEPT ![t] = sent_response]
        /\ Goto(t, "filter") /\ UNCHANGED sent_response
  /\ SettingsKept /\ UNCHANGED <<vectors, valid_request, req, test_case_file, reply>>

\* What was inquired, and no more.  The lists are emptied and refilled, which
\* only an overlapping inquiry could see.
FilterChannels(t) ==               \* mutant: the ranges are not filtered
  /\ pc[t] = "filter"
  /\ heap' = [heap EXCEPT ![resp[t]].spectrum.chan = @ \cap body[req[t]].chan]
  /\ Goto(t, "send")
  /\ UNCHANGED <<globals, body, req, test_case_file, resp, reply>>

Filter(t) ==
  /\ pc[t] = "filter"
  /\ heap' = [heap EXCEPT ![resp[t]].spectrum =
                [chan |-> @.chan \cap body[req[t]].chan,
                 freq |-> @.freq \cap body[req[t]].freq]]
  /\ Goto(t, "send")
  /\ UNCHANGED <<globals, body, req, test_case_file, resp, reply>>

Send(t) ==
  /\ pc[t] \in {"send", "sendError"}
  /\ reply' = [reply EXCEPT ![t] =
       IF sent_response = Unsent THEN [status |-> "empty", response |-> Blank]
       ELSE [status |-> "200", response |-> heap[sent_response]]]
  /\ Goto(t, "done")
  /\ UNCHANGED <<globals, heap, body, req, test_case_file, resp>>

Handle(t) == \/ Parse(t) \/ Validate(t) \/ Accept(t) \/ Load(t) \/ Release(t)
             \/ Copy(t) \/ Stamp(t) \/ Filter(t) \/ Send(t)
-----------------------------------------------------------------------------
(* The operations of the scripts. *)

\* POST /set-response.  Only a purpose clears the exchange.
SetResponse(tc) ==
  LET new == "purpose" \in DOMAIN tc IN
  /\ vectors' = IF new THEN NoFile ELSE vectors
  /\ recv_request' = IF new THEN Nobody ELSE recv_request
  /\ sent_response' = IF new THEN Unsent ELSE sent_response
  /\ filename_prefix' = IF new THEN "named" ELSE filename_prefix
  /\ phase' = Given(tc, "phase", IF new THEN 0 ELSE phase)
  /\ script_test_vector' = Given(tc, "testVector", script_test_vector)
  /\ hold_response' = Given(tc, "holdResponse", hold_response)
  /\ country_code' = Given(tc, "countryCode", country_code)
  /\ UNCHANGED <<valid_request, heap, pc, body, req, test_case_file, resp, reply>>

\* POST /reset.  country_code survives.
Reset ==
  /\ vectors' = NoFile /\ recv_request' = Nobody /\ sent_response' = Unsent
  /\ phase' = 0 /\ filename_prefix' = "default" /\ script_test_vector' = 0
  /\ hold_response' = FALSE /\ valid_request' = FALSE
  /\ UNCHANGED <<country_code, heap, pc, body, req, test_case_file, resp, reply>>

Next ==
  \/ \E t \in Inquiry : (\E b \in Body : Receive(t, b)) \/ Handle(t)
  \/ \E tc \in Setting : SetResponse(tc)
  \/ Reset

Spec == Init /\ [][Next]_vars
FairSpec == Spec /\ \A t \in Inquiry : WF_vars(Handle(t))
-----------------------------------------------------------------------------
Granted(t) == reply[t].status = "200" /\ reply[t].response.code = 0

\* What an inquiry asks for and what it is answered, for AFCService.
Requested(t) ==
  LET posted == pc[t] # "idle" IN
  [sent |-> posted, sound |-> posted /\ body[t].json /\ body[t].faults = {},
   chan |-> IF posted THEN body[t].chan ELSE {},
   freq |-> IF posted THEN body[t].freq ELSE {}]
Answering(t) ==
  LET a == reply[t].response IN
  [status |-> IF reply[t].status = "none" THEN "pending"
              ELSE IF Granted(t) THEN "granted" ELSE "refused",
   requestId |-> IF Granted(t) THEN a.requestId ELSE 0,
   chan |-> IF Granted(t) THEN a.spectrum.chan ELSE {},
   freq |-> IF Granted(t) THEN a.spectrum.freq ELSE {}]
Service == INSTANCE AFCService WITH
             asked <- [t \in Inquiry |-> Requested(t)],
             answer <- [t \in Inquiry |-> Answering(t)]

\* To an access point that sends one inquiry at a time, the service keeps the
\* promises of AFCService, although the scripts, which do not know when the
\* access point inquires, rewrite its globals between the handler's steps.
ImplementsService == Service!Spec

\* The globals outlive the test scripts, yet spectrum that is granted comes
\* from the file that the inquiry itself named, never from one that an earlier
\* inquiry, perhaps of another country's test, has left in vectors.
GrantIsFresh ==
  \A t \in Inquiry :
    Granted(t) /\ reply[t].response.spectrum # NoSpectrum =>
      reply[t].response.file = test_case_file[t]

\* An inquiry is answered once the response is held no more.
Answered ==
  <>[](~hold_response) => \A t \in Inquiry : Active(t) ~> (pc[t] = "done")
=============================================================================
