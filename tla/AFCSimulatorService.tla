------------------------ MODULE AFCSimulatorService ------------------------
(***************************************************************************)
(* The refinement mapping from the simulator's handler threads to          *)
(* AFCService.                                                             *)
(***************************************************************************)
EXTENDS AFCSimulator

\* What the body of an inquiry asks for, once it has been posted.
Requested(t) ==
  LET posted == pc[t] # "idle" IN
  [sent |-> posted,
   sound |-> posted /\ body[t].json /\ body[t].faults = {},
   chan |-> IF posted THEN FilterCfi(body[t]) ELSE {},
   freq |-> IF posted THEN body[t].freq ELSE {}]

\* What the HTTP response grants.
Answering(t) ==
  LET a == reply[t].response IN
  [status |-> IF reply[t].status = "none" THEN "pending"
              ELSE IF Granted(t) THEN "granted" ELSE "refused",
   requestId |-> IF Granted(t) THEN a.requestId ELSE 0,
   chan |-> IF Granted(t) THEN a.spectrum.chan ELSE {},
   freq |-> IF Granted(t) THEN a.spectrum.freq ELSE {}]

Service == INSTANCE AFCService WITH
             asked <- [t \in Inquiry |-> Requested(t)],
             answer <- [t \in Inquiry |-> Answering(t)]

\* As long as the DUT sends one inquiry at a time, the handler in
\* AvailableSpectrum.post implements AFCService, although it works on globals
\* that set-response, set-params and reset rewrite between its steps.
ImplementsService == Service!Spec
=============================================================================
