----------------------------- MODULE AFCService -----------------------------
(***************************************************************************)
(* What the AFC simulator promises to a device that sends one inquiry at a *)
(* time, whatever the test script does meanwhile: every inquiry is         *)
(* answered at most once, and a grant is made only for a sound inquiry,    *)
(* under its own requestId, and only of spectrum that it inquired about.   *)
(*                                                                         *)
(* There is no test script, no phase, no test vector and no step of a      *)
(* handler here; AFCSimulatorService maps the simulator to this module.    *)
(***************************************************************************)
CONSTANTS Inquiry, Cfi

VARIABLES
  asked,       \* what an inquiry asks for, NotAsked before it is sent
  answer       \* its answer, Pending while there is none

serviceVars == <<asked, answer>>

Request == [sent: {TRUE}, sound: BOOLEAN, chan: SUBSET Cfi, freq: SUBSET Cfi]
NotAsked == [sent |-> FALSE, sound |-> FALSE, chan |-> {}, freq |-> {}]

Pending == [status |-> "pending", requestId |-> 0, chan |-> {}, freq |-> {}]
Refused == [Pending EXCEPT !.status = "refused"]

Open(t) == asked[t] # NotAsked /\ answer[t] = Pending

\* The grants that answer inquiry t when it asks for r.
Grants(t, r) ==
  [status: {"granted"}, requestId: {t}, chan: SUBSET r.chan, freq: SUBSET r.freq]

Init == /\ asked = [t \in Inquiry |-> NotAsked]
        /\ answer = [t \in Inquiry |-> Pending]

\* An inquiry that is no JSON document is refused at once.
Ask(t) ==
  /\ asked[t] = NotAsked
  /\ \A u \in Inquiry : ~Open(u)
  /\ asked'[t] \in Request
  /\ asked' = [asked EXCEPT ![t] = asked'[t]]
  /\ \/ UNCHANGED answer
     \/ answer' = [answer EXCEPT ![t] = Refused]

Answer(t) ==
  /\ Open(t)
  /\ \/ answer'[t] = Refused
     \/ asked[t].sound /\ answer'[t] \in Grants(t, asked[t])
  /\ answer' = [answer EXCEPT ![t] = answer'[t]]
  /\ UNCHANGED asked

Next == \E t \in Inquiry : Ask(t) \/ Answer(t)

Spec == Init /\ [][Next]_serviceVars
=============================================================================
