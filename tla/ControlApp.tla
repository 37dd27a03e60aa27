------------------------------ MODULE ControlApp ------------------------------
(***************************************************************************)
(* The control application on the DUT (AFC-ControlAppC, built with         *)
(* ROLE=afc): an event loop around select() with one reader, the UDP       *)
(* socket on which the test tool sends its commands, and SIGINT and        *)
(* SIGTERM, whose handler may run between any two steps of the loop.       *)
(*                                                                         *)
(* The step names are those of the loop: what it does between two places   *)
(* where a signal makes a difference.  The AFC build registers no timeout, *)
(* so select() waits for a datagram or a signal without limit; the time    *)
(* that alarm() counts is not modelled: a pending alarm may fire at any    *)
(* moment.                                                                 *)
(***************************************************************************)
EXTENDS Integers, Sequences, FiniteSets

CONSTANTS
  Signal,       \* the signals that handle_term is registered for
  Command,      \* the kinds of commands the tool sends
  MaxSeq,       \* bound: commands of the tool
  MaxInbox,     \* bound: datagrams in the socket's buffer
  MaxSignals    \* bound: signals delivered to the process

\* A datagram holds a header with a known API or it cannot be parsed; the API
\* is registered by register_apis or only listed; afcd_configure may come with
\* its TLVs or without.
Kind == [parses: BOOLEAN, handled: BOOLEAN, configures: BOOLEAN,
         url: BOOLEAN, ca_cert: BOOLEAN, geo_area: BOOLEAN]

ASSUME ControlAssumption ==
  /\ Command \subseteq Kind
  /\ \A c \in Command : c.configures => c.parses /\ c.handled
  /\ MaxSeq \in Nat /\ MaxInbox \in Nat /\ MaxSignals \in Nat
-----------------------------------------------------------------------------
VARIABLES
  (* eloop.c *)
  terminate, pending_terminate,
  signaled,            \* eloop.signaled > 0
  signals,             \* those whose own "signaled" is not 0
  alarm,               \* is an alarm scheduled?
  pc,                  \* the next step of the program
  unseen,              \* the signals that the for loop has yet to look at
  ready,               \* did select() find the socket readable?
  (* indigo_api_callback_afc.c: the command that set them, 0 for none *)
  server_url, ca_cert, geo_area,
  (* main.c *)
  req,                 \* the sequence number of the command being handled
  deinit,              \* calls of vendor_deinit
  (* The socket and the test tool (external). *)
  inbox,               \* sequence numbers of the datagrams received
  commands,            \* what the tool has sent, by sequence number
  results,             \* <<seq, status>> of the results sent back
  (* History. *)
  delivered,           \* signals delivered so far
  late                 \* commands executed after vendor_deinit

eloop == <<terminate, pending_terminate, signaled, signals, alarm>>
config == <<server_url, ca_cert, geo_area>>
tool == <<inbox, commands, results>>
vars == <<eloop, pc, unseen, ready, config, req, deinit, tool, delivered, late>>

Loop == {"test", "enter", "select", "process", "disarm", "clear", "deliver",
         "read", "parse", "handle"}
Ended == {"returned", "killed"}

TypeOK ==
  /\ terminate \in BOOLEAN /\ pending_terminate \in BOOLEAN
  /\ signaled \in BOOLEAN /\ signals \subseteq Signal /\ unseen \subseteq Signal
  /\ alarm \in BOOLEAN
  /\ pc \in Loop \cup Ended
  /\ ready \in BOOLEAN
  /\ server_url \in 0..MaxSeq /\ ca_cert \in 0..MaxSeq /\ geo_area \in 0..MaxSeq
  /\ req \in 0..MaxSeq
  /\ deinit \in Nat /\ late \in Nat
  /\ inbox \in Seq(1..MaxSeq)
  /\ commands \in Seq(Command) /\ Len(commands) <= MaxSeq
  /\ results \subseteq (1..MaxSeq) \X {"ok", "not_ok"}
  /\ delivered \in Nat

Init ==
  /\ terminate = FALSE /\ pending_terminate = FALSE
  /\ signaled = FALSE /\ signals = {} /\ alarm = FALSE
  /\ pc = "test" /\ unseen = {} /\ ready = FALSE
  /\ server_url = 0 /\ ca_cert = 0 /\ geo_area = 0
  /\ req = 0 /\ deinit = 0
  /\ inbox = <<>> /\ commands = <<>> /\ results = {}
  /\ delivered = 0 /\ late = 0
-----------------------------------------------------------------------------
(* Signals. *)

eloop_handle_signal_unalarmed(sig) == \* mutant: no alarm is scheduled
  /\ pending_terminate' = TRUE
  /\ signaled' = TRUE /\ signals' = signals \cup {sig}
  /\ UNCHANGED alarm

eloop_handle_signal(sig) ==
  /\ pending_terminate' = TRUE
  /\ alarm' = (alarm \/ ~pending_terminate)
  /\ signaled' = TRUE /\ signals' = signals \cup {sig}

\* A signal interrupts the program.  Only in select() does that make a
\* difference to the loop: select() returns with EINTR.
Interrupt(sig) ==
  /\ pc \in Loop /\ delivered < MaxSignals
  /\ eloop_handle_signal(sig)
  /\ delivered' = delivered + 1
  /\ pc' = IF pc = "select" THEN "process" ELSE pc
  /\ ready' = IF pc = "select" THEN FALSE ELSE ready
  /\ UNCHANGED <<terminate, unseen, config, req, deinit, tool, late>>

\* eloop_handle_alarm: vendor_deinit and exit(1), wherever the program is.
AlarmFires ==
  /\ alarm /\ pc \in Loop
  /\ pc' = "killed"
  /\ alarm' = FALSE
  /\ deinit' = deinit + 1
  /\ UNCHANGED <<terminate, pending_terminate, signaled, signals, unseen, ready, config,
                 req, tool, delivered, late>>
-----------------------------------------------------------------------------
(* eloop_run. *)
Kept == UNCHANGED <<config, req, tool, delivered, late>>

\* The loop's condition.
TestEndlessly ==                   \* mutant: the loop is left only when idle
  /\ pc = "test"
  /\ pc' = IF terminate /\ inbox = <<>> THEN "returned" ELSE "enter"
  /\ UNCHANGED <<eloop, unseen, ready, deinit>> /\ Kept

Test ==
  /\ pc = "test"
  /\ pc' = IF terminate THEN "returned" ELSE "enter"
  /\ UNCHANGED <<eloop, unseen, ready, deinit>> /\ Kept

\* The file descriptor set is made; a signal that arrives now is noticed by
\* nobody before select() returns.
EnterSelect ==
  /\ pc = "enter"
  /\ pc' = "select"
  /\ UNCHANGED <<eloop, unseen, ready, deinit>> /\ Kept

Select ==
  /\ pc = "select" /\ inbox # <<>>
  /\ pc' = "process" /\ ready' = TRUE
  /\ UNCHANGED <<eloop, unseen, deinit>> /\ Kept

\* eloop_process_pending_signals, where a signal may come between any two of
\* its statements.
Process ==
  /\ pc = "process"
  /\ pc' = IF signaled THEN "disarm" ELSE "read"
  /\ signaled' = FALSE
  /\ UNCHANGED <<terminate, pending_terminate, signals, unseen, alarm, ready, deinit>> /\ Kept

DisarmNever ==                     \* mutant: alarm(0) is not called
  /\ pc = "disarm"
  /\ pc' = IF pending_terminate THEN "clear" ELSE "deliver"
  /\ unseen' = Signal
  /\ UNCHANGED <<eloop, ready, deinit>> /\ Kept

\* alarm(0) comes before pending_terminate = 0: a signal between the two
\* schedules no alarm, but the for loop is still to see it.
Disarm ==
  /\ pc = "disarm"
  /\ alarm' = IF pending_terminate THEN FALSE ELSE alarm
  /\ pc' = IF pending_terminate THEN "clear" ELSE "deliver"
  /\ unseen' = Signal
  /\ UNCHANGED <<terminate, pending_terminate, signaled, signals, ready, deinit>> /\ Kept

ClearPending ==
  /\ pc = "clear"
  /\ pending_terminate' = FALSE /\ pc' = "deliver"
  /\ UNCHANGED <<terminate, signaled, signals, alarm, unseen, ready, deinit>> /\ Kept

\* The for loop looks at a signal; handle_term calls eloop_terminate and
\* vendor_deinit.  A signal that comes after its turn waits for the next time.
Deliver(sig) ==
  /\ pc = "deliver" /\ sig \in unseen
  /\ unseen' = unseen \ {sig} /\ signals' = signals \ {sig}
  /\ terminate' = (terminate \/ sig \in signals)
  /\ deinit' = IF sig \in signals THEN deinit + 1 ELSE deinit
  /\ UNCHANGED <<pending_terminate, signaled, alarm, pc, ready>> /\ Kept

DeliveredForgetful ==              \* mutant: signaled is reset after the signals
  /\ pc = "deliver" /\ unseen = {}
  /\ pc' = "read" /\ signaled' = FALSE
  /\ UNCHANGED <<terminate, pending_terminate, signals, alarm, unseen, ready, deinit>>
  /\ Kept

Delivered ==
  /\ pc = "deliver" /\ unseen = {}
  /\ pc' = "read"
  /\ UNCHANGED <<eloop, unseen, ready, deinit>> /\ Kept

\* The socket is read if select() said so, although the signals handled since
\* may have ended the loop.
SkipReaders ==
  /\ pc = "read" /\ ~ready
  /\ pc' = "test"
  /\ UNCHANGED <<eloop, unseen, ready, deinit>> /\ Kept
-----------------------------------------------------------------------------
(* control_receive_message. *)
Cmd == commands[req]
Handling == UNCHANGED <<eloop, unseen, deinit, commands, delivered>>

Receive ==
  /\ pc = "read" /\ ready
  /\ req' = Head(inbox) /\ inbox' = Tail(inbox)
  /\ pc' = "parse" /\ ready' = FALSE
  /\ UNCHANGED <<config, results, late>> /\ Handling

\* A NACK; nothing is executed.
Refuse ==
  /\ pc = "parse" /\ ~Cmd.parses
  /\ pc' = "test"
  /\ UNCHANGED <<ready, config, req, inbox, results, late>> /\ Handling

\* No API has a verify function: an ACK, before the command is executed.
Acknowledge ==
  /\ pc = "parse" /\ Cmd.parses
  /\ pc' = IF Cmd.handled THEN "handle" ELSE "test"
  /\ UNCHANGED <<ready, config, req, inbox, results, late>> /\ Handling

\* afcd_configure_handler saves a TLV as soon as it finds it and stops at the
\* first of server_url and ca_cert that is missing; geo_area comes last and is
\* optional: without it the one of an earlier command stays.  The other
\* handlers save nothing.
Complete == Cmd.configures /\ Cmd.url /\ Cmd.ca_cert

HandleCertFirst ==                 \* mutant: a missing ca_cert is not an error
  /\ pc = "handle"
  /\ server_url' = IF Cmd.configures /\ Cmd.url THEN req ELSE server_url
  /\ ca_cert' = IF Complete THEN req ELSE ca_cert
  /\ geo_area' = IF Complete /\ Cmd.geo_area THEN req ELSE geo_area
  /\ results' = results \cup
       {<<req, IF Cmd.configures /\ ~Cmd.url THEN "not_ok" ELSE "ok">>}
  /\ late' = IF deinit > 0 THEN late + 1 ELSE late
  /\ pc' = "test"
  /\ UNCHANGED <<ready, req, inbox>> /\ Handling

HandleAreaFirst ==                 \* mutant: the area is saved before the rest is checked
  /\ pc = "handle"
  /\ server_url' = IF Cmd.configures /\ Cmd.url THEN req ELSE server_url
  /\ ca_cert' = IF Complete THEN req ELSE ca_cert
  /\ geo_area' = IF Cmd.configures /\ Cmd.geo_area THEN req ELSE geo_area
  /\ results' = results \cup
       {<<req, IF Cmd.configures /\ ~(Cmd.url /\ Cmd.ca_cert) THEN "not_ok" ELSE "ok">>}
  /\ late' = IF deinit > 0 THEN late + 1 ELSE late
  /\ pc' = "test"
  /\ UNCHANGED <<ready, req, inbox>> /\ Handling

HandleUnnumbered ==                \* mutant: the result lacks the command's number
  /\ pc = "handle"
  /\ server_url' = IF Cmd.configures /\ Cmd.url THEN req ELSE server_url
  /\ ca_cert' = IF Complete THEN req ELSE ca_cert
  /\ geo_area' = IF Complete /\ Cmd.geo_area THEN req ELSE geo_area
  /\ results' = results \cup
       {<<0, IF Cmd.configures /\ ~(Cmd.url /\ Cmd.ca_cert) THEN "not_ok" ELSE "ok">>}
  /\ late' = IF deinit > 0 THEN late + 1 ELSE late
  /\ pc' = "test"
  /\ UNCHANGED <<ready, req, inbox>> /\ Handling

Handle ==
  /\ pc = "handle"
  /\ server_url' = IF Cmd.configures /\ Cmd.url THEN req ELSE server_url
  /\ ca_cert' = IF Complete THEN req ELSE ca_cert
  /\ geo_area' = IF Complete /\ Cmd.geo_area THEN req ELSE geo_area
  /\ results' = results \cup
       {<<req, IF Cmd.configures /\ ~(Cmd.url /\ Cmd.ca_cert) THEN "not_ok" ELSE "ok">>}
  /\ late' = IF deinit > 0 THEN late + 1 ELSE late
  /\ pc' = "test"
  /\ UNCHANGED <<ready, req, inbox>> /\ Handling

AppStep ==
  \/ Test \/ EnterSelect \/ Select \/ Process \/ Disarm \/ ClearPending
  \/ (\E sig \in Signal : Deliver(sig)) \/ Delivered \/ SkipReaders
  \/ Receive \/ Refuse \/ Acknowledge \/ Handle
-----------------------------------------------------------------------------
(* The test tool (external): it sends a command, perhaps again while it    *)
(* waits for the answer, and then the next one; a datagram may be lost.    *)
Arrives(seq) ==
  \/ inbox' = inbox
  \/ Len(inbox) < MaxInbox /\ inbox' = Append(inbox, seq)

SendNext(c) ==
  /\ Len(commands) < MaxSeq
  /\ commands' = Append(commands, c)
  /\ Arrives(Len(commands) + 1)
  /\ UNCHANGED <<eloop, pc, unseen, ready, config, req, deinit, results, delivered, late>>

Retry ==
  /\ commands # <<>>
  /\ Arrives(Len(commands))
  /\ UNCHANGED <<eloop, pc, unseen, ready, config, req, deinit, commands, results, delivered, late>>

Next ==
  \/ AppStep \/ AlarmFires \/ \E sig \in Signal : Interrupt(sig)
  \/ (\E c \in Command : SendNext(c)) \/ Retry

Spec == Init /\ [][Next]_vars

\* The program runs, and the kernel delivers its alarm.
FairSpec == Spec /\ WF_vars(AppStep) /\ WF_vars(AlarmFires)
-----------------------------------------------------------------------------
\* A signal that has been recorded is handled in this pass of the loop or
\* makes the next one look for it: there is no moment between the statements
\* of eloop_process_pending_signals at which a signal is lost.
NoSignalForgotten ==
  pc \in Loop /\ signals # {} => signaled \/ pc \in {"disarm", "clear", "deliver"}

\* An alarm that is scheduled is for a signal the loop has yet to handle, so
\* that one signal ends the program in order: once the loop has taken it, no
\* alarm is left to kill the program on its way out.  Only a further signal,
\* which finds pending_terminate cleared and is taken by the for loop that is
\* running or comes after it, schedules an alarm that nothing cancels.
AlarmIsForASignal ==
  /\ alarm /\ signals = {} => terminate /\ delivered > 1
  /\ pc = "killed" /\ terminate => delivered > 1

\* After vendor_deinit has taken down what the commands work on, the command
\* that select() had announced is still executed, but no other.
AtMostOneAfterDeinit == late <= 1

\* The tool may rely on a result, whatever was lost or repeated and whichever
\* commands failed half way: when the last command it sent is an
\* afcd_configure that was answered OK, the server URL and the certificate are
\* those of this command.  The area is that of the last command answered OK
\* that named one, which may be an older command: an OK does not mean that an
\* area this command left out is unset.
Located == {n \in DOMAIN commands :
              commands[n].configures /\ commands[n].geo_area /\ <<n, "ok">> \in results}
OkMeansApplied ==
  LET last == Len(commands) IN
  /\ last > 0 /\ <<last, "ok">> \in results /\ commands[last].configures =>
       server_url = last /\ ca_cert = last
  /\ geo_area \in Located \cup {0} /\ \A n \in Located : n <= geo_area

\* SIGINT and SIGTERM end the program, if not by the loop then by the alarm,
\* even if they come just before select() and no datagram ever wakes it.
Terminates == (signals # {}) ~> (pc \in Ended)
=============================================================================
