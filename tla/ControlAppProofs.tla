-------------------------- MODULE ControlAppProofs --------------------------
(***************************************************************************)
(* Proofs about the control application, for any set of signals, any kinds *)
(* of commands and any bounds.                                             *)
(*                                                                         *)
(* SignalInv follows a signal from its handler to the for loop and counts  *)
(* the signals it takes for an alarm to outlive that loop; TerminationInv  *)
(* says where the program still is once it has been told to end;           *)
(* CommandInv uses that datagrams keep their order, so that the last       *)
(* command handled is never followed by an older one, and AreaInv that     *)
(* none was answered before it was sent.                                   *)
(***************************************************************************)
EXTENDS ControlApp, TLAPS

\* The socket is readable when select() said so; what was read has a number.
NumberedInv ==
  /\ ready => inbox # <<>>
  /\ pc \in {"parse", "handle"} => req \in 1..MaxSeq
TypeInv == TypeOK /\ NumberedInv

\* An alarm that was scheduled when a signal came has a pass of the loop to
\* cancel it, if the loop gets that far.
AlarmWillBeCancelled == alarm => pending_terminate /\ (signaled \/ pc = "disarm")

SignalInv ==
  /\ NoSignalForgotten
  /\ AlarmWillBeCancelled
  /\ pc = "clear" => unseen = Signal /\ pending_terminate /\ ~alarm
  /\ pc = "deliver" => signals \subseteq unseen \/ signaled
  /\ terminate \/ signaled \/ pc \in {"disarm", "clear", "deliver"} => delivered > 0
  /\ alarm /\ (terminate \/ pc = "deliver") => delivered > 1
  /\ AlarmIsForASignal

\* After vendor_deinit the loop runs to its condition and no further.
TerminationInv ==
  /\ deinit > 0 /\ pc \in Loop => terminate
  /\ terminate => pc \in {"deliver", "read", "parse", "handle", "test"} \cup Ended
  /\ late > 0 => late = 1 /\ terminate /\ pc \in {"test"} \cup Ended

\* Datagrams are handled in the order of the commands.
InOrder ==
  /\ req <= Len(commands)
  /\ \A i \in DOMAIN inbox : req <= inbox[i] /\ inbox[i] <= Len(commands)
  /\ \A i, j \in DOMAIN inbox : i <= j => inbox[i] <= inbox[j]
  /\ \A r \in results : r[1] <= req
CommandInv ==
  /\ InOrder
  /\ req > 0 /\ <<req, "ok">> \in results /\ commands[req].configures =>
       server_url = req /\ ca_cert = req
AreaInv == geo_area \in Located \cup {0} /\ \A n \in Located : n <= geo_area
-----------------------------------------------------------------------------
LEMMA InitType == Init => TypeInv
<1> SUFFICES ASSUME Init PROVE TypeInv
  OBVIOUS
<1>1. inbox \in Seq(1..MaxSeq) /\ commands \in Seq(Command) /\ Len(commands) = 0
  BY DEF Init
<1>2. MaxSeq \in Nat
  BY ControlAssumption
<1>3. /\ pc \in Loop \cup Ended /\ unseen \subseteq Signal /\ signals \subseteq Signal
      /\ results \subseteq (1..MaxSeq) \X {"ok", "not_ok"}
  BY DEF Init, Loop
<1>4. /\ terminate \in BOOLEAN /\ pending_terminate \in BOOLEAN /\ signaled \in BOOLEAN
      /\ alarm \in BOOLEAN /\ ready \in BOOLEAN /\ ~ready
  BY DEF Init
<1>5. /\ server_url \in 0..MaxSeq /\ ca_cert \in 0..MaxSeq /\ geo_area \in 0..MaxSeq
      /\ req \in 0..MaxSeq
      /\ deinit \in Nat /\ late \in Nat /\ delivered \in Nat /\ Len(commands) <= MaxSeq
  BY <1>1, <1>2 DEF Init
<1>6. pc \notin {"parse", "handle"}
  BY DEF Init
<1> QED BY <1>1, <1>3, <1>4, <1>5, <1>6, Zenon DEF TypeInv, TypeOK, NumberedInv

LEMMA AppendNumber ==
  ASSUME NEW S, NEW s \in Seq(S), NEW n \in S
  PROVE  Append(s, n) \in Seq(S) /\ Append(s, n) # <<>>
<1>1. Append(s, n) \in Seq(S) /\ Len(Append(s, n)) = Len(s) + 1 /\ Len(s) \in Nat
  OBVIOUS
<1>2. Len(Append(s, n)) # 0
  BY <1>1
<1> QED BY <1>1, <1>2

LEMMA NextType == TypeInv /\ [Next]_vars => TypeInv'
<1> SUFFICES ASSUME TypeInv, [Next]_vars PROVE TypeInv'
  OBVIOUS
<1>0. MaxSeq \in Nat
  BY ControlAssumption
<1> USE <1>0 DEF TypeInv, TypeOK, NumberedInv, Loop, Ended, Kept, Handling, eloop, config, tool
<1>1. CASE Test
  BY <1>1 DEF Test
<1>2. CASE EnterSelect
  BY <1>2 DEF EnterSelect
<1>3. CASE Select
  BY <1>3 DEF Select
<1>4. CASE Process
  BY <1>4 DEF Process
<1>5. CASE Disarm
  BY <1>5 DEF Disarm
<1>6. CASE ClearPending
  BY <1>6 DEF ClearPending
<1>7. ASSUME NEW sig \in Signal, Deliver(sig) PROVE TypeInv'
  BY <1>7 DEF Deliver
<1>8. CASE Delivered
  BY <1>8 DEF Delivered
<1>9. CASE SkipReaders
  BY <1>9 DEF SkipReaders
<1>10. CASE Receive
  <2>1. inbox \in Seq(1..MaxSeq) /\ inbox # <<>>
    BY <1>10 DEF Receive
  <2>2. Head(inbox) \in 1..MaxSeq /\ Tail(inbox) \in Seq(1..MaxSeq)
    BY <2>1
  <2>3. /\ req' \in 1..MaxSeq /\ inbox' \in Seq(1..MaxSeq) /\ ~ready' /\ ready' \in BOOLEAN
        /\ pc' \in Loop \cup Ended
    BY <1>10, <2>2 DEF Receive
  <2>4. req' \in 0..MaxSeq
    BY <2>3
  <2> QED BY <1>10, <2>3, <2>4, Zenon DEF Receive
<1>11. CASE Refuse
  BY <1>11 DEF Refuse
<1>12. CASE Acknowledge
  BY <1>12 DEF Acknowledge
<1>13. CASE Handle
  BY <1>13 DEF Handle, Complete
<1>14. CASE AlarmFires
  <2>1. deinit' \in Nat
    BY <1>14 DEF AlarmFires
  <2>2. pc' \in Loop \cup Ended /\ pc' \notin {"parse", "handle"}
    BY <1>14 DEF AlarmFires
  <2> QED BY <1>14, <2>1, <2>2, Zenon DEF AlarmFires
<1>15. ASSUME NEW sig \in Signal, Interrupt(sig) PROVE TypeInv'
  <2>1. delivered' \in Nat
    BY <1>15 DEF Interrupt
  <2>2. signals' \subseteq Signal
    BY <1>15 DEF Interrupt, eloop_handle_signal
  <2>3. /\ pc' \in Loop \cup Ended
        /\ pc' \in {"parse", "handle"} => pc \in {"parse", "handle"}
    BY <1>15 DEF Interrupt
  <2>4. ready' \in BOOLEAN /\ (ready' => ready)
    BY <1>15, Zenon DEF Interrupt
  <2>5. pending_terminate' \in BOOLEAN /\ signaled' \in BOOLEAN /\ alarm' \in BOOLEAN
    BY <1>15, Zenon DEF Interrupt, eloop_handle_signal
  <2> QED BY <1>15, <2>1, <2>2, <2>3, <2>4, <2>5, Zenon DEF Interrupt
<1>16. ASSUME NEW c \in Command, SendNext(c) PROVE TypeInv'
  <2>1. /\ commands' \in Seq(Command) /\ Len(commands') <= MaxSeq
        /\ Len(commands) + 1 \in 1..MaxSeq
    BY <1>16 DEF SendNext
  <2>2. inbox' \in Seq(1..MaxSeq) /\ (inbox # <<>> => inbox' # <<>>)
    BY <1>16, <2>1, AppendNumber, Zenon DEF SendNext, Arrives
  <2> QED BY <1>16, <2>1, <2>2, Zenon DEF SendNext
<1>17. CASE Retry
  <2>1. Len(commands) \in 1..MaxSeq
    BY <1>17 DEF Retry
  <2>2. inbox' = inbox \/ inbox' = Append(inbox, Len(commands))
    BY <1>17 DEF Retry, Arrives
  <2>3. inbox' \in Seq(1..MaxSeq) /\ (inbox # <<>> => inbox' # <<>>)
    BY <2>1, <2>2, AppendNumber, Zenon
  <2> QED BY <1>17, <2>3, Zenon DEF Retry
<1>18. CASE UNCHANGED vars
  BY <1>18 DEF vars
<1> QED BY <1>1, <1>2, <1>3, <1>4, <1>5, <1>6, <1>7, <1>8, <1>9, <1>10, <1>11, <1>12,
           <1>13, <1>14, <1>15, <1>16, <1>17, <1>18 DEF Next, AppStep

\* Every reachable state of the control application is type correct.
THEOREM TypeCorrect == Spec => []TypeOK
<1>1. TypeInv => TypeOK
  BY DEF TypeInv
<1> QED BY <1>1, InitType, NextType, PTL DEF Spec
-----------------------------------------------------------------------------
(* Signals. *)
LEMMA InitSignal == Init => SignalInv
BY DEF Init, SignalInv, NoSignalForgotten, AlarmWillBeCancelled, AlarmIsForASignal

LEMMA NextSignal == TypeInv /\ SignalInv /\ [Next]_vars => SignalInv'
<1> SUFFICES ASSUME TypeInv, SignalInv, [Next]_vars PROVE SignalInv'
  OBVIOUS
<1>0. /\ signals \subseteq Signal /\ unseen \subseteq Signal
      /\ pc \in Loop \cup Ended /\ delivered \in Nat
  BY DEF TypeInv, TypeOK
<1> USE <1>0 DEF SignalInv, NoSignalForgotten, AlarmWillBeCancelled, AlarmIsForASignal,
        Loop, Ended, Kept, Handling, eloop
<1>1. CASE Test
  BY <1>1 DEF Test
<1>2. CASE EnterSelect
  BY <1>2 DEF EnterSelect
<1>3. CASE Select
  BY <1>3 DEF Select
<1>4. CASE Process
  BY <1>4 DEF Process
<1>5. CASE Disarm
  BY <1>5 DEF Disarm
<1>6. CASE ClearPending
  BY <1>6 DEF ClearPending
<1>7. ASSUME NEW sig \in Signal, Deliver(sig) PROVE SignalInv'
  BY <1>7 DEF Deliver
<1>8. CASE Delivered
  BY <1>8 DEF Delivered
<1>9. CASE SkipReaders
  BY <1>9 DEF SkipReaders
<1>10. CASE Receive
  BY <1>10 DEF Receive
<1>11. CASE Refuse
  BY <1>11 DEF Refuse
<1>12. CASE Acknowledge
  BY <1>12 DEF Acknowledge
<1>13. CASE Handle
  BY <1>13 DEF Handle
<1>14. CASE AlarmFires
  BY <1>14 DEF AlarmFires
<1>15. ASSUME NEW sig \in Signal, Interrupt(sig) PROVE SignalInv'
  <2>1. /\ delivered' = delivered + 1 /\ pc \in Loop /\ terminate' = terminate
        /\ pc' \in Loop /\ (pc' = pc \/ (pc = "select" /\ pc' = "process"))
    BY <1>15 DEF Interrupt
  <2>2. /\ pending_terminate' /\ signaled' /\ signals' # {}
        /\ alarm' = (alarm \/ ~pending_terminate)
        /\ unseen' = unseen
    BY <1>15, Zenon DEF Interrupt, eloop_handle_signal
  <2>3. AlarmIsForASignal'
    BY <2>1, <2>2
  <2>4. delivered' > 0
    BY <2>1
  <2>5. alarm' /\ (terminate' \/ pc' = "deliver") => delivered' > 1
    BY <2>1
  <2>6. pc' = "clear" => unseen' = Signal /\ pending_terminate' /\ ~alarm'
    BY <2>1, <2>2
  <2> QED BY <2>1, <2>2, <2>3, <2>4, <2>5, <2>6
<1>16. ASSUME NEW c \in Command, SendNext(c) PROVE SignalInv'
  BY <1>16 DEF SendNext
<1>17. CASE Retry
  BY <1>17 DEF Retry
<1>18. CASE UNCHANGED vars
  BY <1>18 DEF vars
<1> QED BY <1>1, <1>2, <1>3, <1>4, <1>5, <1>6, <1>7, <1>8, <1>9, <1>10, <1>11, <1>12,
           <1>13, <1>14, <1>15, <1>16, <1>17, <1>18 DEF Next, AppStep

LEMMA SignalsFollowed == Spec => []SignalInv
BY InitType, NextType, InitSignal, NextSignal, PTL DEF Spec

\* eloop_handle_signal may interrupt eloop_process_pending_signals between any
\* two statements: the signal is delivered in this pass or the next.
THEOREM SignalsAreKept == Spec => []NoSignalForgotten
<1>1. SignalInv => NoSignalForgotten
  BY DEF SignalInv
<1> QED BY <1>1, SignalsFollowed, PTL

\* A program that got one signal and has taken it has no alarm left: the alarm
\* can kill a program that was told to end only when a further signal came.
THEOREM OneSignalEndsInOrder == Spec => []AlarmIsForASignal
<1>1. SignalInv => AlarmIsForASignal
  BY DEF SignalInv
<1> QED BY <1>1, SignalsFollowed, PTL
-----------------------------------------------------------------------------
(* The end of the program. *)
LEMMA InitTermination == Init => TerminationInv
BY DEF Init, TerminationInv, Loop

LEMMA NextTermination ==
  TypeInv /\ TerminationInv /\ [Next]_vars => TerminationInv'
<1> SUFFICES ASSUME TypeInv, TerminationInv, [Next]_vars PROVE TerminationInv'
  OBVIOUS
<1>0. deinit \in Nat /\ late \in Nat /\ pc \in Loop \cup Ended
  BY DEF TypeInv, TypeOK
<1> USE <1>0 DEF TerminationInv, Loop, Ended, Kept, Handling, eloop
<1>1. CASE Test
  BY <1>1 DEF Test
<1>2. CASE EnterSelect
  BY <1>2 DEF EnterSelect
<1>3. CASE Select
  BY <1>3 DEF Select
<1>4. CASE Process
  BY <1>4 DEF Process
<1>5. CASE Disarm
  BY <1>5 DEF Disarm
<1>6. CASE ClearPending
  BY <1>6 DEF ClearPending
<1>7. ASSUME NEW sig \in Signal, Deliver(sig) PROVE TerminationInv'
  BY <1>7 DEF Deliver
<1>8. CASE Delivered
  BY <1>8 DEF Delivered
<1>9. CASE SkipReaders
  BY <1>9 DEF SkipReaders
<1>10. CASE Receive
  BY <1>10 DEF Receive
<1>11. CASE Refuse
  BY <1>11 DEF Refuse
<1>12. CASE Acknowledge
  BY <1>12 DEF Acknowledge
<1>13. CASE Handle
  BY <1>13 DEF Handle
<1>14. CASE AlarmFires
  BY <1>14 DEF AlarmFires
<1>15. ASSUME NEW sig \in Signal, Interrupt(sig) PROVE TerminationInv'
  BY <1>15 DEF Interrupt, eloop_handle_signal
<1>16. ASSUME NEW c \in Command, SendNext(c) PROVE TerminationInv'
  BY <1>16 DEF SendNext
<1>17. CASE Retry
  BY <1>17 DEF Retry
<1>18. CASE UNCHANGED vars
  BY <1>18 DEF vars
<1> QED BY <1>1, <1>2, <1>3, <1>4, <1>5, <1>6, <1>7, <1>8, <1>9, <1>10, <1>11, <1>12,
           <1>13, <1>14, <1>15, <1>16, <1>17, <1>18 DEF Next, AppStep

LEMMA EndFollowed == Spec => []TerminationInv
BY InitType, NextType, InitTermination, NextTermination, PTL DEF Spec

\* The handlers that select() had announced come to one command at most after
\* handle_term has called vendor_deinit: the loop then tests its condition.
THEOREM LittleAfterDeinit == Spec => []AtMostOneAfterDeinit
<1>1. TypeInv /\ TerminationInv => AtMostOneAfterDeinit
  BY DEF TypeInv, TypeOK, TerminationInv, AtMostOneAfterDeinit
<1>2. Spec => []TypeInv
  BY InitType, NextType, PTL DEF Spec
<1> QED BY <1>1, <1>2, EndFollowed, PTL
-----------------------------------------------------------------------------
(* The commands. *)
LEMMA InitCommand == Init => CommandInv
BY ControlAssumption DEF Init, CommandInv, InOrder

\* The newest command arrives, or it does not.
LEMMA ArrivesInOrder ==
  ASSUME TypeInv, InOrder, NEW n \in 1..MaxSeq, Len(commands) <= n,
         Len(commands') = n, UNCHANGED <<req, results>>,
         inbox' = inbox \/ inbox' = Append(inbox, n)
  PROVE  InOrder'
<1>0. /\ MaxSeq \in Nat /\ req \in 0..MaxSeq
      /\ inbox \in Seq(1..MaxSeq) /\ commands \in Seq(Command)
  BY ControlAssumption DEF TypeInv, TypeOK
<1>1. req <= n /\ \A r \in results : r[1] <= req
  BY <1>0 DEF InOrder
<1>2. CASE inbox' = inbox
  <2>1. \A i \in DOMAIN inbox : inbox[i] \in 1..MaxSeq
    BY <1>0
  <2>2. \A i \in DOMAIN inbox : inbox[i] <= n
    BY <1>0, <2>1 DEF InOrder
  <2> QED BY <1>1, <1>2, <2>2 DEF InOrder
<1>3. CASE inbox' = Append(inbox, n)
  <2>1. /\ DOMAIN inbox = 1..Len(inbox) /\ DOMAIN inbox' = 1..(Len(inbox) + 1)
        /\ Len(inbox) \in Nat
    BY <1>0, <1>3
  <2>2. \A i \in DOMAIN inbox : inbox[i] \in 1..MaxSeq /\ inbox'[i] = inbox[i]
    BY <1>0, <1>3
  <2>3. inbox'[Len(inbox) + 1] = n
    BY <1>0, <1>3
  <2>4. \A i \in DOMAIN inbox' : req <= inbox'[i] /\ inbox'[i] <= n
    BY <1>0, <1>1, <2>1, <2>2, <2>3 DEF InOrder
  <2>5. \A i, j \in DOMAIN inbox' : i <= j => inbox'[i] <= inbox'[j]
    <3>1. SUFFICES ASSUME NEW i \in DOMAIN inbox', NEW j \in DOMAIN inbox', i <= j
                   PROVE  inbox'[i] <= inbox'[j]
      OBVIOUS
    <3>2. CASE j = Len(inbox) + 1
      BY <3>2, <2>3, <2>4
    <3>3. CASE j \in DOMAIN inbox
      <4>1. i \in DOMAIN inbox
        BY <3>1, <3>3, <2>1
      <4> QED BY <3>1, <3>3, <4>1, <2>2 DEF InOrder
    <3> QED BY <3>2, <3>3, <2>1
  <2> QED BY <1>1, <2>4, <2>5 DEF InOrder
<1> QED BY <1>2, <1>3

LEMMA NextCommand == TypeInv /\ CommandInv /\ [Next]_vars => CommandInv'
<1> SUFFICES ASSUME TypeInv, CommandInv, [Next]_vars PROVE CommandInv'
  OBVIOUS
<1>0. /\ MaxSeq \in Nat /\ req \in 0..MaxSeq
      /\ inbox \in Seq(1..MaxSeq) /\ commands \in Seq(Command)
      /\ results \subseteq (1..MaxSeq) \X {"ok", "not_ok"}
  BY ControlAssumption DEF TypeInv, TypeOK
<1> USE <1>0 DEF CommandInv, InOrder, Kept, Handling, config, tool
<1>1. CASE Test
  BY <1>1 DEF Test
<1>2. CASE EnterSelect
  BY <1>2 DEF EnterSelect
<1>3. CASE Select
  BY <1>3 DEF Select
<1>4. CASE Process
  BY <1>4 DEF Process
<1>5. CASE Disarm
  BY <1>5 DEF Disarm
<1>6. CASE ClearPending
  BY <1>6 DEF ClearPending
<1>7. ASSUME NEW sig \in Signal, Deliver(sig) PROVE CommandInv'
  BY <1>7 DEF Deliver
<1>8. CASE Delivered
  BY <1>8 DEF Delivered
<1>9. CASE SkipReaders
  BY <1>9 DEF SkipReaders
<1>10. CASE Receive
  <2>1. inbox # <<>>
    BY <1>10 DEF Receive, TypeInv, NumberedInv
  <2>2. /\ req' = inbox[1] /\ 1 \in DOMAIN inbox /\ inbox[1] \in 1..MaxSeq
        /\ DOMAIN inbox = 1..Len(inbox) /\ Len(inbox) \in Nat
        /\ DOMAIN inbox' = 1..(Len(inbox) - 1)
        /\ \A i \in DOMAIN inbox' : inbox'[i] = inbox[i + 1] /\ i + 1 \in DOMAIN inbox
    BY <1>10, <2>1 DEF Receive
  <2>3. commands' = commands /\ results' = results /\ UNCHANGED config
    BY <1>10 DEF Receive
  <2>4. req <= req' /\ req' <= Len(commands')
    BY <2>2, <2>3
  <2>5. \A i \in DOMAIN inbox' : req' <= inbox'[i] /\ inbox'[i] <= Len(commands')
    BY <2>2, <2>3
  <2>6. \A i, j \in DOMAIN inbox' : i <= j => inbox'[i] <= inbox'[j]
    BY <2>2
  <2>7. \A r \in results' : r[1] <= req'
    BY <2>2, <2>3, <2>4
  <2>8. <<req', "ok">> \in results' => req' = req
    BY <2>2, <2>3, <2>4
  <2> QED BY <2>3, <2>4, <2>5, <2>6, <2>7, <2>8
<1>11. CASE Refuse
  BY <1>11 DEF Refuse
<1>12. CASE Acknowledge
  BY <1>12 DEF Acknowledge
<1>13. CASE Handle
  <2>1. req \in 1..MaxSeq
    BY <1>13 DEF Handle, TypeInv, NumberedInv
  <2>2. /\ UNCHANGED <<req, inbox, commands>>
        /\ \A r \in results' : r[1] <= req
    BY <1>13, <2>1 DEF Handle
  <2>3. InOrder'
    BY <2>2
  <2>4. ASSUME <<req, "ok">> \in results', commands[req].configures
        PROVE  server_url' = req /\ ca_cert' = req
    <3>1. CASE Cmd.url /\ Cmd.ca_cert
      BY <1>13, <2>4, <3>1 DEF Handle, Complete, Cmd
    <3>2. CASE ~(Cmd.url /\ Cmd.ca_cert)
      <4>1. results' = results \cup {<<req, "not_ok">>}
        BY <1>13, <2>4, <3>2 DEF Handle, Cmd
      <4>2. <<req, "ok">> \in results
        BY <2>4, <4>1
      <4>3. server_url = req /\ ca_cert = req
        BY <2>1, <2>4, <4>2
      <4> QED BY <1>13, <4>3 DEF Handle
    <3> QED BY <3>1, <3>2
  <2> QED BY <2>2, <2>3, <2>4
<1>14. CASE AlarmFires
  BY <1>14 DEF AlarmFires
<1>15. ASSUME NEW sig \in Signal, Interrupt(sig) PROVE CommandInv'
  BY <1>15 DEF Interrupt, eloop_handle_signal
<1>16. ASSUME NEW c \in Command, SendNext(c) PROVE CommandInv'
  <2>1. /\ Len(commands') = Len(commands) + 1 /\ Len(commands) + 1 \in 1..MaxSeq
        /\ \A i \in 1..Len(commands) : commands'[i] = commands[i]
        /\ UNCHANGED <<req, results, config>>
    BY <1>16 DEF SendNext
  <2>2. inbox' = inbox \/ inbox' = Append(inbox, Len(commands) + 1)
    BY <1>16, Zenon DEF SendNext, Arrives
  <2>3. InOrder'
    BY <2>1, <2>2, ArrivesInOrder
  <2> QED BY <2>1, <2>3
<1>17. CASE Retry
  <2>1. Len(commands) \in 1..MaxSeq /\ UNCHANGED <<req, results, config, commands>>
    BY <1>17 DEF Retry, TypeInv, TypeOK
  <2>2. inbox' = inbox \/ inbox' = Append(inbox, Len(commands))
    BY <1>17, Zenon DEF Retry, Arrives
  <2>3. InOrder'
    BY <2>1, <2>2, ArrivesInOrder
  <2> QED BY <2>1, <2>3
<1>18. CASE UNCHANGED vars
  BY <1>18 DEF vars
<1> QED BY <1>1, <1>2, <1>3, <1>4, <1>5, <1>6, <1>7, <1>8, <1>9, <1>10, <1>11, <1>12,
           <1>13, <1>14, <1>15, <1>16, <1>17, <1>18 DEF Next, AppStep

LEMMA CommandsFollowed == Spec => []CommandInv
BY InitType, NextType, InitCommand, NextCommand, PTL DEF Spec

LEMMA InitArea == Init => AreaInv
BY DEF Init, AreaInv, Located

\* Only a command that is handled changes the area or what was answered; the
\* next one to be sent has not been answered yet.
LEMMA NextArea == TypeInv /\ CommandInv /\ AreaInv /\ [Next]_vars => AreaInv'
<1> SUFFICES ASSUME TypeInv, CommandInv, AreaInv, [Next]_vars PROVE AreaInv'
  OBVIOUS
<1>0. /\ MaxSeq \in Nat /\ req \in 0..MaxSeq /\ commands \in Seq(Command)
      /\ geo_area \in 0..MaxSeq
      /\ results \subseteq (1..MaxSeq) \X {"ok", "not_ok"}
  BY ControlAssumption DEF TypeInv, TypeOK
<1>1. CASE UNCHANGED <<geo_area, commands, results>>
  <2>1. Located' = Located
    BY <1>1 DEF Located
  <2> QED BY <1>1, <2>1 DEF AreaInv
<1>2. CASE Handle
  <2>1. req \in 1..MaxSeq /\ req <= Len(commands)
    BY <1>2 DEF Handle, TypeInv, NumberedInv, CommandInv, InOrder
  <2>2. req \in DOMAIN commands
    BY <1>0, <2>1
  <2>3. commands' = commands
    BY <1>2 DEF Handle, Handling
  <2>4. \A n \in Located : n \in 1..req
    BY <1>0 DEF Located, CommandInv, InOrder
  <2>5. CASE Complete /\ Cmd.geo_area
    <3>1. results' = results \cup {<<req, "ok">>} /\ geo_area' = req
      BY <1>2, <2>5 DEF Handle, Complete
    <3>2. Located' = Located \cup {req}
      BY <2>2, <2>3, <2>5, <3>1 DEF Located, Complete, Cmd
    <3> QED BY <2>1, <2>4, <3>1, <3>2 DEF AreaInv
  <2>6. CASE ~(Complete /\ Cmd.geo_area)
    <3>1. geo_area' = geo_area
      BY <1>2, <2>6 DEF Handle
    <3>2. PICK status \in {"ok", "not_ok"} :
            /\ results' = results \cup {<<req, status>>}
            /\ status = "ok" => ~Cmd.configures \/ Complete
      BY <1>2 DEF Handle, Complete
    <3>3. status = "ok" => ~(Cmd.configures /\ Cmd.geo_area)
      BY <2>6, <3>2
    <3>4. Located' = Located
      BY <2>3, <3>2, <3>3 DEF Located, Cmd
    <3> QED BY <3>1, <3>4 DEF AreaInv
  <2> QED BY <2>5, <2>6
<1>3. ASSUME NEW c \in Command, SendNext(c) PROVE AreaInv'
  <2>1. /\ commands' = Append(commands, c) /\ UNCHANGED <<geo_area, results>>
    BY <1>3 DEF SendNext, config
  <2>2. \A r \in results : r[1] <= Len(commands)
    BY <1>0 DEF CommandInv, InOrder
  <2>3. \A n \in DOMAIN commands' : <<n, "ok">> \in results =>
          n \in DOMAIN commands /\ commands'[n] = commands[n]
    BY <1>0, <2>1, <2>2
  <2>4. \A n \in DOMAIN commands : n \in DOMAIN commands' /\ commands'[n] = commands[n]
    BY <1>0, <2>1
  <2>5. Located' = Located
    BY <2>1, <2>3, <2>4 DEF Located
  <2> QED BY <2>1, <2>5 DEF AreaInv
<1>4. CASE [AppStep /\ ~Handle]_vars
  <2>1. UNCHANGED <<geo_area, commands, results>>
    BY <1>4 DEF AppStep, Test, EnterSelect, Select, Process, Disarm, ClearPending, Deliver,
       Delivered, SkipReaders, Receive, Refuse, Acknowledge, Kept, Handling, config, tool, vars
  <2> QED BY <1>1, <2>1
<1>5. CASE AlarmFires \/ (\E sig \in Signal : Interrupt(sig)) \/ Retry
  <2>1. UNCHANGED <<geo_area, commands, results>>
    BY <1>5 DEF AlarmFires, Interrupt, Retry, config, tool
  <2> QED BY <1>1, <2>1
<1> QED BY <1>2, <1>3, <1>4, <1>5 DEF Next, AppStep

LEMMA AreaFollowed == Spec => []AreaInv
BY InitType, NextType, CommandsFollowed, InitArea, NextArea, PTL DEF Spec

\* A retried afcd_configure is executed again, and one that lacks ca_cert has
\* saved its server_url all the same; yet when the last command is answered
\* OK its URL and certificate are in force, and so is the area it named or,
\* if it named none, that of the last command before it that did.
THEOREM OkIsApplied == Spec => []OkMeansApplied
<1>1. ASSUME TypeInv, CommandInv, AreaInv PROVE OkMeansApplied
  <2>1. /\ commands \in Seq(Command) /\ req \in 0..MaxSeq /\ MaxSeq \in Nat
        /\ results \subseteq (1..MaxSeq) \X {"ok", "not_ok"}
    BY <1>1, ControlAssumption DEF TypeInv, TypeOK
  <2>2. ASSUME Len(commands) > 0, <<Len(commands), "ok">> \in results,
               commands[Len(commands)].configures
        PROVE  server_url = Len(commands) /\ ca_cert = Len(commands)
    <3>1. Len(commands) <= req /\ req <= Len(commands)
      BY <1>1, <2>1, <2>2 DEF CommandInv, InOrder
    <3>2. req = Len(commands)
      BY <2>1, <3>1
    <3> QED BY <1>1, <2>2, <3>2 DEF CommandInv
  <2> QED BY <1>1, <2>2 DEF OkMeansApplied, AreaInv
<1>2. Spec => []TypeInv
  BY InitType, NextType, PTL DEF Spec
<1> QED BY <1>1, <1>2, CommandsFollowed, AreaFollowed, PTL
=============================================================================
