---------------------------- MODULE DaemonProofs ----------------------------
(***************************************************************************)
(* For any number of connections, any requests, any capacity of the two    *)
(* channels and any bounds: the daemon's counters always equal the         *)
(* connections registered under them plus what early returns dropped, no   *)
(* state is kept from a subscriber, and replies keep the order of the      *)
(* requests.  With one connection, the engine comes to poll as hard as the *)
(* counters say.                                                           *)
(***************************************************************************)
EXTENDS Daemon, FiniteSetTheorems, SequenceTheorems, TLAPS

\* Where a task is says what its request and its registrations are.
Phases ==
    \A c \in Clients :
        /\ task[c] = "add" =>
              request[c] \in Requests /\ request[c].op = "subscribe" /\ scope[c] = "none"
        /\ task[c] \in {"route", "broadcast"} => request[c] \in Requests /\ request[c].op = "popup"
        /\ task[c] \in {"submit", "await"} => ticket[c] # 0

\* TypeOK without the bound on the counters: that they are never negative is
\* what the ledger shows.
Typed ==
    /\ WireTypeOK /\ TaskTypeOK /\ RegistrationTypeOK
    /\ EngineTypeOK /\ StatesTypeOK /\ WindowTypeOK

progress == <<task, request, ticket, sight, verdict, answered>>

LEMMA ActivityTypes ==
  /\ Requests \subseteq Activities
  /\ {Idling, Greeting, Pushing, Leaving} \subseteq Activities
  /\ \A action \in PopupActions : Forwarding(action) \in Activities
BY DEF Activities

LEMMA TypedInit == Init => Typed
<1> USE DaemonAssumption DEF Init
<1>1. Init => WireTypeOK
  <2> SUFFICES ASSUME Init PROVE WireTypeOK OBVIOUS
  <2>1. <<>> \in Seq(Lines) OBVIOUS
  <2>2. inbox \in [Clients -> Seq(Lines)] BY <2>1
  <2>3. notified \in BOOLEAN OBVIOUS
  <2>4. peer \in [Clients -> {"absent", "open", "closed", "reset"}] OBVIOUS
  <2>5. sent \in 0..MaxSent OBVIOUS
  <2> QED BY <2>2, <2>3, <2>4, <2>5 DEF WireTypeOK
<1>2. Init => TaskTypeOK BY ActivityTypes DEF TaskTypeOK, TaskStates, Attentions
<1>3. Init => RegistrationTypeOK BY DEF RegistrationTypeOK, Scopes, Counters
<1>4. Init => EngineTypeOK BY DEF EngineTypeOK, Attentions
<1>5. Init => StatesTypeOK BY DEF StatesTypeOK
<1>6. Init => WindowTypeOK BY DEF WindowTypeOK
<1> QED BY <1>1, <1>2, <1>3, <1>4, <1>5, <1>6 DEF Typed

\* A group of variables a step leaves alone keeps its type.
LEMMA Kept ==
  /\ WireTypeOK /\ UNCHANGED <<accepting, wire>> => WireTypeOK'
  /\ TaskTypeOK /\ UNCHANGED progress => TaskTypeOK'
  /\ RegistrationTypeOK /\ UNCHANGED <<local, watchers, lost>> => RegistrationTypeOK'
  /\ EngineTypeOK /\ UNCHANGED engine => EngineTypeOK'
  /\ StatesTypeOK /\ UNCHANGED states => StatesTypeOK'
  /\ WindowTypeOK /\ UNCHANGED window => WindowTypeOK'
<1>1. WireTypeOK /\ UNCHANGED <<accepting, wire>> => WireTypeOK'
  BY DEF WireTypeOK, accepting, wire
<1>2. TaskTypeOK /\ UNCHANGED progress => TaskTypeOK'
  BY DEF TaskTypeOK, progress
<1>3. RegistrationTypeOK /\ UNCHANGED <<local, watchers, lost>> => RegistrationTypeOK'
  BY DEF RegistrationTypeOK, local
<1>4. EngineTypeOK /\ UNCHANGED engine => EngineTypeOK'
  BY DEF EngineTypeOK, engine
<1>5. StatesTypeOK /\ UNCHANGED states => StatesTypeOK'
  BY DEF StatesTypeOK, states
<1>6. WindowTypeOK /\ UNCHANGED window => WindowTypeOK'
  BY DEF WindowTypeOK, window
<1> QED BY <1>1, <1>2, <1>3, <1>4, <1>5, <1>6

LEMMA ClientTyped ==
  ASSUME Typed, NEW c \in Clients, Client(c)
  PROVE  Typed'
<1> USE DEF Typed
<1>1. CASE Connect(c)
  <2>1. WireTypeOK' BY <1>1 DEF Connect, WireTypeOK, accepting
  <2> QED BY <1>1, <2>1, Kept DEF Connect, progress
<1>2. CASE HangUp(c)
  <2>1. WireTypeOK' BY <1>2 DEF HangUp, WireTypeOK, accepting
  <2> QED BY <1>2, <2>1, Kept DEF HangUp, progress
<1>3. ASSUME NEW r \in Requests, Send(c, r) PROVE Typed'
  <2>1. sent' \in 1..MaxSent BY <1>3, DaemonAssumption DEF Send, WireTypeOK
  <2>2. [ticket |-> sent', request |-> r] \in Lines BY <2>1 DEF Lines
  <2>3. WireTypeOK' BY <1>3, <2>1, <2>2 DEF Send, WireTypeOK, accepting
  <2> QED BY <1>3, <2>3, Kept DEF Send, progress
<1> QED BY <1>1, <1>2, <1>3 DEF Client

LEMMA AcceptLoopTyped ==
  ASSUME Typed, AcceptLoop
  PROVE  Typed'
<1> USE DEF Typed
<1>1. ASSUME NEW c \in Clients, Accept(c) PROVE Typed'
  <2>1. WireTypeOK' BY <1>1 DEF Accept, WireTypeOK, wire
  <2>2. TaskTypeOK' BY <1>1, ActivityTypes DEF Accept, TaskTypeOK, Goto, TaskStates
  <2>3. WindowTypeOK' BY <1>1 DEF Accept, WindowTypeOK
  <2> QED BY <1>1, <2>1, <2>2, <2>3, Kept DEF Accept
<1>2. CASE AcceptAgain
  <2>1. WireTypeOK' BY <1>2 DEF AcceptAgain, WireTypeOK, wire
  <2> QED BY <1>2, <2>1, Kept DEF AcceptAgain, progress
<1>3. CASE StopAccepting
  <2>1. WireTypeOK' BY <1>3 DEF StopAccepting, WireTypeOK, wire
  <2> QED BY <1>3, <2>1, Kept DEF StopAccepting, progress
<1>4. CASE Exit
  <2>1. WireTypeOK' BY <1>4 DEF Exit, WireTypeOK, wire
  <2>2. TaskTypeOK' BY <1>4 DEF Exit, TaskTypeOK, TaskStates
  <2>3. EngineTypeOK' BY <1>4, DaemonAssumption DEF Exit, EngineTypeOK
  <2> QED BY <1>4, <2>1, <2>2, <2>3, Kept DEF Exit
<1> QED BY <1>1, <1>2, <1>3, <1>4 DEF AcceptLoop

LEMMA EngineTyped ==
  ASSUME Typed, Engine
  PROVE  Typed'
<1> USE DEF Typed
<1>1. CASE TakeAttention
  <2>1. Head(channel) \in Messages /\ Tail(channel) \in Seq(Messages)
        /\ Len(Tail(channel)) <= EngineCapacity
    BY <1>1, DaemonAssumption DEF TakeAttention, EngineTypeOK
  <2>2. Head(channel).attention \in Attentions
    BY <1>1, <2>1 DEF TakeAttention, Messages
  <2>3. EngineTypeOK' BY <1>1, <2>1, <2>2 DEF TakeAttention, EngineTypeOK
  <2> QED BY <1>1, <2>3, Kept DEF TakeAttention, progress
<1>2. CASE TakeCommand
  <2>1. Head(channel) \in Messages /\ Tail(channel) \in Seq(Messages)
        /\ Len(Tail(channel)) <= EngineCapacity
    BY <1>2, DaemonAssumption DEF TakeCommand, EngineTypeOK
  <2>2. EngineTypeOK' BY <1>2, <2>1 DEF TakeCommand, EngineTypeOK
  <2> QED BY <1>2, <2>2, Kept DEF TakeCommand, progress
<1>3. CASE AnswerCommand
  <2>1. EngineTypeOK' BY <1>3 DEF AnswerCommand, EngineTypeOK
  <2>2. TaskTypeOK' BY <1>3 DEF AnswerCommand, TaskTypeOK
  <2> QED BY <1>3, <2>1, <2>2, Kept DEF AnswerCommand
<1>4. CASE Publish
  <2>1. StatesTypeOK' BY <1>4, DaemonAssumption DEF Publish, StatesTypeOK
  <2> QED BY <1>4, <2>1, Kept DEF Publish, progress
<1> QED BY <1>1, <1>2, <1>3, <1>4 DEF Engine

\* What the ends of a connection's service have in common.
LEMMA ForgetTyped ==
  ASSUME Typed, NEW c \in Clients, Forget(c), UNCHANGED sent,
         UNCHANGED sight \/ sight' = [sight EXCEPT ![c] = "Idle"],
         UNCHANGED accepting \/ (acceptor' = acceptor /\ notified' \in BOOLEAN),
         verdict' = verdict \/ verdict' = [verdict EXCEPT ![c] = 0], UNCHANGED version
  PROVE  WireTypeOK' /\ TaskTypeOK' /\ StatesTypeOK'
<1>1. WireTypeOK'
  <2> USE DEF Typed, WireTypeOK, Forget
  <2>1. <<>> \in Seq(Lines) OBVIOUS
  <2>2. inbox' \in [Clients -> Seq(Lines)] BY <2>1
  <2>3. acceptor' \in {"select", "accepted", "stopped", "exited"} BY DEF accepting
  <2>4. notified' \in BOOLEAN BY DEF accepting
  <2>5. peer' \in [Clients -> {"absent", "open", "closed", "reset"}] OBVIOUS
  <2>6. sent' \in 0..MaxSent OBVIOUS
  <2> QED BY <2>2, <2>3, <2>4, <2>5, <2>6
<1>2. TaskTypeOK'
  <2> USE DEF Typed, TaskTypeOK, Forget
  <2>1. task' \in [Clients -> TaskStates] BY DEF Goto, TaskStates
  <2>2. request' \in [Clients -> Activities] BY ActivityTypes
  <2>3. ticket' \in [Clients -> 0..MaxSent] BY DaemonAssumption
  <2>4. sight' \in [Clients -> Attentions] BY DEF Attentions
  <2>5. verdict' \in [Clients -> 0..MaxSent]
    <3>1. 0 \in 0..MaxSent BY DaemonAssumption
    <3>2. CASE verdict' = verdict BY <3>2
    <3>3. CASE verdict' = [verdict EXCEPT ![c] = 0] BY <3>1, <3>3
    <3> QED BY <3>2, <3>3
  <2>6. answered' \in [Clients -> 0..MaxSent] BY DaemonAssumption
  <2> QED BY <2>1, <2>2, <2>3, <2>4, <2>5, <2>6
<1>3. StatesTypeOK' BY DaemonAssumption DEF Typed, StatesTypeOK, Forget
<1> QED BY <1>1, <1>2, <1>3

LEMMA ReturnEarlyTyped ==
  ASSUME Typed, NEW c \in Clients, ReturnEarly(c)
  PROVE  Typed'
<1>1. WireTypeOK' /\ TaskTypeOK' /\ StatesTypeOK'
  BY ForgetTyped DEF ReturnEarly
<1>2. RegistrationTypeOK' BY DEF Typed, RegistrationTypeOK, ReturnEarly
<1>3. WindowTypeOK' BY DEF Typed, WindowTypeOK, ReturnEarly
<1> QED BY <1>1, <1>2, <1>3, Kept DEF Typed, ReturnEarly

LEMMA LeaveTyped ==
  ASSUME Typed, NEW c \in Clients, Leave(c), UNCHANGED <<sent, sight, verdict, version>>,
         UNCHANGED accepting \/ (acceptor' = acceptor /\ notified' \in BOOLEAN)
  PROVE  WireTypeOK' /\ TaskTypeOK' /\ StatesTypeOK'
<1>1. CASE watching[c] \/ scope[c] # "none"
  <2>1. WireTypeOK'
    <3> USE <1>1 DEF Leave, Typed, WireTypeOK
    <3>1. acceptor' \in {"select", "accepted", "stopped", "exited"} BY DEF accepting
    <3>2. notified' \in BOOLEAN BY DEF accepting
    <3>3. UNCHANGED wire BY DEF wire
    <3> QED BY <3>1, <3>2, <3>3 DEF wire
  <2>2. TaskTypeOK'
    BY <1>1, ActivityTypes, DaemonAssumption DEF Leave, Typed, TaskTypeOK, Goto, TaskStates
  <2>3. StatesTypeOK' BY <1>1 DEF Leave, Typed, StatesTypeOK
  <2> QED BY <2>1, <2>2, <2>3
<1>2. CASE ~(watching[c] \/ scope[c] # "none")
  BY <1>2, ForgetTyped DEF Leave
<1> QED BY <1>1, <1>2

LEMMA ServeTyped ==
  ASSUME Typed, Phases, NEW c \in Clients, Serve(c)
  PROVE  Typed'
<1> USE DEF Typed
<1>1. CASE EndOfStream(c)
  <2>1. WireTypeOK' /\ TaskTypeOK' /\ StatesTypeOK' BY <1>1, LeaveTyped DEF EndOfStream
  <2> QED BY <1>1, <2>1, Kept DEF EndOfStream
<1>2. CASE ReadFails(c) BY <1>2, ReturnEarlyTyped DEF ReadFails
<1>3. CASE WriteFails(c) BY <1>3, ReturnEarlyTyped DEF WriteFails
<1>4. CASE NotifyShutdown(c)
  <2>1. notified' \in BOOLEAN BY <1>4 DEF NotifyShutdown, WireTypeOK
  <2>2. WireTypeOK' /\ TaskTypeOK' /\ StatesTypeOK'
    BY <1>4, <2>1, LeaveTyped DEF NotifyShutdown
  <2> QED BY <1>4, <2>2, Kept DEF NotifyShutdown
<1>5. CASE ReadLine(c)
  <2> DEFINE line == Head(inbox[c])
  <2>1. line \in Lines /\ Tail(inbox[c]) \in Seq(Lines)
    BY <1>5 DEF ReadLine, WireTypeOK
  <2>2. line.request \in Requests /\ line.request \in AllRequests /\ line.ticket \in 1..MaxSent
    BY <2>1, DaemonAssumption DEF Lines
  <2>3. WireTypeOK' BY <1>5, <2>1 DEF ReadLine, WireTypeOK, accepting
  <2>4. FirstStep(c, line.request) \in TaskStates BY DEF FirstStep, TaskStates
  <2>5. TaskTypeOK'
    BY <1>5, <2>2, <2>4, ActivityTypes, DaemonAssumption DEF ReadLine, TaskTypeOK, Goto
  <2>6. line.request.op = "watching" => line.request.active \in BOOLEAN
    BY <2>2 DEF AllRequests
  <2>7. RegistrationTypeOK'
    BY <1>5, <2>6 DEF ReadLine, RegistrationTypeOK, CountersOnRead, Counters
  <2> QED BY <1>5, <2>3, <2>5, <2>7, Kept DEF ReadLine
<1>6. CASE StateChanged(c)
  <2>1. TaskTypeOK' BY <1>6, ActivityTypes DEF StateChanged, TaskTypeOK, Goto, TaskStates
  <2>2. StatesTypeOK' BY <1>6 DEF StateChanged, StatesTypeOK
  <2> QED BY <1>6, <2>1, <2>2, Kept DEF StateChanged
<1>7. CASE PopupAction(c)
  <2>1. Head(popups[c]) \in PopupActions /\ Tail(popups[c]) \in Seq(PopupActions)
    BY <1>7 DEF PopupAction, WindowTypeOK
  <2>2. TaskTypeOK' BY <1>7, <2>1, ActivityTypes DEF PopupAction, TaskTypeOK, Goto, TaskStates
  <2>3. WindowTypeOK' BY <1>7, <2>1 DEF PopupAction, WindowTypeOK
  <2> QED BY <1>7, <2>2, <2>3, Kept DEF PopupAction
<1>8. CASE AddScope(c)
  <2>1. request[c].scope \in Scopes
    BY <1>8, DaemonAssumption DEF AddScope, Phases, AllRequests
  <2>2. TaskTypeOK' BY <1>8 DEF AddScope, TaskTypeOK, Goto, TaskStates
  <2>3. RegistrationTypeOK'
    BY <1>8, <2>1 DEF AddScope, RegistrationTypeOK, Counters, Scopes
  <2> QED BY <1>8, <2>2, <2>3, Kept DEF AddScope
<1>9. CASE SeeWatching(c) \/ SeeBar(c) \/ SeeFull(c)
  <2>1. TaskTypeOK'
    BY <1>9 DEF SeeWatching, SeeBar, SeeFull, See, TaskTypeOK, Goto, TaskStates, Attentions
  <2> QED BY <1>9, <2>1, Kept DEF SeeWatching, SeeBar, SeeFull, See
<1>10. CASE PostAttention(c)
  <2>1. [msg |-> "attention", attention |-> sight[c]] \in Messages
    BY DEF Messages, TaskTypeOK
  <2>2. EngineTypeOK' BY <1>10, <2>1, DaemonAssumption DEF PostAttention, EngineTypeOK
  <2>3. CASE request[c] = Leaving
    <3>1. WireTypeOK' /\ TaskTypeOK' /\ StatesTypeOK'
      BY <1>10, <2>3, ForgetTyped DEF PostAttention
    <3> QED BY <1>10, <2>2, <3>1, Kept DEF PostAttention
  <2>4. CASE request[c] # Leaving
    <3>1. TaskTypeOK'
      BY <1>10, <2>4 DEF PostAttention, TaskTypeOK, Goto, TaskStates, Attentions
    <3> QED BY <1>10, <2>2, <2>4, <3>1, Kept DEF PostAttention, wire, states
  <2> QED BY <2>3, <2>4
<1>11. CASE TakeSnapshot(c)
  <2>1. TaskTypeOK' BY <1>11 DEF TakeSnapshot, TaskTypeOK, Goto, TaskStates
  <2>2. StatesTypeOK' BY <1>11 DEF TakeSnapshot, StatesTypeOK
  <2> QED BY <1>11, <2>1, <2>2, Kept DEF TakeSnapshot
<1>12. CASE Unwatch(c)
  <2>1. TaskTypeOK' BY <1>12 DEF Unwatch, TaskTypeOK, Goto, TaskStates
  <2>2. RegistrationTypeOK' BY <1>12 DEF Unwatch, RegistrationTypeOK, Counters
  <2> QED BY <1>12, <2>1, <2>2, Kept DEF Unwatch
<1>13. CASE Unscope(c)
  <2>1. TaskTypeOK' BY <1>13 DEF Unscope, TaskTypeOK, Goto, TaskStates
  <2>2. RegistrationTypeOK' BY <1>13 DEF Unscope, RegistrationTypeOK
  <2>3. WindowTypeOK' BY <1>13 DEF Unscope, WindowTypeOK
  <2> QED BY <1>13, <2>1, <2>2, <2>3, Kept DEF Unscope
<1>14. CASE Submit(c)
  <2>1. [msg |-> "command", client |-> c, ticket |-> ticket[c]] \in Messages
    BY <1>14, DaemonAssumption DEF Submit, Messages, TaskTypeOK, Phases
  <2>2. EngineTypeOK' BY <1>14, <2>1, DaemonAssumption DEF Submit, EngineTypeOK
  <2>3. TaskTypeOK' BY <1>14, DaemonAssumption DEF Submit, TaskTypeOK, Goto, TaskStates
  <2> QED BY <1>14, <2>2, <2>3, Kept DEF Submit
<1>15. CASE Answered(c)
  <2>1. TaskTypeOK' BY <1>15 DEF Answered, TaskTypeOK, Goto, TaskStates
  <2> QED BY <1>15, <2>1, Kept DEF Answered
<1>16. CASE TimeOut(c)
  <2>1. TaskTypeOK' BY <1>16 DEF TimeOut, TaskTypeOK, Goto, TaskStates
  <2> QED BY <1>16, <2>1, Kept DEF TimeOut
<1>17. CASE RoutePopup(c)
  <2>1. TaskTypeOK' BY <1>17 DEF RoutePopup, TaskTypeOK, Goto, TaskStates
  <2> QED BY <1>17, <2>1, Kept DEF RoutePopup
<1>19. CASE BroadcastPopup(c)
  <2>1. request[c].action \in PopupActions
    BY <1>19, DaemonAssumption DEF BroadcastPopup, Phases, AllRequests
  <2>2. \A q \in Seq(PopupActions) : Broadcast(q, request[c].action) \in Seq(PopupActions)
    BY <2>1, DaemonAssumption DEF Broadcast
  <2>3. WindowTypeOK' BY <1>19, <2>2 DEF BroadcastPopup, WindowTypeOK
  <2>4. TaskTypeOK' BY <1>19 DEF BroadcastPopup, TaskTypeOK, Goto, TaskStates
  <2> QED BY <1>19, <2>3, <2>4, Kept DEF BroadcastPopup
<1>20. CASE SpawnPopup(c)
  <2>1. WindowTypeOK' BY <1>20, DaemonAssumption DEF SpawnPopup, WindowTypeOK
  <2>2. TaskTypeOK' BY <1>20 DEF SpawnPopup, TaskTypeOK, Goto, TaskStates
  <2> QED BY <1>20, <2>1, <2>2, Kept DEF SpawnPopup
<1>18. CASE WriteFrame(c)
  <2>1. AnswerTicket(c) \in 0..MaxSent BY DEF AnswerTicket, TaskTypeOK
  <2>2. TaskTypeOK'
    BY <1>18, <2>1, ActivityTypes, DaemonAssumption DEF WriteFrame, TaskTypeOK, Goto, TaskStates
  <2>3. StatesTypeOK' BY <1>18 DEF WriteFrame, StatesTypeOK
  <2> QED BY <1>18, <2>2, <2>3, Kept DEF WriteFrame
<1> QED BY <1>1, <1>2, <1>3, <1>4, <1>5, <1>6, <1>7, <1>8, <1>9, <1>10, <1>11, <1>12,
           <1>13, <1>14, <1>15, <1>16, <1>17, <1>18, <1>19, <1>20 DEF Serve

LEMMA NextTyped ==
  ASSUME Typed, Phases, [Next]_vars
  PROVE  Typed'
<1>1. CASE AcceptLoop BY <1>1, AcceptLoopTyped
<1>2. CASE Engine BY <1>2, EngineTyped
<1>3. ASSUME NEW c \in Clients, Serve(c) PROVE Typed' BY <1>3, ServeTyped
<1>4. ASSUME NEW c \in Clients, Client(c) PROVE Typed' BY <1>4, ClientTyped
<1>5. CASE UNCHANGED vars
  BY <1>5, Kept DEF vars, Typed, accepting, wire, progress, local, engine, states, window
<1> QED BY <1>1, <1>2, <1>3, <1>4, <1>5 DEF Next

-----------------------------------------------------------------------------

LEMMA NextPhases ==
  ASSUME Typed, Phases, [Next]_vars
  PROVE  Phases'
<1> USE DEF Phases
<1>1. CASE AcceptLoop
  <2>1. ASSUME NEW c \in Clients, Accept(c) PROVE Phases'
    BY <2>1 DEF Accept, Goto, Typed, TaskTypeOK, local
  <2>2. CASE AcceptAgain \/ StopAccepting
    BY <2>2 DEF AcceptAgain, StopAccepting, local
  <2>3. CASE Exit BY <2>3 DEF Exit
  <2> QED BY <1>1, <2>1, <2>2, <2>3 DEF AcceptLoop
<1>2. CASE Engine
  BY <1>2 DEF Engine, TakeAttention, TakeCommand, AnswerCommand, Publish, local
<1>3. ASSUME NEW c \in Clients, Client(c) PROVE Phases'
  BY <1>3 DEF Client, Connect, HangUp, Send, local
<1>4. ASSUME NEW c \in Clients, Serve(c) PROVE Phases'
  <2> USE DEF Typed, TaskTypeOK, RegistrationTypeOK, Goto, local
  <2>1. ASSUME Forget(c), \A d \in Clients \ {c} : scope'[d] = scope[d]
        PROVE  Phases'
    BY <2>1 DEF Forget
  <2>2. CASE ReadFails(c) \/ WriteFails(c)
    BY <2>1, <2>2 DEF ReadFails, WriteFails, ReturnEarly
  <2>3. CASE EndOfStream(c) \/ NotifyShutdown(c)
    BY <2>1, <2>3 DEF EndOfStream, NotifyShutdown, Leave
  <2>4. CASE ReadLine(c)
    <3> DEFINE line == Head(inbox[c])
    <3>1. line \in Lines BY <2>4 DEF ReadLine, WireTypeOK
    <3>2. line.request \in Requests /\ line.ticket \in 1..MaxSent BY <3>1 DEF Lines
    <3>3. /\ FirstStep(c, line.request) = "add" => line.request.op = "subscribe"
          /\ FirstStep(c, line.request) = "add" => scope[c] # line.request.scope
          /\ FirstStep(c, line.request) \in {"route", "broadcast"} => line.request.op = "popup"
          /\ FirstStep(c, line.request) # "await"
      BY DEF FirstStep
    <3> QED BY <2>4, <3>2, <3>3 DEF ReadLine
  <2>5. CASE StateChanged(c) \/ PopupAction(c)
    BY <2>5 DEF StateChanged, PopupAction
  <2>6. CASE AddScope(c) BY <2>6 DEF AddScope
  <2>7. CASE SeeWatching(c) \/ SeeBar(c) \/ SeeFull(c)
    BY <2>7 DEF SeeWatching, SeeBar, SeeFull, See
  <2>8. CASE PostAttention(c) BY <2>1, <2>8 DEF PostAttention
  <2>9. CASE TakeSnapshot(c) BY <2>9 DEF TakeSnapshot
  <2>10. CASE Unwatch(c) \/ Unscope(c) BY <2>10 DEF Unwatch, Unscope
  <2>11. CASE Submit(c) \/ Answered(c) \/ TimeOut(c)
    BY <2>11 DEF Submit, Answered, TimeOut
  <2>12. CASE RoutePopup(c) \/ BroadcastPopup(c) \/ SpawnPopup(c)
    BY <2>12 DEF RoutePopup, BroadcastPopup, SpawnPopup
  <2>13. CASE WriteFrame(c) BY <2>13 DEF WriteFrame
  <2> QED BY <1>4, <2>2, <2>3, <2>4, <2>5, <2>6, <2>7, <2>8, <2>9, <2>10, <2>11, <2>12,
             <2>13 DEF Serve
<1>5. CASE UNCHANGED vars BY <1>5 DEF vars, local
<1> QED BY <1>1, <1>2, <1>3, <1>4, <1>5 DEF Next

-----------------------------------------------------------------------------
(* The ledger. *)

LEMMA HoldersFinite ==
  ASSUME NEW k
  PROVE  Holders(k) \in SUBSET Clients /\ Cardinality(Holders(k)) \in Nat
BY DaemonAssumption, FS_Subset, FS_CardinalityType DEF Holders

\* How one connection's coming or going changes a count.
LEMMA CountChange ==
  ASSUME NEW S \in SUBSET Clients, NEW T \in SUBSET Clients, NEW c \in Clients,
         S \ {c} = T \ {c}
  PROVE  /\ c \in S /\ c \in T => Cardinality(T) = Cardinality(S)
         /\ c \notin S /\ c \notin T => Cardinality(T) = Cardinality(S)
         /\ c \notin S /\ c \in T => Cardinality(T) = Cardinality(S) + 1
         /\ c \in S /\ c \notin T => Cardinality(T) = Cardinality(S) - 1
<1>1. IsFiniteSet(S) /\ IsFiniteSet(T) BY DaemonAssumption, FS_Subset
<1>2. c \in S /\ c \in T => S = T OBVIOUS
<1>3. c \notin S /\ c \notin T => S = T OBVIOUS
<1>4. c \notin S /\ c \in T => T = S \cup {c} OBVIOUS
<1>5. c \in S /\ c \notin T => T = S \ {c} OBVIOUS
<1> QED BY <1>1, <1>2, <1>3, <1>4, <1>5, FS_AddElement, FS_RemoveElement

LEMMA NextLedger ==
  ASSUME Typed, Phases, CounterLedger, [Next]_vars
  PROVE  CounterLedger'
<1> USE DEF Typed, RegistrationTypeOK
\* A step that touches no registration.
<1>1. ASSUME UNCHANGED <<local, watchers, lost>> PROVE CounterLedger'
  BY <1>1 DEF CounterLedger, Holders, local
\* A step of one connection: each count moves with its set of holders.
<1>2. ASSUME NEW c \in Clients,
             \A d \in Clients \ {c} : scope'[d] = scope[d] /\ watching'[d] = watching[d],
             \A k \in Counters :
                 /\ c \in Holders(k) /\ c \in Holders(k)'
                        => watchers'[k] - lost'[k] = watchers[k] - lost[k]
                 /\ c \notin Holders(k) /\ c \notin Holders(k)'
                        => watchers'[k] - lost'[k] = watchers[k] - lost[k]
                 /\ c \notin Holders(k) /\ c \in Holders(k)'
                        => watchers'[k] - lost'[k] = watchers[k] - lost[k] + 1
                 /\ c \in Holders(k) /\ c \notin Holders(k)'
                        => watchers'[k] - lost'[k] = watchers[k] - lost[k] - 1,
             watchers' \in [Counters -> Int], lost' \in [Counters -> Nat]
      PROVE  CounterLedger'
  <2> SUFFICES ASSUME NEW k \in Counters
               PROVE  watchers'[k] = Cardinality(Holders(k)') + lost'[k]
    BY DEF CounterLedger
  <2>1. Holders(k) \ {c} = Holders(k)' \ {c} BY <1>2 DEF Holders
  <2>2. Holders(k) \in SUBSET Clients /\ Holders(k)' \in SUBSET Clients BY DEF Holders
  <2>3. Cardinality(Holders(k)) \in Nat BY HoldersFinite
  <2>4. Cardinality(Holders(k)') \in Nat
    BY <2>2, DaemonAssumption, FS_Subset, FS_CardinalityType
  <2>5. watchers[k] = Cardinality(Holders(k)) + lost[k] BY DEF CounterLedger
  <2>6. watchers[k] \in Int /\ lost[k] \in Nat /\ watchers'[k] \in Int /\ lost'[k] \in Nat
    BY <1>2
  <2> QED BY <1>2, <2>1, <2>2, <2>3, <2>4, <2>5, <2>6, CountChange
<1>3. Typed' BY NextTyped
<1>4. CASE AcceptLoop
  BY <1>1, <1>4 DEF AcceptLoop, Accept, AcceptAgain, StopAccepting, Exit
<1>5. CASE Engine
  BY <1>1, <1>5 DEF Engine, TakeAttention, TakeCommand, AnswerCommand, Publish
<1>6. ASSUME NEW c \in Clients, Client(c) PROVE CounterLedger'
  BY <1>1, <1>6 DEF Client, Connect, HangUp, Send
<1>7. ASSUME NEW c \in Clients, Serve(c) PROVE CounterLedger'
  <2>1. CASE ReadFails(c) \/ WriteFails(c)
    BY <1>2, <1>3, <2>1
    DEF ReadFails, WriteFails, ReturnEarly, Holders, Counters, Scopes, local
  <2>2. CASE ReadLine(c)
    <3> DEFINE line == Head(inbox[c])
    <3>1. line \in Lines BY <2>2 DEF ReadLine, WireTypeOK
    <3>2. /\ line.request.op = "subscribe" => line.request.scope \in Scopes
          /\ line.request.op = "watching" => line.request.active \in BOOLEAN
      BY <3>1, DaemonAssumption DEF Lines, AllRequests
    <3>3. \A d \in Clients \ {c} : scope'[d] = scope[d] /\ watching'[d] = watching[d]
      BY <2>2 DEF ReadLine
    <3>4. CASE line.request.op = "subscribe"
      <4> DEFINE requested == line.request.scope
      <4>1. /\ watching' = watching /\ lost' = lost
            /\ scope'[c] = IF scope[c] # requested THEN "none" ELSE scope[c]
            /\ watchers' = CountersOnRead(c, line.request)
        BY <2>2, <3>4 DEF ReadLine
      <4>2. requested \in Scopes BY <3>2, <3>4
      <4>3. ASSUME NEW k \in {"bar", "full"}
            PROVE  watchers'[k] = IF scope[c] = k /\ requested # k
                                  THEN watchers[k] - 1 ELSE watchers[k]
        BY <3>4, <4>1 DEF CountersOnRead, Counters
      <4>4. ASSUME NEW k \in {"bar", "full"}
            PROVE  /\ c \in Holders(k) <=> scope[c] = k
                   /\ c \in Holders(k)' <=> scope[c] = k /\ requested = k
        BY <4>1 DEF Holders
      <4>5. watchers'["watching"] = watchers["watching"]
        BY <3>4, <4>1 DEF CountersOnRead, Counters
      <4>6. c \in Holders("watching") <=> c \in Holders("watching")'
        BY <4>1 DEF Holders
      <4>7. \A k \in Counters : watchers[k] \in Int /\ lost'[k] = lost[k] /\ lost[k] \in Nat
        BY <4>1
      <4>8. ASSUME NEW k \in {"bar", "full"}
            PROVE  IF c \in Holders(k) /\ c \notin Holders(k)'
                   THEN watchers'[k] = watchers[k] - 1
                   ELSE watchers'[k] = watchers[k] /\ (c \in Holders(k)' => c \in Holders(k))
        BY <4>3, <4>4
      <4> QED BY <1>2, <1>3, <3>3, <4>5, <4>6, <4>7, <4>8 DEF Counters
    <3>5. CASE line.request.op = "watching"
      <4> DEFINE active == line.request.active
      <4>1. scope' = scope /\ lost' = lost /\ watching'[c] = active
        BY <2>2, <3>5 DEF ReadLine
      <4>2. \A k \in {"bar", "full"} :
                /\ watchers'[k] = watchers[k] /\ lost'[k] = lost[k]
                /\ c \in Holders(k) <=> c \in Holders(k)'
        BY <2>2, <3>5, <4>1 DEF ReadLine, CountersOnRead, Holders, Counters
      <4>3. watchers'["watching"] =
                IF watching[c] # active
                THEN IF active THEN watchers["watching"] + 1 ELSE watchers["watching"] - 1
                ELSE watchers["watching"]
        BY <2>2, <3>5 DEF ReadLine, CountersOnRead, Counters
      <4>4. /\ c \in Holders("watching") <=> watching[c]
            /\ c \in Holders("watching")' <=> active
        BY <4>1 DEF Holders
      <4>5. active \in BOOLEAN /\ watching[c] \in BOOLEAN BY <3>2, <3>5
      <4>6. CASE active = watching[c]
        BY <1>2, <1>3, <3>3, <4>1, <4>2, <4>3, <4>4, <4>6 DEF Counters
      <4>7. CASE active = TRUE /\ watching[c] = FALSE
        BY <1>2, <1>3, <3>3, <4>1, <4>2, <4>3, <4>4, <4>7 DEF Counters
      <4>8. CASE active = FALSE /\ watching[c] = TRUE
        <5>1. c \in Holders("watching") /\ c \notin Holders("watching")' BY <4>4, <4>8
        <5>2. watchers'["watching"] = watchers["watching"] - 1 BY <4>3, <4>8
        <5> QED BY <1>2, <1>3, <3>3, <4>1, <4>2, <5>1, <5>2 DEF Counters
      <4> QED BY <4>5, <4>6, <4>7, <4>8
    <3>6. CASE line.request.op \notin {"subscribe", "watching"}
      <4>1. UNCHANGED <<local, watchers, lost>>
        BY <2>2, <3>6 DEF ReadLine, CountersOnRead, local, Counters
      <4> QED BY <1>1, <4>1
    <3> QED BY <3>4, <3>5, <3>6
  <2>3. CASE AddScope(c)
    <3>1. request[c].scope \in Scopes /\ scope[c] = "none"
      BY <2>3, DaemonAssumption DEF AddScope, Phases, AllRequests
    <3> QED BY <1>2, <1>3, <2>3, <3>1 DEF AddScope, Holders, Counters, Scopes
  <2>4. CASE Unwatch(c)
    <3>1. \A d \in Clients \ {c} : scope'[d] = scope[d] /\ watching'[d] = watching[d]
      BY <2>4 DEF Unwatch
    <3>2. \A k \in {"bar", "full"} :
              /\ watchers'[k] = watchers[k] /\ lost'[k] = lost[k]
              /\ c \in Holders(k) <=> c \in Holders(k)'
      BY <2>4 DEF Unwatch, Holders, Counters
    <3>3. CASE watching[c]
      <4>1. c \in Holders("watching") /\ c \notin Holders("watching")'
        BY <2>4, <3>3 DEF Unwatch, Holders
      <4>2. watchers'["watching"] = watchers["watching"] - 1 /\ lost' = lost
        BY <2>4, <3>3 DEF Unwatch, Counters
      <4> QED BY <1>2, <1>3, <3>1, <3>2, <4>1, <4>2 DEF Counters
    <3>4. CASE ~watching[c]
      <4>1. c \notin Holders("watching") /\ c \notin Holders("watching")'
        BY <2>4, <3>4 DEF Unwatch, Holders
      <4>2. watchers'["watching"] = watchers["watching"] /\ lost' = lost
        BY <2>4, <3>4 DEF Unwatch, Counters
      <4> QED BY <1>2, <1>3, <3>1, <3>2, <4>1, <4>2 DEF Counters
    <3> QED BY <3>3, <3>4
  <2>5. CASE Unscope(c)
    BY <1>2, <1>3, <2>5 DEF Unscope, Holders, Counters, Scopes
  <2>6. CASE EndOfStream(c) \/ NotifyShutdown(c) \/ StateChanged(c) \/ PopupAction(c)
    BY <1>1, <2>6 DEF EndOfStream, NotifyShutdown, StateChanged, PopupAction
  <2>7. CASE SeeWatching(c) \/ SeeBar(c) \/ SeeFull(c) \/ PostAttention(c) \/ TakeSnapshot(c)
    BY <1>1, <2>7 DEF SeeWatching, SeeBar, SeeFull, See, PostAttention, TakeSnapshot
  <2>8. CASE Submit(c) \/ Answered(c) \/ TimeOut(c) \/ WriteFrame(c)
    BY <1>1, <2>8 DEF Submit, Answered, TimeOut, WriteFrame
  <2>9. CASE RoutePopup(c) \/ BroadcastPopup(c) \/ SpawnPopup(c)
    BY <1>1, <2>9 DEF RoutePopup, BroadcastPopup, SpawnPopup
  <2> QED BY <1>7, <2>1, <2>2, <2>3, <2>4, <2>5, <2>6, <2>7, <2>8, <2>9 DEF Serve
<1>8. CASE UNCHANGED vars BY <1>1, <1>8 DEF vars
<1> QED BY <1>4, <1>5, <1>6, <1>7, <1>8 DEF Next

-----------------------------------------------------------------------------
(* The theorems. *)

IInv == Typed /\ Phases /\ CounterLedger

LEMMA InitIInv == Init => IInv
<1> SUFFICES ASSUME Init PROVE IInv OBVIOUS
<1>1. Typed BY TypedInit
<1>2. Phases BY DEF Init, Phases
<1>3. CounterLedger
  <2>1. \A k \in Counters : Holders(k) = {} BY DEF Init, Holders, Counters
  <2>2. Cardinality({}) = 0 BY FS_EmptySet
  <2> SUFFICES ASSUME NEW k \in Counters
               PROVE  watchers[k] = Cardinality(Holders(k)) + lost[k]
    BY DEF CounterLedger
  <2>3. watchers[k] = 0 /\ lost[k] = 0 BY DEF Init
  <2>4. Cardinality(Holders(k)) = 0 BY <2>1, <2>2
  <2> QED BY <2>3, <2>4
<1> QED BY <1>1, <1>2, <1>3 DEF IInv

LEMMA NextIInv == IInv /\ [Next]_vars => IInv'
BY NextTyped, NextPhases, NextLedger DEF IInv

LEMMA IInvAlways == Spec => []IInv
BY InitIInv, NextIInv, PTL DEF Spec

\* Every counter is exactly the connections registered under it plus the
\* registrations an early return of serve_client dropped.
THEOREM LedgerAlways == Spec => []CounterLedger
<1>1. IInv => CounterLedger BY DEF IInv
<1> QED BY <1>1, IInvAlways, PTL

\* Every variable has its type and no counter ever goes below zero.
THEOREM TypeAlways == Spec => []TypeOK
<1>1. IInv => TypeOK
  <2> SUFFICES ASSUME IInv PROVE TypeOK OBVIOUS
  <2>1. ASSUME NEW k \in Counters PROVE watchers[k] >= 0
    <3>1. watchers[k] = Cardinality(Holders(k)) + lost[k] BY DEF IInv, CounterLedger
    <3>2. Cardinality(Holders(k)) \in Nat BY HoldersFinite
    <3>3. lost[k] \in Nat BY DEF IInv, Typed, RegistrationTypeOK
    <3> QED BY <3>1, <3>2, <3>3
  <2> QED BY <2>1 DEF IInv, Typed, TypeOK
<1> QED BY <1>1, IInvAlways, PTL

\* The daemon decides to start a window process only while no connection is
\* registered as a window.
THEOREM NoSecondWindowAlways == Spec => NoSecondWindow
<1>1. ASSUME IInv, [Next]_vars
      PROVE  [\A c \in Clients :
                 task[c] = "route" /\ task'[c] = "spawn"
                     => \A d \in Clients : scope[d] # "full"]_vars
  <2> SUFFICES ASSUME NEW c \in Clients, task[c] = "route", task'[c] = "spawn",
                      NEW d \in Clients, scope[d] = "full"
               PROVE  FALSE
    OBVIOUS
  <2>1. RoutePopup(c)
    <3>1. task \in [Clients -> TaskStates] BY <1>1 DEF IInv, Typed, TaskTypeOK
    <3>2. ASSUME NEW e \in Clients, Accept(e) PROVE FALSE
      BY <3>1, <3>2 DEF Accept, Goto
    <3>3. CASE AcceptAgain \/ StopAccepting \/ Exit
      BY <3>3 DEF AcceptAgain, StopAccepting, Exit
    <3>4. CASE Engine
      BY <3>4 DEF Engine, TakeAttention, TakeCommand, AnswerCommand, Publish
    <3>5. CASE UNCHANGED vars BY <3>5 DEF vars
    <3>6. ASSUME NEW e \in Clients, Client(e) PROVE FALSE
      BY <3>6 DEF Client, Connect, HangUp, Send
    <3>7. ASSUME NEW e \in Clients, Serve(e) PROVE RoutePopup(c)
      <4>1. (\E s : task' = [task EXCEPT ![e] = s]) \/ task' = task
        <5> USE DEF Goto
        <5>1. CASE EndOfStream(e) \/ ReadFails(e) \/ ReadLine(e) \/ StateChanged(e)
                     \/ PopupAction(e) \/ AddScope(e) \/ WriteFails(e) \/ NotifyShutdown(e)
          BY <5>1 DEF EndOfStream, ReadFails, ReadLine, StateChanged, PopupAction,
                      AddScope, WriteFails, NotifyShutdown, ReturnEarly, Leave, Forget
        <5>2. CASE SeeWatching(e) \/ SeeBar(e) \/ SeeFull(e) \/ PostAttention(e)
                     \/ TakeSnapshot(e) \/ Unwatch(e) \/ Unscope(e)
          BY <5>2 DEF SeeWatching, SeeBar, SeeFull, See, PostAttention, TakeSnapshot,
                      Unwatch, Unscope, Forget
        <5>3. CASE Submit(e) \/ Answered(e) \/ TimeOut(e) \/ RoutePopup(e)
                     \/ BroadcastPopup(e) \/ SpawnPopup(e) \/ WriteFrame(e)
          BY <5>3 DEF Submit, Answered, TimeOut, RoutePopup, BroadcastPopup, SpawnPopup,
                      WriteFrame
        <5> QED BY <3>7, <5>1, <5>2, <5>3 DEF Serve
      <4>2. e = c BY <3>1, <4>1
      <4> QED
        BY <3>7, <4>2 DEF Serve, EndOfStream, ReadFails, ReadLine, StateChanged,
           PopupAction, AddScope, SeeWatching, SeeBar, SeeFull, PostAttention,
           TakeSnapshot, Unwatch, Unscope, Submit, Answered, TimeOut, BroadcastPopup,
           SpawnPopup, WriteFrame, WriteFails, NotifyShutdown
    <3> QED BY <1>1, <3>2, <3>3, <3>4, <3>5, <3>6, <3>7 DEF Next, AcceptLoop
  <2>2. watchers["full"] = 0
    <3>1. task \in [Clients -> TaskStates] BY <1>1 DEF IInv, Typed, TaskTypeOK
    <3> QED BY <2>1, <3>1 DEF RoutePopup, Goto
  <2>3. watchers["full"] = Cardinality(Holders("full")) + lost["full"]
    BY <1>1 DEF IInv, CounterLedger, Counters
  <2>4. d \in Holders("full") BY DEF Holders
  <2>5. IsFiniteSet(Holders("full")) /\ Cardinality(Holders("full")) \in Nat
    BY HoldersFinite, DaemonAssumption, FS_Subset
  <2>6. Holders("full") = {} BY <2>2, <2>3, <2>5, <1>1, FS_EmptySet
        DEF IInv, Typed, RegistrationTypeOK, Counters
  <2> QED BY <2>4, <2>6
<1> QED BY <1>1, IInvAlways, PTL DEF Spec, NoSecondWindow
-----------------------------------------------------------------------------
(* What a subscribed client has been sent. *)

\* Every change a subscriber's receiver has marked seen has been written to
\* the client, or is what the task is about to write.  Only runtime shutdown
\* abandons a write.
StatesCaught ==
    /\ acceptor = "exited" => \A c \in Clients : task[c] = "none"
    /\ \A c \in Clients :
        /\ scope[c] # "none" /\ shown[c] # seen[c] /\ acceptor # "exited"
              => /\ task[c] \in {"seeWatching", "seeBar", "seeFull", "post", "snapshot", "write"}
                 /\ CarriesState(c)
        /\ task[c] = "snapshot" => request[c].op = "subscribe"

LEMMA NextCaught ==
  ASSUME Typed, Phases, StatesCaught, [Next]_vars
  PROVE  StatesCaught'
<1> USE DEF StatesCaught, CarriesState
<1>1. CASE AcceptLoop
  <2>1. ASSUME NEW c \in Clients, Accept(c) PROVE StatesCaught'
    BY <2>1 DEF Accept, Goto, Typed, TaskTypeOK, local, states
  <2>2. CASE AcceptAgain \/ StopAccepting
    BY <2>2 DEF AcceptAgain, StopAccepting, local, states
  <2>3. CASE Exit BY <2>3 DEF Exit
  <2> QED BY <1>1, <2>1, <2>2, <2>3 DEF AcceptLoop
<1>2. CASE Engine
  BY <1>2 DEF Engine, TakeAttention, TakeCommand, AnswerCommand, Publish, local, states,
     accepting
<1>3. ASSUME NEW c \in Clients, Client(c) PROVE StatesCaught'
  BY <1>3 DEF Client, Connect, HangUp, Send, local, states, accepting
<1>4. ASSUME NEW c \in Clients, Serve(c) PROVE StatesCaught'
  <2> USE DEF Typed, TaskTypeOK, RegistrationTypeOK, StatesTypeOK, Goto, local, states,
              accepting
  <2>1. ASSUME Forget(c), acceptor' = acceptor,
               \A d \in Clients \ {c} : scope'[d] = scope[d]
        PROVE  StatesCaught'
    BY <2>1 DEF Forget
  <2>2. acceptor # "exited"
    BY <1>4 DEF Serve, EndOfStream, ReadFails, ReadLine, StateChanged,
       PopupAction, AddScope, SeeWatching, SeeBar, SeeFull, PostAttention,
       TakeSnapshot, Unwatch, Unscope, Submit, Answered, TimeOut, RoutePopup,
       BroadcastPopup, SpawnPopup, WriteFrame, WriteFails, NotifyShutdown
  <2>3. CASE ReadFails(c) \/ WriteFails(c)
    BY <2>1, <2>3 DEF ReadFails, WriteFails, ReturnEarly
  <2>4. CASE EndOfStream(c) \/ NotifyShutdown(c)
    BY <2>1, <2>2, <2>4 DEF EndOfStream, NotifyShutdown, Leave
  <2>5. CASE ReadLine(c)
    <3> DEFINE r == Head(inbox[c]).request
    <3>1. FirstStep(c, r) = "snapshot" => r.op = "subscribe" BY DEF FirstStep
    <3>2. shown[c] = seen[c] \/ scope[c] = "none" BY <2>2, <2>5 DEF ReadLine
    <3>3. scope'[c] \in {scope[c], "none"} BY <2>5 DEF ReadLine
    <3>4. task' = [task EXCEPT ![c] = FirstStep(c, r)]
          /\ request' = [request EXCEPT ![c] = r]
          /\ UNCHANGED <<acceptor, seen, shown>>
          /\ \A d \in Clients \ {c} : scope'[d] = scope[d]
      BY <2>5 DEF ReadLine
    <3> QED BY <2>2, <3>1, <3>2, <3>3, <3>4
  <2>6. CASE StateChanged(c) BY <2>2, <2>6 DEF StateChanged, Pushing
  <2>7. CASE PopupAction(c) BY <2>2, <2>7 DEF PopupAction
  <2>8. CASE AddScope(c) BY <2>2, <2>8 DEF AddScope, Phases
  <2>9. CASE SeeWatching(c) \/ SeeBar(c) \/ SeeFull(c)
    BY <2>2, <2>9 DEF SeeWatching, SeeBar, SeeFull, See
  <2>10. CASE PostAttention(c) BY <2>1, <2>2, <2>10 DEF PostAttention
  <2>11. CASE TakeSnapshot(c) BY <2>2, <2>11 DEF TakeSnapshot
  <2>12. CASE Unwatch(c) \/ Unscope(c) BY <2>2, <2>12 DEF Unwatch, Unscope
  <2>13. CASE Submit(c) \/ Answered(c) \/ TimeOut(c)
    BY <2>2, <2>13 DEF Submit, Answered, TimeOut
  <2>14. CASE RoutePopup(c) \/ BroadcastPopup(c) \/ SpawnPopup(c)
    BY <2>2, <2>14 DEF RoutePopup, BroadcastPopup, SpawnPopup
  <2>15. CASE WriteFrame(c) BY <2>2, <2>15 DEF WriteFrame
  <2> QED BY <1>4, <2>3, <2>4, <2>5, <2>6, <2>7, <2>8, <2>9, <2>10, <2>11, <2>12,
             <2>13, <2>14, <2>15 DEF Serve
<1>5. CASE UNCHANGED vars BY <1>5 DEF vars, local, states, accepting
<1> QED BY <1>1, <1>2, <1>3, <1>4, <1>5 DEF Next
-----------------------------------------------------------------------------
(* The order of the answers. *)

\* The requests of a connection wait in the order of their tickets, behind the
\* one its task is busy with.
TicketsQueued ==
    \A c \in Clients :
        /\ ticket[c] <= sent
        /\ \A i \in DOMAIN inbox[c] :
              /\ ticket[c] < inbox[c][i].ticket /\ inbox[c][i].ticket <= sent
              /\ \A j \in DOMAIN inbox[c] :
                    i < j => inbox[c][i].ticket < inbox[c][j].ticket

\* A command for the player is on its way to the engine, or its task waits
\* for the verdict on that very command, or has it.
VerdictIsOnThis ==
    \A c \in Clients :
        /\ request[c].op = "player" /\ acceptor # "exited"
              => \/ task[c] \in {"submit", "await"}
                 \/ task[c] = "write" /\ verdict[c] = ticket[c]
        /\ task[c] = "await" => verdict[c] \in {0, ticket[c]}

LEMMA QueuedTickets ==
  ASSUME inbox \in [Clients -> Seq(Lines)]
  PROVE  \A d \in Clients : \A i \in DOMAIN inbox[d] : inbox[d][i].ticket \in 1..MaxSent
<1> SUFFICES ASSUME NEW d \in Clients, NEW i \in DOMAIN inbox[d]
             PROVE  inbox[d][i].ticket \in 1..MaxSent
  OBVIOUS
<1>1. inbox[d] \in Seq(Lines) OBVIOUS
<1>2. i \in 1..Len(inbox[d]) BY <1>1, LenProperties
<1>3. inbox[d][i] \in Lines BY <1>1, <1>2, ElementOfSeq
<1> QED BY <1>3 DEF Lines

LEMMA NextTickets ==
  ASSUME Typed, TicketsQueued, [Next]_vars
  PROVE  TicketsQueued'
<1> USE DEF TicketsQueued
<1>1. ASSUME UNCHANGED <<inbox, sent, ticket>> PROVE TicketsQueued'
  BY <1>1
\* One connection forgets what it is busy with, and perhaps what waits too.
<1>2. ASSUME NEW c \in Clients, UNCHANGED sent,
             \/ inbox' = inbox
             \/ inbox' = [inbox EXCEPT ![c] = <<>>] /\ inbox \in [Clients -> Seq(Lines)],
             ticket' = [ticket EXCEPT ![c] = 0], Typed
      PROVE  TicketsQueued'
  <2> SUFFICES ASSUME NEW d \in Clients
               PROVE  /\ ticket'[d] <= sent'
                      /\ \A i \in DOMAIN inbox'[d] :
                            /\ ticket'[d] < inbox'[d][i].ticket /\ inbox'[d][i].ticket <= sent'
                            /\ \A j \in DOMAIN inbox'[d] :
                                  i < j => inbox'[d][i].ticket < inbox'[d][j].ticket
    OBVIOUS
  <2>1. ticket \in [Clients -> 0..MaxSent] /\ sent \in 0..MaxSent /\ MaxSent \in Nat
        /\ inbox \in [Clients -> Seq(Lines)]
    BY <1>2, DaemonAssumption DEF Typed, TaskTypeOK, WireTypeOK
  <2>2. inbox'[d] = inbox[d] \/ inbox'[d] = <<>> BY <1>2, <2>1
  <2>3. \A i \in DOMAIN inbox[d] : inbox[d][i].ticket \in 1..MaxSent
    BY <2>1, QueuedTickets
  <2>4. ticket'[d] = IF d = c THEN 0 ELSE ticket[d] BY <1>2, <2>1
  <2> QED BY <1>2, <2>1, <2>2, <2>3, <2>4
<1>3. CASE AcceptLoop
  BY <1>1, <1>3 DEF AcceptLoop, Accept, AcceptAgain, StopAccepting, Exit, wire
<1>4. CASE Engine
  BY <1>1, <1>4 DEF Engine, TakeAttention, TakeCommand, AnswerCommand, Publish, wire
<1>5. ASSUME NEW c \in Clients, Client(c) PROVE TicketsQueued'
  <2>1. CASE Connect(c) \/ HangUp(c) BY <1>1, <2>1 DEF Connect, HangUp
  <2>2. ASSUME NEW r \in Requests, Send(c, r) PROVE TicketsQueued'
    <3>1. inbox \in [Clients -> Seq(Lines)] /\ sent \in Nat
          /\ ticket \in [Clients -> 0..MaxSent] /\ MaxSent \in Nat
      BY DaemonAssumption DEF Typed, WireTypeOK, TaskTypeOK
    <3>2. sent' = sent + 1 /\ ticket' = ticket
          /\ inbox' = [inbox EXCEPT ![c] = Append(@, [ticket |-> sent + 1, request |-> r])]
      BY <2>2 DEF Send
    <3>3. ASSUME NEW d \in Clients
          PROVE  /\ ticket'[d] <= sent'
                 /\ \A i \in DOMAIN inbox'[d] :
                       /\ ticket'[d] < inbox'[d][i].ticket /\ inbox'[d][i].ticket <= sent'
                       /\ \A j \in DOMAIN inbox'[d] :
                             i < j => inbox'[d][i].ticket < inbox'[d][j].ticket
      <4>1. \A i \in DOMAIN inbox[d] : inbox[d][i].ticket \in Nat /\ inbox[d][i].ticket <= sent
        BY <3>1, QueuedTickets
      <4>2. CASE d # c BY <3>1, <3>2, <4>1, <4>2
      <4>3. CASE d = c
        <5> DEFINE q == inbox[c] n == Len(inbox[c])
        <5>1. q \in Seq(Lines) /\ n \in Nat /\ DOMAIN q = 1..n BY <3>1
        <5>2. inbox'[c] = Append(q, [ticket |-> sent + 1, request |-> r]) BY <3>1, <3>2
        <5>3. /\ DOMAIN inbox'[c] = 1..(n + 1)
              /\ \A i \in 1..n : inbox'[c][i] = q[i]
              /\ inbox'[c][n + 1].ticket = sent + 1
          BY <5>1, <5>2
        <5>4. \A i \in 1..n : /\ ticket[c] < q[i].ticket
                              /\ q[i].ticket \in Nat /\ q[i].ticket <= sent
                              /\ \A j \in 1..n : i < j => q[i].ticket < q[j].ticket
          BY <4>1, <4>3, <5>1
        <5>5. ticket'[c] = ticket[c] /\ ticket[c] \in Nat /\ ticket[c] <= sent
          BY <3>1, <3>2
        <5>6. \A i \in 1..(n + 1) : i \in 1..n \/ i = n + 1 BY <5>1
        <5>7. \A i \in 1..(n + 1) : ticket'[c] < inbox'[c][i].ticket
                                    /\ inbox'[c][i].ticket <= sent'
          BY <3>1, <3>2, <5>3, <5>4, <5>5, <5>6
        <5>8. \A i, j \in 1..(n + 1) : i < j => inbox'[c][i].ticket < inbox'[c][j].ticket
          BY <3>1, <5>1, <5>3, <5>4, <5>6
        <5>9. ticket'[c] <= sent' BY <3>1, <3>2, <5>5
        <5> QED BY <4>3, <5>3, <5>7, <5>8, <5>9
      <4> QED BY <4>2, <4>3
    <3> QED BY <3>3
  <2> QED BY <1>5, <2>1, <2>2 DEF Client
<1>6. ASSUME NEW c \in Clients, Serve(c) PROVE TicketsQueued'
  <2>1. inbox \in [Clients -> Seq(Lines)] BY DEF Typed, WireTypeOK
  <2>2. ASSUME Forget(c), UNCHANGED sent PROVE TicketsQueued'
    BY <1>2, <2>1, <2>2 DEF Forget
  <2>3. CASE ReadFails(c) \/ WriteFails(c)
    BY <2>2, <2>3 DEF ReadFails, WriteFails, ReturnEarly
  <2>4. CASE EndOfStream(c) \/ NotifyShutdown(c)
    BY <1>2, <2>2, <2>4 DEF EndOfStream, NotifyShutdown, Leave
  <2>5. CASE PostAttention(c)
    BY <1>1, <2>2, <2>5 DEF PostAttention
  <2>6. CASE WriteFrame(c) BY <1>2, <2>6 DEF WriteFrame, wire
  <2>7. CASE ReadLine(c)
    <3>1. /\ inbox' = [inbox EXCEPT ![c] = Tail(@)] /\ sent' = sent
          /\ ticket' = [ticket EXCEPT ![c] = Head(inbox[c]).ticket]
          /\ inbox[c] # <<>>
      BY <2>7 DEF ReadLine
    <3>2. ticket \in [Clients -> 0..MaxSent] BY DEF Typed, TaskTypeOK
    <3>3. ASSUME NEW d \in Clients
          PROVE  /\ ticket'[d] <= sent'
                 /\ \A i \in DOMAIN inbox'[d] :
                       /\ ticket'[d] < inbox'[d][i].ticket /\ inbox'[d][i].ticket <= sent'
                       /\ \A j \in DOMAIN inbox'[d] :
                             i < j => inbox'[d][i].ticket < inbox'[d][j].ticket
      <4>1. CASE d # c BY <2>1, <3>1, <3>2, <4>1
      <4>2. CASE d = c
        <5> DEFINE q == inbox[c] n == Len(inbox[c])
        <5>1. q \in Seq(Lines) /\ n \in Nat \ {0} /\ DOMAIN q = 1..n
          BY <2>1, <3>1, EmptySeq
        <5>2. inbox'[c] = Tail(q) /\ ticket'[c] = q[1].ticket BY <2>1, <3>1, <3>2
        <5>3. DOMAIN Tail(q) = 1..(n - 1) /\ \A i \in 1..(n - 1) : Tail(q)[i] = q[i + 1]
          BY <5>1
        <5>4. \A i \in 1..n : /\ q[i].ticket <= sent
                              /\ \A j \in 1..n : i < j => q[i].ticket < q[j].ticket
          BY <4>2, <5>1
        <5>5. 1 \in 1..n /\ \A i \in 1..(n - 1) : i + 1 \in 1..n /\ 1 < i + 1 BY <5>1
        <5>6. ticket'[c] <= sent' BY <3>1, <5>2, <5>4, <5>5
        <5>7. \A i \in 1..(n - 1) : ticket'[c] < Tail(q)[i].ticket
                                    /\ Tail(q)[i].ticket <= sent'
          BY <3>1, <5>2, <5>3, <5>4, <5>5
        <5>8. \A i, j \in 1..(n - 1) : i < j => i + 1 < j + 1 OBVIOUS
        <5>9. \A i, j \in 1..(n - 1) : i < j => Tail(q)[i].ticket < Tail(q)[j].ticket
          BY <5>3, <5>4, <5>5, <5>8
        <5> QED BY <4>2, <5>2, <5>3, <5>6, <5>7, <5>9
      <4> QED BY <4>1, <4>2
    <3> QED BY <3>3
  <2>8. CASE StateChanged(c) \/ PopupAction(c) \/ AddScope(c) \/ TakeSnapshot(c)
             \/ Unwatch(c) \/ Unscope(c)
    BY <1>1, <2>8 DEF StateChanged, PopupAction, AddScope, TakeSnapshot, Unwatch, Unscope,
       wire
  <2>9. CASE SeeWatching(c) \/ SeeBar(c) \/ SeeFull(c)
    BY <1>1, <2>9 DEF SeeWatching, SeeBar, SeeFull, See, wire
  <2>10. CASE Submit(c) \/ Answered(c) \/ TimeOut(c)
    BY <1>1, <2>10 DEF Submit, Answered, TimeOut, wire
  <2>11. CASE RoutePopup(c) \/ BroadcastPopup(c) \/ SpawnPopup(c)
    BY <1>1, <2>11 DEF RoutePopup, BroadcastPopup, SpawnPopup, wire
  <2> QED BY <1>6, <2>3, <2>4, <2>5, <2>6, <2>7, <2>8, <2>9, <2>10, <2>11 DEF Serve
<1>7. CASE UNCHANGED vars BY <1>1, <1>7 DEF vars, wire
<1> QED BY <1>3, <1>4, <1>5, <1>6, <1>7 DEF Next

LEMMA NextVerdict ==
  ASSUME Typed, Phases, StatesCaught, VerdictIsOnThis, [Next]_vars
  PROVE  VerdictIsOnThis'
<1> USE DEF VerdictIsOnThis
<1>1. CASE AcceptLoop
  <2>1. ASSUME NEW c \in Clients, Accept(c) PROVE VerdictIsOnThis'
    BY <2>1 DEF Accept, Goto, Typed, TaskTypeOK, Greeting
  <2>2. CASE AcceptAgain \/ StopAccepting
    BY <2>2 DEF AcceptAgain, StopAccepting
  <2>3. CASE Exit BY <2>3 DEF Exit
  <2> QED BY <1>1, <2>1, <2>2, <2>3 DEF AcceptLoop
<1>2. CASE Engine
  <2>1. CASE AnswerCommand
    BY <2>1 DEF AnswerCommand, accepting
  <2> QED BY <1>2, <2>1 DEF Engine, TakeAttention, TakeCommand, Publish, accepting
<1>3. ASSUME NEW c \in Clients, Client(c) PROVE VerdictIsOnThis'
  BY <1>3 DEF Client, Connect, HangUp, Send, accepting
<1>4. ASSUME NEW c \in Clients, Serve(c) PROVE VerdictIsOnThis'
  <2> USE DEF Typed, TaskTypeOK, Goto, accepting
  <2>1. ASSUME Forget(c), acceptor' = acceptor,
               \A d \in Clients \ {c} : verdict'[d] = verdict[d]
        PROVE  VerdictIsOnThis'
    BY <2>1 DEF Forget, Idling
  <2>2. acceptor # "exited"
    BY <1>4 DEF StatesCaught, Serve, EndOfStream, ReadFails, ReadLine, StateChanged,
       PopupAction, AddScope, SeeWatching, SeeBar, SeeFull, PostAttention,
       TakeSnapshot, Unwatch, Unscope, Submit, Answered, TimeOut, RoutePopup,
       BroadcastPopup, SpawnPopup, WriteFrame, WriteFails, NotifyShutdown
  <2>3. CASE ReadFails(c) \/ WriteFails(c)
    BY <2>1, <2>3 DEF ReadFails, WriteFails, ReturnEarly
  <2>4. CASE EndOfStream(c) \/ NotifyShutdown(c)
    <3>1. Leave(c) /\ UNCHANGED <<acceptor, verdict>>
      BY <2>4 DEF EndOfStream, NotifyShutdown
    <3>2. CASE Forget(c) BY <2>1, <3>1, <3>2
    <3>3. CASE ~Forget(c)
      <4>1. task' = [task EXCEPT ![c] = "unwatch"] /\ request' = [request EXCEPT ![c] = Leaving]
            /\ ticket' = [ticket EXCEPT ![c] = 0]
        BY <3>1, <3>3 DEF Leave
      <4>2. Leaving.op # "player" BY DEF Leaving
      <4> QED BY <3>1, <4>1, <4>2
    <3> QED BY <3>2, <3>3
  <2>5. CASE ReadLine(c)
    <3> DEFINE r == Head(inbox[c]).request
    <3>1. FirstStep(c, r) # "await" /\ (r.op = "player" => FirstStep(c, r) = "submit")
      BY DEF FirstStep
    <3> QED BY <2>5, <3>1 DEF ReadLine
  <2>6. CASE StateChanged(c) BY <2>2, <2>6 DEF StateChanged, Pushing
  <2>7. CASE PopupAction(c) BY <2>2, <2>7 DEF PopupAction, Forwarding
  <2>8. CASE AddScope(c) \/ TakeSnapshot(c)
    BY <2>2, <2>8 DEF AddScope, TakeSnapshot
  <2>9. CASE SeeWatching(c) \/ SeeBar(c) \/ SeeFull(c)
    BY <2>2, <2>9 DEF SeeWatching, SeeBar, SeeFull, See
  <2>10. CASE PostAttention(c) BY <2>1, <2>2, <2>10 DEF PostAttention
  <2>11. CASE Unwatch(c) \/ Unscope(c) BY <2>2, <2>11 DEF Unwatch, Unscope
  <2>12. CASE Submit(c) BY <2>2, <2>12 DEF Submit
  <2>13. CASE Answered(c) BY <2>2, <2>13 DEF Answered
  <2>14. CASE TimeOut(c) BY <2>2, <2>14 DEF TimeOut
  <2>15. CASE RoutePopup(c) \/ BroadcastPopup(c) \/ SpawnPopup(c)
    BY <2>2, <2>15 DEF RoutePopup, BroadcastPopup, SpawnPopup
  <2>16. CASE WriteFrame(c) BY <2>2, <2>16 DEF WriteFrame, Idling
  <2> QED BY <1>4, <2>3, <2>4, <2>5, <2>6, <2>7, <2>8, <2>9, <2>10, <2>11, <2>12,
             <2>13, <2>14, <2>15, <2>16 DEF Serve
<1>5. CASE UNCHANGED vars BY <1>5 DEF vars, accepting
<1> QED BY <1>1, <1>2, <1>3, <1>4, <1>5 DEF Next

\* An answer is written, or a connection that is over forgets its answers.
LEMMA OnlyWritesAnswer ==
  ASSUME Typed, StatesCaught, [Next]_vars, NEW c \in Clients,
         answered'[c] # answered[c], answered'[c] # 0
  PROVE  WriteFrame(c) /\ acceptor # "exited" /\ ticket[c] # 0
<1>1. answered \in [Clients -> 0..MaxSent] BY DEF Typed, TaskTypeOK
<1>2. ASSUME NEW e \in Clients, Forget(e) PROVE FALSE BY <1>1, <1>2 DEF Forget
<1>3. CASE AcceptLoop
  BY <1>3 DEF AcceptLoop, Accept, AcceptAgain, StopAccepting, Exit
<1>4. CASE Engine
  BY <1>4 DEF Engine, TakeAttention, TakeCommand, AnswerCommand, Publish
<1>5. ASSUME NEW e \in Clients, Client(e) PROVE FALSE
  BY <1>5 DEF Client, Connect, HangUp, Send
<1>6. ASSUME NEW e \in Clients, Serve(e) PROVE WriteFrame(e)
  <2>1. CASE ReadFails(e) \/ WriteFails(e)
    BY <1>2, <2>1 DEF ReadFails, WriteFails, ReturnEarly
  <2>2. CASE EndOfStream(e) \/ NotifyShutdown(e)
    BY <1>2, <2>2 DEF EndOfStream, NotifyShutdown, Leave
  <2>3. CASE PostAttention(e) BY <1>2, <2>3 DEF PostAttention
  <2>4. CASE ReadLine(e) \/ StateChanged(e) \/ PopupAction(e) \/ AddScope(e)
             \/ TakeSnapshot(e) \/ Unwatch(e) \/ Unscope(e)
    BY <2>4 DEF ReadLine, StateChanged, PopupAction, AddScope, TakeSnapshot, Unwatch, Unscope
  <2>5. CASE SeeWatching(e) \/ SeeBar(e) \/ SeeFull(e)
    BY <2>5 DEF SeeWatching, SeeBar, SeeFull, See
  <2>6. CASE Submit(e) \/ Answered(e) \/ TimeOut(e) \/ RoutePopup(e) \/ BroadcastPopup(e)
             \/ SpawnPopup(e)
    BY <2>6 DEF Submit, Answered, TimeOut, RoutePopup, BroadcastPopup, SpawnPopup
  <2> QED BY <1>6, <2>1, <2>2, <2>3, <2>4, <2>5, <2>6 DEF Serve
<1>7. CASE UNCHANGED vars BY <1>7 DEF vars
<1>8. PICK e \in Clients : WriteFrame(e)
  BY <1>3, <1>4, <1>5, <1>6, <1>7 DEF Next
<1>9. e = c /\ ticket[c] # 0 BY <1>1, <1>8 DEF WriteFrame
<1>10. acceptor # "exited" BY <1>8 DEF WriteFrame, StatesCaught
<1> QED BY <1>8, <1>9, <1>10

\* The invariant of the conversation with every connection.
SInv == IInv /\ StatesCaught /\ TicketsQueued /\ VerdictIsOnThis

LEMMA InitSInv == Init => SInv
<1> SUFFICES ASSUME Init PROVE SInv OBVIOUS
<1>1. StatesCaught BY DEF Init, StatesCaught
<1>2. TicketsQueued BY DaemonAssumption DEF Init, TicketsQueued
<1>3. VerdictIsOnThis BY DEF Init, VerdictIsOnThis, Idling
<1> QED BY <1>1, <1>2, <1>3, InitIInv DEF SInv

LEMMA NextSInv == SInv /\ [Next]_vars => SInv'
<1> SUFFICES ASSUME SInv, [Next]_vars PROVE SInv' OBVIOUS
<1>1. Typed /\ Phases BY DEF SInv, IInv
<1> QED BY <1>1, NextIInv, NextCaught, NextTickets, NextVerdict DEF SInv

LEMMA SInvAlways == Spec => []SInv
BY InitSInv, NextSInv, PTL DEF Spec
-----------------------------------------------------------------------------
(* What the engine is told by a daemon with one connection. *)

\* What the engine will believe once it has read its channel: the last
\* attention in it, or the one the engine has.
Latest ==
    {a \in Attentions :
        \/ attention = a /\ \A i \in DOMAIN channel : channel[i].msg # "attention"
        \/ \E i \in DOMAIN channel :
              /\ channel[i].msg = "attention" /\ channel[i].attention = a
              /\ \A j \in DOMAIN channel : i < j => channel[j].msg # "attention"}

Reporting == {"add", "seeWatching", "seeBar", "seeFull", "post", "unwatch", "unscope"}

\* The engine has been told what the counters say, or the task is between
\* changing a counter and telling the engine; what it has looked at on the way
\* is still so.
Reported(c) ==
    /\ task[c] = "seeBar" => watchers["watching"] = 0
    /\ task[c] = "seeFull" => watchers["watching"] = 0 /\ watchers["bar"] = 0
    /\ task[c] = "post" => sight[c] = AttentionOf(watchers)
    /\ \/ acceptor = "exited"
       \/ AttentionOf(watchers) \in Latest
       \/ task[c] \in Reporting

LEMMA TheAttention ==
  ASSUME Typed, CounterLedger
  PROVE  /\ watchers \in [Counters -> Nat]
         /\ AttentionOf(watchers) \in Attentions
         /\ watchers["watching"] > 0 => AttentionOf(watchers) = "Popup"
         /\ watchers["watching"] = 0 /\ watchers["bar"] > 0 => AttentionOf(watchers) = "Bar"
         /\ watchers["watching"] = 0 /\ watchers["full"] > 0 => AttentionOf(watchers) = "Bar"
         /\ watchers["watching"] = 0 /\ watchers["bar"] = 0 /\ watchers["full"] = 0
               => AttentionOf(watchers) = "Idle"
<1>1. ASSUME NEW k \in Counters PROVE watchers[k] \in Nat
  <2>1. Cardinality(Holders(k)) \in Nat /\ lost[k] \in Nat
    BY HoldersFinite DEF Typed, RegistrationTypeOK
  <2> QED BY <2>1 DEF CounterLedger
<1>2. watchers \in [Counters -> Nat] BY <1>1 DEF Typed, RegistrationTypeOK
<1> QED BY <1>2 DEF AttentionOf, Attentions, Counters

\* What the engine will believe is what is sent last.
LEMMA LatestWhenSent ==
  ASSUME channel \in Seq(Messages), NEW m \in Messages,
         channel' = Append(channel, m), attention' = attention
  PROVE  /\ m.msg = "attention" => m.attention \in Latest'
         /\ m.msg # "attention" => Latest \subseteq Latest'
<1> DEFINE n == Len(channel)
<1>1. /\ n \in Nat /\ DOMAIN channel = 1..n /\ DOMAIN channel' = 1..(n + 1)
      /\ \A i \in 1..n : channel'[i] = channel[i]
      /\ channel'[n + 1] = m
  OBVIOUS
<1>2. \A i \in 1..(n + 1) : i \in 1..n \/ i = n + 1 BY <1>1
<1> HIDE DEF n
<1>3. ASSUME m.msg = "attention" PROVE m.attention \in Latest'
  <2>1. m.attention \in Attentions BY <1>3 DEF Messages
  <2>2. n + 1 \in DOMAIN channel' /\ \A j \in DOMAIN channel' : ~(n + 1 < j) BY <1>1
  <2> QED BY <1>1, <1>3, <2>1, <2>2 DEF Latest
<1>4. ASSUME m.msg # "attention", NEW a \in Latest PROVE a \in Latest'
  <2>1. a \in Attentions BY DEF Latest
  <2>2. CASE attention = a /\ \A i \in DOMAIN channel : channel[i].msg # "attention"
    <3>1. \A i \in DOMAIN channel' : channel'[i].msg # "attention"
      BY <1>1, <1>2, <1>4, <2>2
    <3> QED BY <2>1, <2>2, <3>1 DEF Latest
  <2>3. ASSUME NEW i \in DOMAIN channel,
               channel[i].msg = "attention", channel[i].attention = a,
               \A j \in DOMAIN channel : i < j => channel[j].msg # "attention"
        PROVE  a \in Latest'
    <3>1. i \in DOMAIN channel' /\ channel'[i] = channel[i] BY <1>1
    <3>2. \A j \in DOMAIN channel' : i < j => channel'[j].msg # "attention"
      BY <1>1, <1>2, <1>4, <2>3
    <3> QED BY <2>1, <2>3, <3>1, <3>2 DEF Latest
  <2> QED BY <2>2, <2>3 DEF Latest
<1> QED BY <1>3, <1>4

\* Reading the channel does not change what the engine will believe.
LEMMA LatestWhenTaken ==
  ASSUME channel \in Seq(Messages), channel # <<>>, channel' = Tail(channel),
         attention' = IF Head(channel).msg = "attention"
                      THEN Head(channel).attention ELSE attention
  PROVE  Latest \subseteq Latest'
<1> DEFINE n == Len(channel)
<1>1. /\ n \in Nat \ {0} /\ DOMAIN channel = 1..n /\ DOMAIN channel' = 1..(n - 1)
      /\ \A i \in 1..(n - 1) : channel'[i] = channel[i + 1]
      /\ Head(channel) = channel[1]
  BY EmptySeq
<1>2. \A i \in 1..n : i = 1 \/ (i - 1 \in 1..(n - 1) /\ channel[i] = channel'[i - 1])
  BY <1>1
<1>3. \A i \in 1..(n - 1) : i + 1 \in 1..n /\ 1 < i + 1 BY <1>1
<1>4. 1 \in DOMAIN channel BY <1>1
<1> HIDE DEF n
<1> SUFFICES ASSUME NEW a \in Latest PROVE a \in Latest' OBVIOUS
<1>5. a \in Attentions BY DEF Latest
<1>6. CASE attention = a /\ \A i \in DOMAIN channel : channel[i].msg # "attention"
  <2>1. \A i \in DOMAIN channel' : channel'[i].msg # "attention"
    BY <1>1, <1>3, <1>6
  <2>2. attention' = a BY <1>1, <1>4, <1>6
  <2> QED BY <1>5, <2>1, <2>2 DEF Latest
<1>7. ASSUME NEW i \in DOMAIN channel,
             channel[i].msg = "attention", channel[i].attention = a,
             \A j \in DOMAIN channel : i < j => channel[j].msg # "attention"
      PROVE  a \in Latest'
  <2>1. CASE i = 1
    <3>1. attention' = a BY <1>1, <1>7, <2>1
    <3>2. \A j \in DOMAIN channel' : channel'[j].msg # "attention"
      BY <1>1, <1>3, <1>7, <2>1
    <3> QED BY <1>5, <3>1, <3>2 DEF Latest
  <2>2. CASE i # 1
    <3>1. i - 1 \in DOMAIN channel' /\ channel'[i - 1] = channel[i] BY <1>1, <1>2, <2>2
    <3>2. ASSUME NEW j \in DOMAIN channel', i - 1 < j PROVE channel'[j].msg # "attention"
      <4>1. j + 1 \in DOMAIN channel /\ channel'[j] = channel[j + 1] BY <1>1, <1>3
      <4>2. i < j + 1 BY <1>1, <3>2
      <4> QED BY <1>7, <4>1, <4>2
    <3> QED BY <1>5, <1>7, <3>1, <3>2 DEF Latest
  <2> QED BY <2>1, <2>2
<1> QED BY <1>6, <1>7 DEF Latest

LEMMA NextReported ==
  ASSUME NEW c \in Clients, Clients = {c},
         Typed, Phases, CounterLedger, StatesCaught, Reported(c), [Next]_vars
  PROVE  Reported(c)'
<1> USE DEF Reported, Reporting
<1>1. ASSUME UNCHANGED <<acceptor, task, watchers, sight, channel, attention>>
      PROVE  Reported(c)'
  BY <1>1 DEF Latest, AttentionOf
\* The task is not where it has something to report, and was not.
<1>2. ASSUME UNCHANGED <<watchers, channel, attention>>, acceptor' = acceptor,
             task[c] \notin Reporting,
             task'[c] \notin {"seeBar", "seeFull", "post"}
      PROVE  Reported(c)'
  BY <1>2 DEF Latest, AttentionOf
\* The task is about to report.
<1>3. ASSUME task'[c] \in {"add", "seeWatching", "unwatch", "unscope"}
      PROVE  Reported(c)'
  BY <1>3
<1>4. channel \in Seq(Messages) /\ task \in [Clients -> TaskStates]
      /\ sight \in [Clients -> Attentions]
  BY DEF Typed, EngineTypeOK, TaskTypeOK
<1>5. CASE AcceptLoop
  <2>1. ASSUME NEW d \in Clients, Accept(d) PROVE Reported(c)'
    <3>1. d = c OBVIOUS
    <3>2. task[c] = "none" /\ task'[c] = "write" BY <1>4, <2>1, <3>1 DEF Accept, Goto
    <3>3. UNCHANGED <<watchers, channel, attention>> /\ acceptor = "select"
      BY <2>1 DEF Accept, engine
    <3> QED BY <3>2, <3>3 DEF Latest, AttentionOf
  <2>2. CASE AcceptAgain \/ StopAccepting
    <3>1. UNCHANGED <<task, watchers, sight, channel, attention>> /\ acceptor # "exited"
      BY <2>2 DEF AcceptAgain, StopAccepting, engine
    <3> QED BY <3>1 DEF Latest, AttentionOf
  <2>3. CASE Exit BY <2>3 DEF Exit
  <2> QED BY <1>5, <2>1, <2>2, <2>3 DEF AcceptLoop
<1>6. CASE Engine
  <2>1. CASE TakeAttention \/ TakeCommand
    <3>1. channel # <<>> /\ channel' = Tail(channel)
          /\ UNCHANGED <<acceptor, task, watchers, sight>>
      BY <2>1 DEF TakeAttention, TakeCommand, accepting
    <3>2. attention' = IF Head(channel).msg = "attention"
                       THEN Head(channel).attention ELSE attention
      BY <2>1 DEF TakeAttention, TakeCommand
    <3>3. Latest \subseteq Latest' BY <1>4, <3>1, <3>2, LatestWhenTaken
    <3> QED BY <3>1, <3>3 DEF AttentionOf
  <2>2. CASE AnswerCommand \/ Publish
    BY <1>1, <2>2 DEF AnswerCommand, Publish, engine, accepting
  <2> QED BY <1>6, <2>1, <2>2 DEF Engine
<1>7. ASSUME NEW d \in Clients, Client(d) PROVE Reported(c)'
  BY <1>1, <1>7 DEF Client, Connect, HangUp, Send, engine, accepting
<1>8. ASSUME NEW d \in Clients, Serve(d) PROVE Reported(c)'
  <2> USE DEF Goto, accepting, engine
  <2>1. Serve(c) BY <1>8
  <2>2. ASSUME Forget(c), UNCHANGED <<watchers, channel, attention, acceptor>>,
               task[c] \notin Reporting
        PROVE  Reported(c)'
    BY <1>2, <1>4, <2>2 DEF Forget
  <2>3. CASE ReadFails(c) \/ WriteFails(c)
    BY <2>2, <2>3 DEF ReadFails, WriteFails, ReturnEarly
  <2>4. CASE EndOfStream(c) \/ NotifyShutdown(c)
    <3>1. Leave(c) /\ UNCHANGED <<watchers, channel, attention, acceptor>>
          /\ task[c] \notin Reporting
      BY <2>4 DEF EndOfStream, NotifyShutdown
    <3>2. CASE Forget(c) BY <2>2, <3>1, <3>2
    <3>3. CASE ~Forget(c)
      <4>1. task'[c] = "unwatch" BY <1>4, <3>1, <3>3 DEF Leave
      <4> QED BY <1>3, <4>1
    <3> QED BY <3>2, <3>3
  <2>5. CASE ReadLine(c)
    <3> DEFINE r == Head(inbox[c]).request
    <3>1. task[c] = "loop" /\ task'[c] = FirstStep(c, r)
          /\ UNCHANGED <<acceptor, channel, attention>>
          /\ watchers' = CountersOnRead(c, r)
      BY <1>4, <2>5 DEF ReadLine
    <3>2. CASE FirstStep(c, r) \in {"add", "seeWatching"} BY <1>3, <3>1, <3>2
    <3>3. CASE FirstStep(c, r) \notin {"add", "seeWatching"}
      <4>1. FirstStep(c, r) \notin {"seeBar", "seeFull", "post"} BY DEF FirstStep
      <4>2. r.op = "subscribe" => scope[c] = r.scope BY <3>3 DEF FirstStep
      <4>3. r.op = "watching" => watching[c] = r.active BY <3>3 DEF FirstStep
      <4>4. watchers' = watchers
        BY <3>1, <4>2, <4>3 DEF CountersOnRead, Typed, RegistrationTypeOK, Counters
      <4> QED BY <1>2, <3>1, <4>1, <4>4
    <3> QED BY <3>2, <3>3
  <2>6. CASE StateChanged(c) \/ PopupAction(c)
    <3>1. UNCHANGED <<watchers, channel, attention, acceptor>> /\ task[c] = "loop"
          /\ task'[c] \in {"loop", "write"}
      BY <1>4, <2>6 DEF StateChanged, PopupAction
    <3> QED BY <1>2, <3>1
  <2>7. CASE AddScope(c) BY <1>3, <1>4, <2>7 DEF AddScope
  <2>8. CASE SeeWatching(c)
    <3>1. /\ UNCHANGED <<watchers, channel, attention, acceptor>>
          /\ IF watchers["watching"] > 0
             THEN task'[c] = "post" /\ sight'[c] = "Popup"
             ELSE task'[c] = "seeBar"
      BY <1>4, <2>8 DEF SeeWatching, See
    <3>2. watchers["watching"] \in Nat BY TheAttention DEF Counters
    <3> QED BY <3>1, <3>2, TheAttention DEF AttentionOf
  <2>9. CASE SeeBar(c)
    <3>1. /\ UNCHANGED <<watchers, channel, attention, acceptor>>
          /\ watchers["watching"] = 0
          /\ IF watchers["bar"] > 0
             THEN task'[c] = "post" /\ sight'[c] = "Bar"
             ELSE task'[c] = "seeFull"
      BY <1>4, <2>9 DEF SeeBar, See
    <3>2. watchers["bar"] \in Nat BY TheAttention DEF Counters
    <3> QED BY <3>1, <3>2, TheAttention DEF AttentionOf
  <2>10. CASE SeeFull(c)
    <3>1. /\ UNCHANGED <<watchers, channel, attention, acceptor>>
          /\ watchers["watching"] = 0 /\ watchers["bar"] = 0
          /\ task'[c] = "post"
          /\ sight'[c] = IF watchers["full"] > 0 THEN "Bar" ELSE "Idle"
      BY <1>4, <2>10 DEF SeeFull, See
    <3>2. watchers["full"] \in Nat BY TheAttention DEF Counters
    <3> QED BY <3>1, <3>2, TheAttention DEF AttentionOf
  <2>11. CASE PostAttention(c)
    <3>1. [msg |-> "attention", attention |-> sight[c]] \in Messages
      BY <1>4 DEF Messages
    <3>2. channel' = Append(channel, [msg |-> "attention", attention |-> sight[c]])
          /\ UNCHANGED <<attention, acceptor, watchers>>
          /\ sight[c] = AttentionOf(watchers)
      BY <2>11 DEF PostAttention
    <3>3. sight[c] \in Latest' BY <1>4, <3>1, <3>2, LatestWhenSent
    <3>4. task'[c] \in {"none", "snapshot", "write"}
      BY <1>4, <2>11 DEF PostAttention, Forget
    <3> QED BY <3>2, <3>3, <3>4 DEF AttentionOf
  <2>12. CASE TakeSnapshot(c) \/ WriteFrame(c)
    <3>1. UNCHANGED <<watchers, channel, attention, acceptor>>
          /\ task[c] \in {"snapshot", "write"} /\ task'[c] \in {"write", "notify", "loop"}
      BY <1>4, <2>12 DEF TakeSnapshot, WriteFrame
    <3> QED BY <1>2, <3>1
  <2>13. CASE Unwatch(c) BY <1>3, <1>4, <2>13 DEF Unwatch
  <2>14. CASE Unscope(c) BY <1>3, <1>4, <2>14 DEF Unscope
  <2>15. CASE Submit(c)
    <3>1. [msg |-> "command", client |-> c, ticket |-> ticket[c]] \in Messages
      BY <2>15, DaemonAssumption DEF Submit, Messages, Typed, TaskTypeOK, Phases
    <3>2. channel' = Append(channel, [msg |-> "command", client |-> c, ticket |-> ticket[c]])
          /\ UNCHANGED <<attention, acceptor, watchers>>
          /\ task[c] = "submit" /\ task'[c] = "await"
      BY <1>4, <2>15 DEF Submit
    <3>3. Latest \subseteq Latest' BY <1>4, <3>1, <3>2, LatestWhenSent
    <3> QED BY <3>2, <3>3 DEF AttentionOf
  <2>16. CASE Answered(c) \/ TimeOut(c) \/ RoutePopup(c) \/ BroadcastPopup(c) \/ SpawnPopup(c)
    <3>1. UNCHANGED <<watchers, channel, attention, acceptor>>
          /\ task[c] \in {"await", "route", "broadcast", "spawn"}
          /\ task'[c] \in {"write", "broadcast", "spawn"}
      BY <1>4, <2>16 DEF Answered, TimeOut, RoutePopup, BroadcastPopup, SpawnPopup
    <3> QED BY <1>2, <3>1
  <2> QED BY <2>1, <2>3, <2>4, <2>5, <2>6, <2>7, <2>8, <2>9, <2>10, <2>11, <2>12,
             <2>13, <2>14, <2>15, <2>16 DEF Serve
<1>9. CASE UNCHANGED vars BY <1>1, <1>9 DEF vars, accepting, engine
<1> QED BY <1>5, <1>6, <1>7, <1>8, <1>9 DEF Next

\* A subscribed client that waits for something to happen has been written
\* the last state its receiver has marked seen: serve_client never marks a
\* change seen without sending it on.
THEOREM NoStateSwallowedAlways == Spec => []NoStateSwallowed
<1>1. SInv => NoStateSwallowed
  BY DEF SInv, StatesCaught, NoStateSwallowed
<1> QED BY <1>1, SInvAlways, PTL

\* Every frame that answers a request answers the oldest unanswered one,
\* though the engine answers late, answers a request its task has given up on,
\* or never answers.
THEOREM AnswersInOrderAlways == Spec => AnswersInOrder
<1>1. ASSUME SInv, [Next]_vars
      PROVE  [\A c \in Clients :
                 answered'[c] # answered[c] /\ answered'[c] # 0
                     => /\ answered'[c] \in Outstanding(c)
                        /\ \A t \in Outstanding(c) : answered'[c] <= t]_vars
  <2> SUFFICES ASSUME NEW c \in Clients, answered'[c] # answered[c], answered'[c] # 0
               PROVE  /\ answered'[c] \in Outstanding(c)
                      /\ \A t \in Outstanding(c) : answered'[c] <= t
    OBVIOUS
  <2>1. Typed /\ StatesCaught /\ TicketsQueued /\ VerdictIsOnThis BY <1>1 DEF SInv, IInv
  <2>2. WriteFrame(c) /\ acceptor # "exited" /\ ticket[c] # 0
    BY <1>1, <2>1, OnlyWritesAnswer
  <2>3. answered'[c] = AnswerTicket(c)
    BY <2>1, <2>2 DEF WriteFrame, Typed, TaskTypeOK
  <2>4. AnswerTicket(c) = ticket[c]
    BY <2>1, <2>2 DEF AnswerTicket, VerdictIsOnThis, WriteFrame
  <2>5. ticket[c] \in Nat /\ \A i \in DOMAIN inbox[c] : inbox[c][i].ticket \in Nat
    BY <2>1, QueuedTickets, DaemonAssumption DEF Typed, TaskTypeOK, WireTypeOK
  <2>6. \A i \in DOMAIN inbox[c] : ticket[c] < inbox[c][i].ticket
    BY <2>1 DEF TicketsQueued
  <2> QED BY <2>2, <2>3, <2>4, <2>5, <2>6 DEF Outstanding
<1> QED BY <1>1, SInvAlways, PTL DEF Spec, AnswersInOrder

\* With one connection, whatever it asks for and however it ends, the engine
\* polls as hard as the counters say as soon as everything is reported.  With
\* two, a report computed before another connection's change can overtake the
\* report of that change: see daemon_reordered.
THEOREM OneConnectionSettles ==
  ASSUME NEW c \in Clients, Clients = {c}
  PROVE  Spec => []AttentionSettles
<1>1. Init => SInv /\ Reported(c)
  <2> SUFFICES ASSUME Init PROVE Reported(c) BY InitSInv
  <2>1. AttentionOf(watchers) = "Idle" BY DEF Init, AttentionOf, Counters
  <2>2. "Idle" \in Latest BY DEF Init, Latest, Attentions
  <2>3. task[c] = "none" BY DEF Init
  <2> QED BY <2>1, <2>2, <2>3 DEF Reported
<1>2. (SInv /\ Reported(c)) /\ [Next]_vars => (SInv /\ Reported(c))'
  <2> SUFFICES ASSUME SInv, Reported(c), [Next]_vars PROVE SInv' /\ Reported(c)'
    OBVIOUS
  <2>1. Typed /\ Phases /\ CounterLedger /\ StatesCaught BY DEF SInv, IInv
  <2> QED BY <2>1, NextSInv, NextReported
<1>3. SInv /\ Reported(c) => AttentionSettles
  <2> SUFFICES ASSUME Reported(c), Settled PROVE attention = AttentionOf(watchers)
    BY DEF AttentionSettles
  <2>1. AttentionOf(watchers) \in Latest BY DEF Settled, Reported, Reporting
  <2>2. DOMAIN channel = {} BY DEF Settled
  <2> QED BY <2>1, <2>2 DEF Latest
<1> QED BY <1>1, <1>2, <1>3, PTL DEF Spec
=============================================================================
