---------------------------- MODULE ServerProofs ----------------------------
(***************************************************************************)
(* Proofs about Server, for every finite set of connections, every mode,   *)
(* every kind of request and every number of requests: its types, that the *)
(* WaitGroup and the gauge are exact, that Run returns only when every     *)
(* connection is closed, that no request is dropped silently, and that     *)
(* clients get their grace period.                                         *)
(***************************************************************************)
EXTENDS Server, TLAPS, FiniteSetTheorems, SequenceTheorems

\* A client that has not dialled has no connection.
Undialled == \A c \in Conns : peer[c] = "none" => cpc[c] = "none"

\* How many requests of a connection are not answered, by where it is.
Unanswered ==
  \A c \in Conns :
    /\ cpc[c] \in {"none", "backlog", "start", "read"} => answered[c] = read[c]
    /\ cpc[c] \in {"route", "proxy", "write"} => read[c] = answered[c] + 1
    /\ read[c] <= answered[c] + 1

\* What can end the context of a running connection: the grace period that began
\* when the listener was stopped.
Grace ==
  \A c \in Conns :
    /\ cpc[c] \in {"none", "backlog", "start"} => delay[c] = "none"
    /\ delay[c] = "timer" => ctxDone
    /\ cpc[c] # "gone" /\ (runCtx[c] \/ deadline[c])
         => ctxDone /\ delay[c] = "gone"

\* The request that route looks at is one that was read.
Routing == \A c \in Conns : cpc[c] = "route" => res[c] \in Requests

ServerInv ==
  /\ TypeOK /\ CountsExact /\ ReturnedClosed
  /\ Undialled /\ Routing /\ Unanswered /\ Grace

-----------------------------------------------------------------------------
(* Requests and responses, and the grace period.                           *)

\* Every step keeps how many requests are not answered, ...
LEMMA UnansweredStep ==
  ASSUME TypeOK, Undialled, Unanswered, [Next]_vars
  PROVE  Unanswered'
<1>1. ASSUME NEW c \in Conns, Dial(c) PROVE Unanswered'
  BY Zenon, <1>1 DEF Dial, listenerVars, timerVars, countVars, TypeOK, Undialled, Unanswered
<1>2. ASSUME NEW c \in Conns, NEW k \in Sent, Send(c, k) PROVE Unanswered'
  BY Zenon, <1>2 DEF Send, listenerVars, timerVars, countVars, TypeOK, Unanswered
<1>3. ASSUME NEW c \in Conns, Disconnect(c) PROVE Unanswered'
  BY Zenon, <1>3 DEF Disconnect, listenerVars, timerVars, countVars, TypeOK, Unanswered
<1>4. ASSUME NEW c \in Conns, Accept(c) PROVE Unanswered'
  BY Zenon, <1>4 DEF Accept, listenerVars, peerVars, timerVars, countVars, TypeOK, Unanswered
<1>5. ASSUME NEW c \in Conns, DelayWait(c) PROVE Unanswered'
  BY Zenon, <1>5 DEF DelayWait, listenerVars, peerVars, countVars, TypeOK, Unanswered
<1>6. ASSUME NEW c \in Conns, DelayTimer(c) PROVE Unanswered'
  BY Zenon, <1>6 DEF DelayTimer, listenerVars, peerVars, countVars, TypeOK, Unanswered
<1>7. ASSUME NEW c \in Conns, Watch(c) PROVE Unanswered'
  BY Zenon, <1>7 DEF Watch, listenerVars, peerVars, countVars, TypeOK, Unanswered
<1>8. ASSUME NEW c \in Conns, Start(c) PROVE Unanswered'
  BY SMTT(60), <1>8 DEF Start, listenerVars, peerVars, countVars, TypeOK, Unanswered
<1>9. ASSUME NEW c \in Conns, ReadMessage(c) PROVE Unanswered'
  BY SMTT(60), <1>9 DEF ReadMessage, listenerVars, timerVars, TypeOK, Unanswered
<1>10. ASSUME NEW c \in Conns, Route(c) PROVE Unanswered'
  BY SMTT(60), <1>10 DEF Route, listenerVars, peerVars, timerVars, countVars, TypeOK, Unanswered
<1>11. ASSUME NEW c \in Conns, Proxy(c) PROVE Unanswered'
  BY SMTT(60), <1>11 DEF Proxy, listenerVars, peerVars, timerVars, countVars, TypeOK, Unanswered
<1>12. ASSUME NEW c \in Conns, WriteMessage(c) PROVE Unanswered'
  BY SMTT(60), <1>12 DEF WriteMessage, listenerVars, peerVars, timerVars, TypeOK, Unanswered
<1>13. ASSUME NEW c \in Conns, EndRun(c) PROVE Unanswered'
  BY Zenon, <1>13 DEF EndRun, listenerVars, peerVars, timerVars, countVars, TypeOK, Unanswered
<1>14. ASSUME NEW c \in Conns, CloseConn(c) PROVE Unanswered'
  BY SMTT(60), <1>14 DEF CloseConn, listenerVars, peerVars, timerVars, countVars, TypeOK, Unanswered
<1>15. ASSUME NEW c \in Conns, RunCancel(c) PROVE Unanswered'
  BY Zenon, <1>15 DEF RunCancel, listenerVars, peerVars, countVars, TypeOK, Unanswered
<1>16. CASE Cancel
  BY Zenon, <1>16 DEF Cancel, peerVars, timerVars, countVars, TypeOK, Unanswered
<1>17. CASE CloseListener
  BY SMTT(60), <1>17 DEF CloseListener, peerVars, timerVars, countVars, TypeOK, Unanswered
<1>18. CASE AcceptError
  BY SMTT(60), <1>18 DEF AcceptError, peerVars, timerVars, countVars, TypeOK, Unanswered
<1>19. CASE Return
  BY SMTT(60), <1>19 DEF Return, peerVars, timerVars, countVars, TypeOK, Unanswered
<1>20. CASE UNCHANGED vars
  BY SMTT(60), <1>20 DEF vars, listenerVars, peerVars, timerVars, countVars, TypeOK, Unanswered
<1> QED
  BY SMTT(60), <1>1, <1>2, <1>3, <1>4, <1>5, <1>6, <1>7, <1>8, <1>9, <1>10, <1>11, <1>12, <1>13,
     <1>14, <1>15, <1>16, <1>17, <1>18, <1>19, <1>20 DEF Next, ListenerStep, Client, ConnStep,
     Helpers, Terminated

\* ... what can end the context of a running connection, ...
LEMMA GraceStep ==
  ASSUME TypeOK, Undialled, Grace, [Next]_vars
  PROVE  Grace'
<1>1. ASSUME NEW c \in Conns, Dial(c) PROVE Grace'
  BY Zenon, <1>1 DEF Dial, listenerVars, timerVars, countVars, TypeOK, Undialled, Grace
<1>2. ASSUME NEW c \in Conns, NEW k \in Sent, Send(c, k) PROVE Grace'
  BY Zenon, <1>2 DEF Send, listenerVars, timerVars, countVars, TypeOK, Grace
<1>3. ASSUME NEW c \in Conns, Disconnect(c) PROVE Grace'
  BY Zenon, <1>3 DEF Disconnect, listenerVars, timerVars, countVars, TypeOK, Grace
<1>4. ASSUME NEW c \in Conns, Accept(c) PROVE Grace'
  BY Zenon, <1>4 DEF Accept, listenerVars, peerVars, timerVars, countVars, TypeOK, Grace
<1>5. ASSUME NEW c \in Conns, DelayWait(c) PROVE Grace'
  BY SMTT(60), <1>5 DEF DelayWait, listenerVars, peerVars, countVars, TypeOK, Grace
<1>6. ASSUME NEW c \in Conns, DelayTimer(c) PROVE Grace'
  BY SMTT(60), <1>6 DEF DelayTimer, listenerVars, peerVars, countVars, TypeOK, Grace
<1>7. ASSUME NEW c \in Conns, Watch(c) PROVE Grace'
  BY ZenonT(60), <1>7 DEF Watch, listenerVars, peerVars, countVars, TypeOK, Grace
<1>8. ASSUME NEW c \in Conns, Start(c) PROVE Grace'
  BY <1>8 DEF Start, listenerVars, peerVars, countVars, TypeOK, Grace
<1>9. ASSUME NEW c \in Conns, ReadMessage(c) PROVE Grace'
  BY <1>9 DEF ReadMessage, listenerVars, timerVars, TypeOK, Grace
<1>10. ASSUME NEW c \in Conns, Route(c) PROVE Grace'
  BY <1>10 DEF Route, listenerVars, peerVars, timerVars, countVars, TypeOK, Grace
<1>11. ASSUME NEW c \in Conns, Proxy(c) PROVE Grace'
  BY <1>11 DEF Proxy, listenerVars, peerVars, timerVars, countVars, TypeOK, Grace
<1>12. ASSUME NEW c \in Conns, WriteMessage(c) PROVE Grace'
  BY <1>12 DEF WriteMessage, listenerVars, peerVars, timerVars, TypeOK, Grace
<1>13. ASSUME NEW c \in Conns, EndRun(c) PROVE Grace'
  BY SMTT(60), <1>13 DEF EndRun, listenerVars, peerVars, timerVars, countVars, TypeOK, Grace
<1>14. ASSUME NEW c \in Conns, CloseConn(c) PROVE Grace'
  BY Zenon, <1>14 DEF CloseConn, listenerVars, peerVars, timerVars, countVars, TypeOK, Grace
<1>15. ASSUME NEW c \in Conns, RunCancel(c) PROVE Grace'
  BY SMTT(60), <1>15 DEF RunCancel, listenerVars, peerVars, countVars, TypeOK, Grace
<1>16. CASE Cancel
  BY Zenon, <1>16 DEF Cancel, peerVars, timerVars, countVars, TypeOK, Grace
<1>17. CASE CloseListener
  BY Zenon, <1>17 DEF CloseListener, peerVars, timerVars, countVars, TypeOK, Grace
<1>18. CASE AcceptError
  BY Zenon, <1>18 DEF AcceptError, peerVars, timerVars, countVars, TypeOK, Grace
<1>19. CASE Return
  BY SMTT(60), <1>19 DEF Return, peerVars, timerVars, countVars, TypeOK, Grace
<1>20. CASE UNCHANGED vars
  BY Zenon, <1>20 DEF vars, listenerVars, peerVars, timerVars, countVars, TypeOK, Grace
<1> QED
  BY Zenon, <1>1, <1>2, <1>3, <1>4, <1>5, <1>6, <1>7, <1>8, <1>9, <1>10, <1>11, <1>12, <1>13,
     <1>14, <1>15, <1>16, <1>17, <1>18, <1>19, <1>20 DEF Next, ListenerStep, Client, ConnStep,
     Helpers, Terminated

\* ... and that a client that has not dialled has no connection.
LEMMA UndialledStep ==
  ASSUME TypeOK, Undialled, [Next]_vars
  PROVE  Undialled'
<1>1. ASSUME NEW c \in Conns, Dial(c) PROVE Undialled'
  BY SMTT(60), <1>1 DEF Dial, listenerVars, timerVars, countVars, TypeOK, Undialled
<1>2. ASSUME NEW c \in Conns, NEW k \in Sent, Send(c, k) PROVE Undialled'
  BY SMTT(60), <1>2 DEF Send, listenerVars, timerVars, countVars, TypeOK, Undialled
<1>3. ASSUME NEW c \in Conns, Disconnect(c) PROVE Undialled'
  BY Zenon, <1>3 DEF Disconnect, listenerVars, timerVars, countVars, TypeOK, Undialled
<1>4. ASSUME NEW c \in Conns, Accept(c) PROVE Undialled'
  BY SMTT(60), <1>4 DEF Accept, listenerVars, peerVars, timerVars, countVars, TypeOK, Undialled
<1>5. ASSUME NEW c \in Conns, DelayWait(c) PROVE Undialled'
  BY Zenon, <1>5 DEF DelayWait, listenerVars, peerVars, countVars, TypeOK, Undialled
<1>6. ASSUME NEW c \in Conns, DelayTimer(c) PROVE Undialled'
  BY SMTT(60), <1>6 DEF DelayTimer, listenerVars, peerVars, countVars, TypeOK, Undialled
<1>7. ASSUME NEW c \in Conns, Watch(c) PROVE Undialled'
  BY Zenon, <1>7 DEF Watch, listenerVars, peerVars, countVars, TypeOK, Undialled
<1>8. ASSUME NEW c \in Conns, Start(c) PROVE Undialled'
  BY Zenon, <1>8 DEF Start, listenerVars, peerVars, countVars, TypeOK, Undialled
<1>9. ASSUME NEW c \in Conns, ReadMessage(c) PROVE Undialled'
  BY Zenon, <1>9 DEF ReadMessage, listenerVars, timerVars, TypeOK, Undialled
<1>10. ASSUME NEW c \in Conns, Route(c) PROVE Undialled'
  BY Zenon, <1>10 DEF Route, listenerVars, peerVars, timerVars, countVars, TypeOK, Undialled
<1>11. ASSUME NEW c \in Conns, Proxy(c) PROVE Undialled'
  BY SMTT(60), <1>11 DEF Proxy, listenerVars, peerVars, timerVars, countVars, TypeOK, Undialled
<1>12. ASSUME NEW c \in Conns, WriteMessage(c) PROVE Undialled'
  BY SMTT(60), <1>12 DEF WriteMessage, listenerVars, peerVars, timerVars, TypeOK, Undialled
<1>13. ASSUME NEW c \in Conns, EndRun(c) PROVE Undialled'
  BY Zenon, <1>13 DEF EndRun, listenerVars, peerVars, timerVars, countVars, TypeOK, Undialled
<1>14. ASSUME NEW c \in Conns, CloseConn(c) PROVE Undialled'
  BY Zenon, <1>14 DEF CloseConn, listenerVars, peerVars, timerVars, countVars, TypeOK, Undialled
<1>15. ASSUME NEW c \in Conns, RunCancel(c) PROVE Undialled'
  BY Zenon, <1>15 DEF RunCancel, listenerVars, peerVars, countVars, TypeOK, Undialled
<1>16. CASE Cancel
  BY Zenon, <1>16 DEF Cancel, peerVars, timerVars, countVars, TypeOK, Undialled
<1>17. CASE CloseListener
  BY SMTT(60), <1>17 DEF CloseListener, peerVars, timerVars, countVars, TypeOK, Undialled
<1>18. CASE AcceptError
  BY SMTT(60), <1>18 DEF AcceptError, peerVars, timerVars, countVars, TypeOK, Undialled
<1>19. CASE Return
  BY SMTT(60), <1>19 DEF Return, peerVars, timerVars, countVars, TypeOK, Undialled
<1>20. CASE UNCHANGED vars
  BY Zenon, <1>20 DEF vars, listenerVars, peerVars, timerVars, countVars, TypeOK, Undialled
<1> QED
  BY SMTT(60), <1>1, <1>2, <1>3, <1>4, <1>5, <1>6, <1>7, <1>8, <1>9, <1>10, <1>11, <1>12, <1>13,
     <1>14, <1>15, <1>16, <1>17, <1>18, <1>19, <1>20 DEF Next, ListenerStep, Client, ConnStep,
     Helpers, Terminated

\* TypeOK without the two counters, in three parts.
Flags ==
  /\ ctxDone \in BOOLEAN /\ lnClosed \in BOOLEAN
  /\ runCtx \in [Conns -> BOOLEAN]
  /\ deadline \in [Conns -> BOOLEAN]

Places ==
  /\ lpc \in {"accept", "wait", "returned"}
  /\ peer \in [Conns -> {"none", "open", "closed"}]
  /\ cpc \in [Conns -> ConnLabels]
  /\ delay \in [Conns -> {"none", "wait", "timer", "gone"}]
  /\ watch \in [Conns -> {"none", "wait", "gone"}]

Traffic ==
  /\ inbox \in [Conns -> Seq(Requests)]
  /\ res \in [Conns -> Results]
  /\ read \in [Conns -> Nat]
  /\ answered \in [Conns -> Nat]

\* The type invariant in its parts, ...
LEMMA TypeParts == TypeOK <=> wg \in Nat /\ clients \in Nat /\ Flags /\ Places /\ Traffic
BY ZenonT(60) DEF TypeOK, Flags, Places, Traffic

\* ... each of which every step keeps: the flags of the listener, ...
LEMMA FlagsStep ==
  ASSUME Flags, [Next]_vars
  PROVE  Flags'
<1>1. ASSUME NEW c \in Conns, Dial(c) PROVE Flags'
  BY Zenon, <1>1 DEF Dial, listenerVars, timerVars, countVars, Flags
<1>2. ASSUME NEW c \in Conns, NEW k \in Sent, Send(c, k) PROVE Flags'
  BY Zenon, <1>2 DEF Send, listenerVars, timerVars, countVars, Flags
<1>3. ASSUME NEW c \in Conns, Disconnect(c) PROVE Flags'
  BY Zenon, <1>3 DEF Disconnect, listenerVars, timerVars, countVars, Flags
<1>4. ASSUME NEW c \in Conns, Accept(c) PROVE Flags'
  BY Zenon, <1>4 DEF Accept, listenerVars, peerVars, timerVars, countVars, Flags
<1>5. ASSUME NEW c \in Conns, DelayWait(c) PROVE Flags'
  BY Zenon, <1>5 DEF DelayWait, listenerVars, peerVars, countVars, Flags
<1>6. ASSUME NEW c \in Conns, DelayTimer(c) PROVE Flags'
  BY Zenon, <1>6 DEF DelayTimer, listenerVars, peerVars, countVars, Flags
<1>7. ASSUME NEW c \in Conns, Watch(c) PROVE Flags'
  BY ZenonT(60), <1>7 DEF Watch, listenerVars, peerVars, countVars, Flags
<1>8. ASSUME NEW c \in Conns, Start(c) PROVE Flags'
  BY Zenon, <1>8 DEF Start, listenerVars, peerVars, countVars, Flags
<1>9. ASSUME NEW c \in Conns, ReadMessage(c) PROVE Flags'
  BY Zenon, <1>9 DEF ReadMessage, listenerVars, timerVars, Flags
<1>10. ASSUME NEW c \in Conns, Route(c) PROVE Flags'
  BY Zenon, <1>10 DEF Route, listenerVars, peerVars, timerVars, countVars, Flags
<1>11. ASSUME NEW c \in Conns, Proxy(c) PROVE Flags'
  BY Zenon, <1>11 DEF Proxy, listenerVars, peerVars, timerVars, countVars, Flags
<1>12. ASSUME NEW c \in Conns, WriteMessage(c) PROVE Flags'
  BY Zenon, <1>12 DEF WriteMessage, listenerVars, peerVars, timerVars, Flags
<1>13. ASSUME NEW c \in Conns, EndRun(c) PROVE Flags'
  BY Zenon, <1>13 DEF EndRun, listenerVars, peerVars, timerVars, countVars, Flags
<1>14. ASSUME NEW c \in Conns, CloseConn(c) PROVE Flags'
  BY Zenon, <1>14 DEF CloseConn, listenerVars, peerVars, timerVars, countVars, Flags
<1>15. ASSUME NEW c \in Conns, RunCancel(c) PROVE Flags'
  BY Zenon, <1>15 DEF RunCancel, listenerVars, peerVars, countVars, Flags
<1>16. CASE Cancel
  BY SMTT(60), <1>16 DEF Cancel, peerVars, timerVars, countVars, Flags
<1>17. CASE CloseListener
  BY SMTT(60), <1>17 DEF CloseListener, peerVars, timerVars, countVars, Flags
<1>18. CASE AcceptError
  BY Zenon, <1>18 DEF AcceptError, peerVars, timerVars, countVars, Flags
<1>19. CASE Return
  BY Zenon, <1>19 DEF Return, peerVars, timerVars, countVars, Flags
<1>20. CASE UNCHANGED vars
  BY SMTT(60), <1>20 DEF vars, listenerVars, peerVars, timerVars, countVars, Flags
<1> QED
  BY SMTT(60), <1>1, <1>2, <1>3, <1>4, <1>5, <1>6, <1>7, <1>8, <1>9, <1>10, <1>11, <1>12, <1>13,
     <1>14, <1>15, <1>16, <1>17, <1>18, <1>19, <1>20 DEF Next, ListenerStep, Client, ConnStep,
     Helpers, Terminated

\* ... the places of the goroutines, ...
LEMMA PlacesStep ==
  ASSUME Places, [Next]_vars
  PROVE  Places'
<1>1. ASSUME NEW c \in Conns, Dial(c) PROVE Places'
  BY Zenon, <1>1 DEF Dial, listenerVars, timerVars, countVars, Places, ConnLabels
<1>2. ASSUME NEW c \in Conns, NEW k \in Sent, Send(c, k) PROVE Places'
  BY SMTT(60), <1>2 DEF Send, listenerVars, timerVars, countVars, Places, ConnLabels
<1>3. ASSUME NEW c \in Conns, Disconnect(c) PROVE Places'
  BY SMTT(60), <1>3 DEF Disconnect, listenerVars, timerVars, countVars, Places, ConnLabels
<1>4. ASSUME NEW c \in Conns, Accept(c) PROVE Places'
  BY SMTT(60), <1>4 DEF Accept, listenerVars, peerVars, timerVars, countVars, Places, ConnLabels
<1>5. ASSUME NEW c \in Conns, DelayWait(c) PROVE Places'
  BY SMTT(60), <1>5 DEF DelayWait, listenerVars, peerVars, countVars, Places, ConnLabels
<1>6. ASSUME NEW c \in Conns, DelayTimer(c) PROVE Places'
  BY SMTT(60), <1>6 DEF DelayTimer, listenerVars, peerVars, countVars, Places, ConnLabels
<1>7. ASSUME NEW c \in Conns, Watch(c) PROVE Places'
  BY SMTT(60), <1>7 DEF Watch, listenerVars, peerVars, countVars, Places, ConnLabels
<1>8. ASSUME NEW c \in Conns, Start(c) PROVE Places'
  BY SMTT(60), <1>8 DEF Start, listenerVars, peerVars, countVars, Places, ConnLabels
<1>9. ASSUME NEW c \in Conns, ReadMessage(c) PROVE Places'
  BY SMTT(60), <1>9 DEF ReadMessage, listenerVars, timerVars, Places, ConnLabels
<1>10. ASSUME NEW c \in Conns, Route(c) PROVE Places'
  BY SMTT(60), <1>10 DEF Route, listenerVars, peerVars, timerVars, countVars, Places, ConnLabels
<1>11. ASSUME NEW c \in Conns, Proxy(c) PROVE Places'
  BY SMTT(60), <1>11 DEF Proxy, listenerVars, peerVars, timerVars, countVars, Places, ConnLabels
<1>12. ASSUME NEW c \in Conns, WriteMessage(c) PROVE Places'
  BY SMTT(60), <1>12 DEF WriteMessage, listenerVars, peerVars, timerVars, Places, ConnLabels
<1>13. ASSUME NEW c \in Conns, EndRun(c) PROVE Places'
  BY Zenon, <1>13 DEF EndRun, listenerVars, peerVars, timerVars, countVars, Places, ConnLabels
<1>14. ASSUME NEW c \in Conns, CloseConn(c) PROVE Places'
  BY Zenon, <1>14 DEF CloseConn, listenerVars, peerVars, timerVars, countVars, Places, ConnLabels
<1>15. ASSUME NEW c \in Conns, RunCancel(c) PROVE Places'
  BY Zenon, <1>15 DEF RunCancel, listenerVars, peerVars, countVars, Places, ConnLabels
<1>16. CASE Cancel
  BY Zenon, <1>16 DEF Cancel, peerVars, timerVars, countVars, Places, ConnLabels
<1>17. CASE CloseListener
  BY Zenon, <1>17 DEF CloseListener, peerVars, timerVars, countVars, Places, ConnLabels
<1>18. CASE AcceptError
  BY Zenon, <1>18 DEF AcceptError, peerVars, timerVars, countVars, Places, ConnLabels
<1>19. CASE Return
  BY Zenon, <1>19 DEF Return, peerVars, timerVars, countVars, Places, ConnLabels
<1>20. CASE UNCHANGED vars
  BY SMTT(60), <1>20 DEF vars, listenerVars, peerVars, timerVars, countVars, Places, ConnLabels
<1> QED
  BY Zenon, <1>1, <1>2, <1>3, <1>4, <1>5, <1>6, <1>7, <1>8, <1>9, <1>10, <1>11, <1>12, <1>13,
     <1>14, <1>15, <1>16, <1>17, <1>18, <1>19, <1>20 DEF Next, ListenerStep, Client, ConnStep,
     Helpers, Terminated

\* ... and the messages on their way.
LEMMA TrafficStep ==
  ASSUME Traffic, Routing, [Next]_vars
  PROVE  Traffic'
<1>1. ASSUME NEW c \in Conns, Dial(c) PROVE Traffic'
  BY Zenon, <1>1 DEF Dial, listenerVars, timerVars, countVars, Traffic
<1>2. ASSUME NEW c \in Conns, NEW k \in Sent, Send(c, k) PROVE Traffic'
  <2>1. k \in Requests /\ inbox[c] \in Seq(Requests)
    BY Zenon, <1>2, ServerAssumption DEF Traffic
  <2>2. Append(inbox[c], k) \in Seq(Requests)
    BY <2>1
  <2> QED
    BY Zenon, <1>2, <2>2 DEF Send, countVars, Traffic
<1>3. ASSUME NEW c \in Conns, Disconnect(c) PROVE Traffic'
  BY Zenon, <1>3 DEF Disconnect, listenerVars, timerVars, countVars, Traffic
<1>4. ASSUME NEW c \in Conns, Accept(c) PROVE Traffic'
  BY SMTT(60), <1>4 DEF Accept, listenerVars, peerVars, timerVars, countVars, Traffic
<1>5. ASSUME NEW c \in Conns, DelayWait(c) PROVE Traffic'
  BY Zenon, <1>5 DEF DelayWait, listenerVars, peerVars, countVars, Traffic
<1>6. ASSUME NEW c \in Conns, DelayTimer(c) PROVE Traffic'
  BY Zenon, <1>6 DEF DelayTimer, listenerVars, peerVars, countVars, Traffic
<1>7. ASSUME NEW c \in Conns, Watch(c) PROVE Traffic'
  BY Zenon, <1>7 DEF Watch, listenerVars, peerVars, countVars, Traffic
<1>8. ASSUME NEW c \in Conns, Start(c) PROVE Traffic'
  BY Zenon, <1>8 DEF Start, listenerVars, peerVars, countVars, Traffic
<1>9. ASSUME NEW c \in Conns, ReadMessage(c) PROVE Traffic'
  <2>1. inbox[c] # <<>> => Tail(inbox[c]) \in Seq(Requests) /\ Head(inbox[c]) \in Requests
    BY <1>9 DEF Traffic
  <2>2. Requests \subseteq Results
    BY Zenon DEF Results
  <2>3. /\ inbox' = inbox \/ (inbox[c] # <<>> /\ inbox' = [inbox EXCEPT ![c] = Tail(inbox[c])])
        /\ res' = res \/ (inbox[c] # <<>> /\ res' = [res EXCEPT ![c] = Head(inbox[c])])
    BY Zenon, <1>9 DEF ReadMessage
  <2>4. inbox' \in [Conns -> Seq(Requests)] /\ res' \in [Conns -> Results]
    BY Zenon, <2>1, <2>2, <2>3 DEF Traffic
  <2>5. read' \in [Conns -> Nat]
    <3>1. read' = read \/ read' = [read EXCEPT ![c] = read[c] + 1]
      BY Zenon, <1>9 DEF ReadMessage
    <3>2. read \in [Conns -> Nat]
      BY Zenon DEF Traffic
    <3> QED
      BY SMTT(60), <3>1, <3>2
  <2>6. answered' \in [Conns -> Nat]
    BY Zenon, <1>9 DEF ReadMessage, Traffic
  <2> QED
    BY SMTT(60), <2>4, <2>5, <2>6 DEF Traffic
<1>10. ASSUME NEW c \in Conns, Route(c) PROVE Traffic'
  <2>1. Outcomes(res[c]) \subseteq Results
    BY Zenon, <1>10 DEF Route, Routing, Outcomes, Requests, Results
  <2>2. "panic" \in Results
    BY Zenon DEF Results
  <2> QED
    BY ZenonT(60), <1>10, <2>1, <2>2 DEF Route, peerVars, countVars, Traffic
<1>11. ASSUME NEW c \in Conns, Proxy(c) PROVE Traffic'
  BY Zenon, <1>11 DEF Proxy, listenerVars, peerVars, timerVars, countVars, Results, Traffic
<1>12. ASSUME NEW c \in Conns, WriteMessage(c) PROVE Traffic'
  <2>1. res' \in [Conns -> Results]
    <3>1. res' = res \/ res' = [res EXCEPT ![c] = "none"]
      BY Zenon, <1>12 DEF WriteMessage
    <3>2. "none" \in Results
      BY SMTT(60) DEF Results
    <3> QED
      BY ZenonT(60), <3>1, <3>2 DEF Traffic
  <2>2. answered' \in [Conns -> Nat]
    <3>1. answered' = answered \/ answered' = [answered EXCEPT ![c] = answered[c] + 1]
      BY Zenon, <1>12 DEF WriteMessage
    <3>2. answered \in [Conns -> Nat]
      BY Zenon DEF Traffic
    <3> QED
      BY <3>1, <3>2
  <2>3. inbox' = inbox /\ read' = read
    BY Zenon, <1>12 DEF WriteMessage, peerVars
  <2> QED
    BY SMTT(60), <2>1, <2>2, <2>3 DEF Traffic
<1>13. ASSUME NEW c \in Conns, EndRun(c) PROVE Traffic'
  BY Zenon, <1>13 DEF EndRun, listenerVars, peerVars, timerVars, countVars, Traffic
<1>14. ASSUME NEW c \in Conns, CloseConn(c) PROVE Traffic'
  BY Zenon, <1>14 DEF CloseConn, listenerVars, peerVars, timerVars, countVars, Traffic
<1>15. ASSUME NEW c \in Conns, RunCancel(c) PROVE Traffic'
  BY Zenon, <1>15 DEF RunCancel, listenerVars, peerVars, countVars, Traffic
<1>16. CASE Cancel
  BY Zenon, <1>16 DEF Cancel, peerVars, timerVars, countVars, Traffic
<1>17. CASE CloseListener
  BY SMTT(60), <1>17 DEF CloseListener, peerVars, timerVars, countVars, Traffic
<1>18. CASE AcceptError
  BY SMTT(60), <1>18 DEF AcceptError, peerVars, timerVars, countVars, Traffic
<1>19. CASE Return
  BY SMTT(60), <1>19 DEF Return, peerVars, timerVars, countVars, Traffic
<1>20. CASE UNCHANGED vars
  BY SMTT(60), <1>20 DEF vars, listenerVars, peerVars, timerVars, countVars, Traffic
<1> QED
  BY SMTT(60), <1>1, <1>2, <1>3, <1>4, <1>5, <1>6, <1>7, <1>8, <1>9, <1>10, <1>11, <1>12, <1>13,
     <1>14, <1>15, <1>16, <1>17, <1>18, <1>19, <1>20 DEF Next, ListenerStep, Client, ConnStep,
     Helpers, Terminated

\* Every step keeps that route looks at a request that was read.
LEMMA RoutingStep ==
  ASSUME TypeOK, Routing, [Next]_vars
  PROVE  Routing'
<1>1. ASSUME NEW c \in Conns, Dial(c) PROVE Routing'
  BY SMTT(60), <1>1 DEF Dial, listenerVars, timerVars, countVars, TypeOK, Routing
<1>2. ASSUME NEW c \in Conns, NEW k \in Sent, Send(c, k) PROVE Routing'
  BY Zenon, <1>2 DEF Send, listenerVars, timerVars, countVars, TypeOK, Routing
<1>3. ASSUME NEW c \in Conns, Disconnect(c) PROVE Routing'
  BY SMTT(60), <1>3 DEF Disconnect, listenerVars, timerVars, countVars, TypeOK, Routing
<1>4. ASSUME NEW c \in Conns, Accept(c) PROVE Routing'
  BY SMTT(60), <1>4 DEF Accept, listenerVars, peerVars, timerVars, countVars, TypeOK, Routing
<1>5. ASSUME NEW c \in Conns, DelayWait(c) PROVE Routing'
  BY Zenon, <1>5 DEF DelayWait, listenerVars, peerVars, countVars, TypeOK, Routing
<1>6. ASSUME NEW c \in Conns, DelayTimer(c) PROVE Routing'
  BY Zenon, <1>6 DEF DelayTimer, listenerVars, peerVars, countVars, TypeOK, Routing
<1>7. ASSUME NEW c \in Conns, Watch(c) PROVE Routing'
  BY SMTT(60), <1>7 DEF Watch, listenerVars, peerVars, countVars, TypeOK, Routing
<1>8. ASSUME NEW c \in Conns, Start(c) PROVE Routing'
  BY SMTT(60), <1>8 DEF Start, listenerVars, peerVars, countVars, TypeOK, Routing
<1>9. ASSUME NEW c \in Conns, ReadMessage(c) PROVE Routing'
  <2>1. inbox[c] # <<>> => Head(inbox[c]) \in Requests
    BY <1>9 DEF TypeOK
  <2> QED
    BY SMTT(60), <1>9, <2>1 DEF ReadMessage, TypeOK, Routing
<1>10. ASSUME NEW c \in Conns, Route(c) PROVE Routing'
  BY ZenonT(60), <1>10 DEF Route, listenerVars, peerVars, timerVars, countVars, TypeOK, Routing
<1>11. ASSUME NEW c \in Conns, Proxy(c) PROVE Routing'
  BY ZenonT(60), <1>11 DEF Proxy, listenerVars, peerVars, timerVars, countVars, TypeOK, Routing
<1>12. ASSUME NEW c \in Conns, WriteMessage(c) PROVE Routing'
  BY SMTT(60), <1>12 DEF WriteMessage, listenerVars, peerVars, timerVars, TypeOK, Routing
<1>13. ASSUME NEW c \in Conns, EndRun(c) PROVE Routing'
  BY SMTT(60), <1>13 DEF EndRun, listenerVars, peerVars, timerVars, countVars, TypeOK, Routing
<1>14. ASSUME NEW c \in Conns, CloseConn(c) PROVE Routing'
  BY SMTT(60), <1>14 DEF CloseConn, listenerVars, peerVars, timerVars, countVars, TypeOK, Routing
<1>15. ASSUME NEW c \in Conns, RunCancel(c) PROVE Routing'
  BY SMTT(60), <1>15 DEF RunCancel, listenerVars, peerVars, countVars, TypeOK, Routing
<1>16. CASE Cancel
  BY SMTT(60), <1>16 DEF Cancel, peerVars, timerVars, countVars, TypeOK, Routing
<1>17. CASE CloseListener
  BY SMTT(60), <1>17 DEF CloseListener, peerVars, timerVars, countVars, TypeOK, Routing
<1>18. CASE AcceptError
  BY SMTT(60), <1>18 DEF AcceptError, peerVars, timerVars, countVars, TypeOK, Routing
<1>19. CASE Return
  BY SMTT(60), <1>19 DEF Return, peerVars, timerVars, countVars, TypeOK, Routing
<1>20. CASE UNCHANGED vars
  BY SMTT(60), <1>20 DEF vars, listenerVars, peerVars, timerVars, countVars, TypeOK, Routing
<1> QED
  BY Zenon, <1>1, <1>2, <1>3, <1>4, <1>5, <1>6, <1>7, <1>8, <1>9, <1>10, <1>11, <1>12, <1>13,
     <1>14, <1>15, <1>16, <1>17, <1>18, <1>19, <1>20 DEF Next, ListenerStep, Client, ConnStep,
     Helpers, Terminated

-----------------------------------------------------------------------------
(* The WaitGroup, the gauge and the return of Run.                         *)

\* A step of the system adds a running connection, ends one, or neither.
Joins == \E c \in Conns : /\ c \notin Running /\ Running' = Running \cup {c}
                          /\ wg' = wg + 1 /\ clients' = clients + 1
                          /\ lpc = "accept" /\ lpc' = lpc
Leaves == \E c \in Conns : /\ c \in Running /\ Running' = Running \ {c}
                           /\ wg' = wg - 1 /\ clients' = clients - 1
                           /\ lpc' = lpc
Stays == /\ Running' = Running /\ wg' = wg /\ clients' = clients
         /\ lpc' = "returned" => lpc = "returned" \/ wg = 0

\* A step makes one connection join or leave those that are counted, or none.
LEMMA MembershipStep ==
  ASSUME TypeOK, Undialled, [Next]_vars
  PROVE  Joins \/ Leaves \/ Stays
<1>1. ASSUME NEW c \in Conns, Dial(c) PROVE Joins \/ Leaves \/ Stays
  BY SMTT(60), <1>1 DEF Dial, listenerVars, timerVars, countVars, TypeOK, Undialled, Stays, Running
<1>2. ASSUME NEW c \in Conns, NEW k \in Sent, Send(c, k) PROVE Joins \/ Leaves \/ Stays
  BY SMTT(60), <1>2 DEF Send, listenerVars, timerVars, countVars, TypeOK, Stays, Running
<1>3. ASSUME NEW c \in Conns, Disconnect(c) PROVE Joins \/ Leaves \/ Stays
  BY SMTT(60), <1>3 DEF Disconnect, listenerVars, timerVars, countVars, TypeOK, Stays, Running
<1>4. ASSUME NEW c \in Conns, Accept(c) PROVE Joins \/ Leaves \/ Stays
  BY ZenonT(60), <1>4 DEF Accept, listenerVars, TypeOK, Joins, Running
<1>5. ASSUME NEW c \in Conns, DelayWait(c) PROVE Joins \/ Leaves \/ Stays
  BY Zenon, <1>5 DEF DelayWait, listenerVars, peerVars, countVars, TypeOK, Stays, Running
<1>6. ASSUME NEW c \in Conns, DelayTimer(c) PROVE Joins \/ Leaves \/ Stays
  BY Zenon, <1>6 DEF DelayTimer, listenerVars, peerVars, countVars, TypeOK, Stays, Running
<1>7. ASSUME NEW c \in Conns, Watch(c) PROVE Joins \/ Leaves \/ Stays
  BY Zenon, <1>7 DEF Watch, listenerVars, peerVars, countVars, TypeOK, Stays, Running
<1>8. ASSUME NEW c \in Conns, Start(c) PROVE Joins \/ Leaves \/ Stays
  BY SMTT(60), <1>8 DEF Start, listenerVars, peerVars, countVars, TypeOK, Stays, Running
<1>9. ASSUME NEW c \in Conns, ReadMessage(c) PROVE Joins \/ Leaves \/ Stays
  BY SMTT(60), <1>9 DEF ReadMessage, listenerVars, timerVars, TypeOK, Stays, Running
<1>10. ASSUME NEW c \in Conns, Route(c) PROVE Joins \/ Leaves \/ Stays
  BY SMTT(60), <1>10 DEF Route, listenerVars, peerVars, timerVars, countVars, TypeOK, Stays, Running
<1>11. ASSUME NEW c \in Conns, Proxy(c) PROVE Joins \/ Leaves \/ Stays
  BY SMTT(60), <1>11 DEF Proxy, listenerVars, peerVars, timerVars, countVars, TypeOK, Stays, Running
<1>12. ASSUME NEW c \in Conns, WriteMessage(c) PROVE Joins \/ Leaves \/ Stays
  BY SMTT(60), <1>12 DEF WriteMessage, listenerVars, peerVars, timerVars, TypeOK, Stays, Running
<1>13. ASSUME NEW c \in Conns, EndRun(c) PROVE Joins \/ Leaves \/ Stays
  BY Zenon, <1>13 DEF EndRun, listenerVars, peerVars, timerVars, countVars, TypeOK, Stays, Running
<1>14. ASSUME NEW c \in Conns, CloseConn(c) PROVE Joins \/ Leaves \/ Stays
  BY ZenonT(60), <1>14 DEF CloseConn, listenerVars, TypeOK, Leaves, Running
<1>15. ASSUME NEW c \in Conns, RunCancel(c) PROVE Joins \/ Leaves \/ Stays
  BY SMTT(60), <1>15 DEF RunCancel, listenerVars, peerVars, countVars, TypeOK, Stays, Running
<1>16. CASE Cancel
  BY SMTT(60), <1>16 DEF Cancel, peerVars, timerVars, countVars, TypeOK, Stays, Running
<1>17. CASE CloseListener
  BY SMTT(60), <1>17 DEF CloseListener, peerVars, timerVars, countVars, TypeOK, Stays, Running
<1>18. CASE AcceptError
  BY Zenon, <1>18 DEF AcceptError, peerVars, timerVars, countVars, TypeOK, Stays, Running
<1>19. CASE Return
  BY SMTT(60), <1>19 DEF Return, peerVars, timerVars, countVars, TypeOK, Stays, Running
<1>20. CASE UNCHANGED vars
  BY SMTT(60), <1>20 DEF vars, listenerVars, peerVars, timerVars, countVars, TypeOK, Stays, Running
<1> QED
  BY SMTT(60), <1>1, <1>2, <1>3, <1>4, <1>5, <1>6, <1>7, <1>8, <1>9, <1>10, <1>11, <1>12, <1>13,
     <1>14, <1>15, <1>16, <1>17, <1>18, <1>19, <1>20 DEF Next, ListenerStep, Client, ConnStep,
     Helpers, Terminated

\* So the counters stay exact, and connections are closed when Run returns.
LEMMA CountsStep ==
  ASSUME TypeOK, Undialled, CountsExact, ReturnedClosed, [Next]_vars
  PROVE  CountsExact' /\ ReturnedClosed' /\ wg' \in Nat /\ clients' \in Nat
<1>1. IsFiniteSet(Running) /\ Running \subseteq Conns
  <2>1. Running \in SUBSET Conns
    BY Zenon DEF Running
  <2> QED
    BY SMTT(60), <2>1, ServerAssumption, FS_Subset
<1>2. Cardinality(Running) \in Nat /\ (Cardinality(Running) = 0 <=> Running = {})
  BY SMTT(60), <1>1, FS_CardinalityType, FS_EmptySet
<1>3. CASE Joins
  <2>1. PICK c \in Conns : /\ c \notin Running /\ Running' = Running \cup {c}
                           /\ wg' = wg + 1 /\ clients' = clients + 1
                           /\ lpc = "accept" /\ lpc' = lpc
    BY SMTT(60), <1>3 DEF Joins
  <2>2. Cardinality(Running \cup {c}) = Cardinality(Running) + 1
    BY SMTT(60), <1>1, <2>1, FS_AddElement
  <2> QED
    BY SMTT(60), <1>2, <2>1, <2>2 DEF CountsExact, ReturnedClosed
<1>4. CASE Leaves
  <2>1. PICK c \in Conns : /\ c \in Running /\ Running' = Running \ {c}
                           /\ wg' = wg - 1 /\ clients' = clients - 1
                           /\ lpc' = lpc
    BY SMTT(60), <1>4 DEF Leaves
  <2>2. Cardinality(Running \ {c}) = Cardinality(Running) - 1
    BY SMTT(60), <1>1, <2>1, FS_RemoveElement
  <2>3. Running # {}
    BY Zenon, <2>1
  <2> QED
    BY SMTT(60), <1>2, <2>1, <2>2, <2>3 DEF CountsExact, ReturnedClosed
<1>5. CASE Stays
  BY Zenon, <1>2, <1>5 DEF Stays, CountsExact, ReturnedClosed
<1> QED
  BY SMTT(60), <1>3, <1>4, <1>5, MembershipStep

-----------------------------------------------------------------------------
(* The invariant and the theorems.                                         *)

\* The inductive invariant holds initially, ...
LEMMA ServerInit == Init => ServerInv
<1> SUFFICES ASSUME Init PROVE ServerInv
  BY Zenon
<1>1. <<>> \in Seq(Requests)
  BY SMTT(60)
<1>2. TypeOK
  BY ZenonT(60), <1>1 DEF Init, TypeOK, ConnLabels, Results
<1>3. Running = {}
  BY Zenon DEF Init, Running
<1>4. CountsExact /\ ReturnedClosed
  BY SMTT(60), <1>3, FS_EmptySet DEF Init, CountsExact, ReturnedClosed
<1>5. Undialled /\ Routing /\ Unanswered
  BY DEF Init, Undialled, Routing, Unanswered
<1>6. Grace
  BY Zenon DEF Init, Grace
<1> QED
  BY SMTT(60), <1>2, <1>4, <1>5, <1>6 DEF ServerInv

\* ... and is kept by every step.
LEMMA ServerStep == ServerInv /\ [Next]_vars => ServerInv'
<1> SUFFICES ASSUME ServerInv, [Next]_vars PROVE ServerInv'
  BY Zenon
<1>1. TypeOK /\ CountsExact /\ ReturnedClosed /\ Undialled /\ Routing /\ Unanswered /\ Grace
  BY Zenon DEF ServerInv
<1>2. Flags /\ Places /\ Traffic
  BY Zenon, <1>1, TypeParts
<1>3. Flags' /\ Places' /\ Traffic'
  BY SMTT(60), <1>1, <1>2, FlagsStep, PlacesStep, TrafficStep
<1>4. CountsExact' /\ ReturnedClosed' /\ wg' \in Nat /\ clients' \in Nat
  BY SMTT(60), <1>1, CountsStep
<1>5. TypeOK'
  BY SMTT(60), <1>3, <1>4 DEF TypeOK, Flags, Places, Traffic
<1>6. Undialled' /\ Routing' /\ Unanswered' /\ Grace'
  BY SMTT(60), <1>1, UndialledStep, RoutingStep, UnansweredStep, GraceStep
<1> QED
  BY SMTT(60), <1>4, <1>5, <1>6 DEF ServerInv

\* The inductive invariant of the server.
LEMMA ServerInvariant == Spec => []ServerInv
  BY ServerInit, ServerStep, PTL DEF Spec

\* Type correctness of the listener and its connections (listener.go, conn.go).
THEOREM ServerTypeCorrect == Spec => []TypeOK
<1>1. ServerInv => TypeOK
  BY SMTT(60) DEF ServerInv
<1> QED
  BY <1>1, ServerInvariant, PTL

\* wg and connectedClients count exactly the connections that Run started and that
\* are not closed, for every finite set of connections and in every mode.
THEOREM CountsAlwaysExact == Spec => []CountsExact
<1>1. ServerInv => CountsExact
  BY SMTT(60) DEF ServerInv
<1> QED
  BY <1>1, ServerInvariant, PTL

\* Listener.Run returns only when every accepted connection is closed.
THEOREM RunReturnsClosed == Spec => []ReturnedClosed
<1>1. ServerInv => ReturnedClosed
  BY SMTT(60) DEF ServerInv
<1> QED
  BY <1>1, ServerInvariant, PTL

\* A connection that reads the next request has answered every one before it.
THEOREM NoRequestDropped == Spec => []NoSilentDrop
<1>1. ServerInv => NoSilentDrop
  BY SMTT(60) DEF ServerInv, Unanswered, NoSilentDrop
<1> QED
  BY <1>1, ServerInvariant, PTL

\* The deadline of a running connection is set only after the grace period that
\* begins when the listener is stopped (ctxutil.WithDelay).
THEOREM GracePeriodKept == Spec => []GraceKept
<1>1. ServerInv => GraceKept
  BY Zenon DEF ServerInv, Grace, GraceKept, Running
<1> QED
  BY <1>1, ServerInvariant, PTL

=============================================================================
