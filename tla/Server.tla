------------------------------- MODULE Server -------------------------------
(***************************************************************************)
(* The listener and its client connections (package clientconn): the       *)
(* accept loop, one goroutine per connection that reads a request, routes  *)
(* it to the handler and/or the proxy and writes the response, and the     *)
(* shutdown: the context of the listener is cancelled, clients get a grace *)
(* period (ctxutil.WithDelay), then a deadline in the past unblocks them.  *)
(*                                                                         *)
(* Requests are told apart by what route does with their op code.  TCP,    *)
(* the clients and the proxied service are external.  A panic is recovered *)
(* by conn.run (the logger is not in development mode).                    *)
(***************************************************************************)
EXTENDS Naturals, Sequences, FiniteSets

CONSTANTS Conns,         \* client connections
          Mode,          \* mode of operation
          AcceptFaults,  \* whether Accept fails although the listener is open
          Sent,          \* the kinds of requests that the clients send
          MaxRequests    \* bound on the requests of a client

Modes == {"normal", "proxy", "diff-normal", "diff-proxy"}

\* A parsed OP_MSG, an OP_MSG without a document, OP_QUERY, any other op code.
Requests == {"msg", "badMsg", "query", "other"}

ASSUME ServerAssumption ==
  /\ IsFiniteSet(Conns)
  /\ Mode \in Modes
  /\ AcceptFaults \in BOOLEAN
  /\ Sent \subseteq Requests
  /\ MaxRequests \in Nat

VARIABLES
  ctxDone,   \* the context of Listener.Run is cancelled
  lnClosed,  \* l.listener.Close() was called
  lpc,       \* control of Listener.Run
  wg,        \* the WaitGroup of Run
  clients,   \* the gauge connectedClients
  peer,      \* peer[c]: the client's end of the connection
  inbox,     \* inbox[c]: requests sent and not read yet
  cpc,       \* cpc[c]: control of the connection's goroutine
  delay,     \* delay[c]: control of the goroutine of WithDelay
  watch,     \* watch[c]: control of the goroutine that run starts
  runCtx,    \* runCtx[c]: the context of run is done
  deadline,  \* deadline[c]: the deadline of netConn is in the past
  res,       \* res[c]: outcome of the request being served
  read,      \* read[c]: number of requests read
  answered   \* answered[c]: number of responses written

listenerVars == <<ctxDone, lnClosed, lpc>>
timerVars == <<delay, watch, runCtx, deadline>>
peerVars == <<peer, inbox>>
countVars == <<read, answered>>
vars == <<listenerVars, wg, clients, peerVars, cpc, timerVars, res, countVars>>

Init ==
  /\ ctxDone = FALSE /\ lnClosed = FALSE /\ lpc = "accept"
  /\ wg = 0 /\ clients = 0
  /\ peer = [c \in Conns |-> "none"]
  /\ inbox = [c \in Conns |-> <<>>]
  /\ cpc = [c \in Conns |-> "none"]
  /\ delay = [c \in Conns |-> "none"]
  /\ watch = [c \in Conns |-> "none"]
  /\ runCtx = [c \in Conns |-> FALSE]
  /\ deadline = [c \in Conns |-> FALSE]
  /\ res = [c \in Conns |-> "none"]
  /\ read = [c \in Conns |-> 0]
  /\ answered = [c \in Conns |-> 0]

-----------------------------------------------------------------------------
(* Clients.                                                                *)

Dial(c) ==
  /\ peer[c] = "none" /\ ~lnClosed
  /\ peer' = [peer EXCEPT ![c] = "open"]
  /\ cpc' = [cpc EXCEPT ![c] = "backlog"]
  /\ UNCHANGED <<listenerVars, wg, clients, inbox, timerVars, res, countVars>>

Send(c, k) ==
  /\ peer[c] = "open"
  /\ read[c] + Len(inbox[c]) < MaxRequests
  /\ inbox' = [inbox EXCEPT ![c] = Append(@, k)]
  /\ UNCHANGED <<listenerVars, wg, clients, peer, cpc, timerVars, res, countVars>>

Disconnect(c) ==
  /\ peer[c] = "open"
  /\ peer' = [peer EXCEPT ![c] = "closed"]
  /\ UNCHANGED <<listenerVars, wg, clients, inbox, cpc, timerVars, res, countVars>>

-----------------------------------------------------------------------------
(* Listener.Run.                                                           *)

\* The process is asked to stop.
Cancel ==
  /\ ~ctxDone
  /\ ctxDone' = TRUE
  /\ UNCHANGED <<lnClosed, lpc, wg, clients, peerVars, cpc, timerVars, res, countVars>>

\* The goroutine that waits for ctx.Done() and closes the listener.
CloseListener ==
  /\ ctxDone /\ ~lnClosed
  /\ lnClosed' = TRUE
  /\ UNCHANGED <<ctxDone, lpc, wg, clients, peerVars, cpc, timerVars, res, countVars>>

\* Faulty variant: wg.Add(1) is missing.
FaultyAccept(c) ==
  /\ lpc = "accept" /\ ~lnClosed
  /\ cpc[c] = "backlog"
  /\ cpc' = [cpc EXCEPT ![c] = "start"]
  /\ clients' = clients + 1
  /\ UNCHANGED <<listenerVars, wg, peerVars, timerVars, res, countVars>>

\* Accept succeeded: wg.Add(1), and a goroutine for the connection.
Accept(c) ==
  /\ lpc = "accept" /\ ~lnClosed
  /\ cpc[c] = "backlog"
  /\ cpc' = [cpc EXCEPT ![c] = "start"]
  /\ wg' = wg + 1
  /\ clients' = clients + 1
  /\ UNCHANGED <<listenerVars, peerVars, timerVars, res, countVars>>

\* Accept failed: the loop ends if ctx is done, otherwise it tries again.
AcceptError ==
  /\ lpc = "accept"
  /\ lnClosed \/ AcceptFaults
  /\ ctxDone
  /\ lpc' = "wait"
  /\ UNCHANGED <<ctxDone, lnClosed, wg, clients, peerVars, cpc, timerVars, res, countVars>>

\* wg.Wait() returned, and so does Run.
Return ==
  /\ lpc = "wait" /\ wg = 0
  /\ lpc' = "returned"
  /\ UNCHANGED <<ctxDone, lnClosed, wg, clients, peerVars, cpc, timerVars, res, countVars>>

-----------------------------------------------------------------------------
(* The goroutines of ctxutil.WithDelay and of run.  (The option            *)
(* TestConnTimeout is for tests and left out.)                             *)

\* Faulty variant: the goroutine of WithDelay does not look at its own context.
FaultyDelayWait(c) ==
  /\ delay[c] = "wait"
  /\ ctxDone /\ delay' = [delay EXCEPT ![c] = "timer"]
  /\ UNCHANGED <<listenerVars, wg, clients, peerVars, cpc, watch, runCtx, deadline, res, countVars>>

\* WithDelay waits for the listener to stop or for runCancel.
DelayWait(c) ==
  /\ delay[c] = "wait"
  /\ \/ ctxDone /\ delay' = [delay EXCEPT ![c] = "timer"]
     \/ cpc[c] = "gone" /\ delay' = [delay EXCEPT ![c] = "gone"]
  /\ UNCHANGED <<listenerVars, wg, clients, peerVars, cpc, watch, runCtx, deadline, res, countVars>>

\* The grace period is over, or the connection was.
DelayTimer(c) ==
  /\ delay[c] = "timer"
  /\ delay' = [delay EXCEPT ![c] = "gone"]
  /\ runCtx' = [runCtx EXCEPT ![c] = TRUE]
  /\ UNCHANGED <<listenerVars, wg, clients, peerVars, cpc, watch, deadline, res, countVars>>

\* run has closed done.
RunOver(c) == cpc[c] \in {"closing", "cancel", "gone"}

\* Faulty variants: run watches the context of the listener; run does not watch
\* the context at all.
FaultyEagerWatch(c) ==
  /\ watch[c] = "wait"
  /\ \/ RunOver(c) /\ UNCHANGED deadline
     \/ ctxDone /\ deadline' = [deadline EXCEPT ![c] = TRUE]
  /\ watch' = [watch EXCEPT ![c] = "gone"]
  /\ UNCHANGED <<listenerVars, wg, clients, peerVars, cpc, delay, runCtx, res, countVars>>
FaultyNoWatch(c) ==
  /\ watch[c] = "wait"
  /\ RunOver(c)
  /\ watch' = [watch EXCEPT ![c] = "gone"]
  /\ UNCHANGED <<listenerVars, wg, clients, peerVars, cpc, delay, runCtx, deadline, res, countVars>>

\* The goroutine of run: exit with run, or SetDeadline when its context is done.
Watch(c) ==
  /\ watch[c] = "wait"
  /\ \/ RunOver(c) /\ UNCHANGED deadline
     \/ runCtx[c] /\ deadline' = [deadline EXCEPT ![c] = TRUE]
  /\ watch' = [watch EXCEPT ![c] = "gone"]
  /\ UNCHANGED <<listenerVars, wg, clients, peerVars, cpc, delay, runCtx, res, countVars>>

-----------------------------------------------------------------------------
(* The goroutine of a connection: newConn, run, and the deferred calls.    *)

\* newConn dials the proxied service in the modes that need it, which may fail.
Start(c) ==
  /\ cpc[c] = "start"
  /\ delay' = [delay EXCEPT ![c] = "wait"]
  /\ \/ /\ cpc' = [cpc EXCEPT ![c] = "read"]
        /\ watch' = [watch EXCEPT ![c] = "wait"]
     \/ /\ Mode # "normal"
        /\ cpc' = [cpc EXCEPT ![c] = "closing"]
        /\ UNCHANGED watch
  /\ UNCHANGED <<listenerVars, wg, clients, peerVars, runCtx, deadline, res, countVars>>

\* ReadMessage: a request (also one that was buffered before the deadline), the
\* end of the stream, or the deadline.
ReadMessage(c) ==
  /\ cpc[c] = "read"
  /\ \/ /\ inbox[c] # <<>>
        /\ inbox' = [inbox EXCEPT ![c] = Tail(@)]
        /\ res' = [res EXCEPT ![c] = Head(inbox[c])]
        /\ read' = [read EXCEPT ![c] = @ + 1]
        /\ cpc' = [cpc EXCEPT ![c] = IF Mode = "proxy" THEN "proxy" ELSE "route"]
     \/ /\ (inbox[c] = <<>> /\ peer[c] = "closed") \/ deadline[c]
        /\ cpc' = [cpc EXCEPT ![c] = "ending"]
        /\ UNCHANGED <<inbox, res, read>>
  /\ UNCHANGED <<listenerVars, wg, clients, peer, timerVars, answered>>

\* What route returns for a request.  "fatal": an InternalError response after
\* which the connection is closed; "noBody": closeConn without a response.
Outcomes(k) ==
  CASE k = "msg"   -> {"reply", "error", "fatal"}
    [] k = "query" -> {"reply", "noBody"}
    [] k \in {"badMsg", "other"} -> {"noBody"}

\* route, and in normal mode the test for a missing response, which panics.  The
\* handler itself, or the marshalling of its response, may panic too.
Route(c) ==
  /\ cpc[c] = "route"
  /\ \/ \E o \in Outcomes(res[c]) :
          /\ res' = [res EXCEPT ![c] = o]
          /\ cpc' = [cpc EXCEPT ![c] = CASE Mode # "normal" -> "proxy"
                                         [] o = "noBody"    -> "ending"
                                         [] OTHER           -> "write"]
     \/ /\ res[c] \in {"msg", "query"}
        /\ res' = [res EXCEPT ![c] = "panic"]
        /\ cpc' = [cpc EXCEPT ![c] = "ending"]
  /\ UNCHANGED <<listenerVars, wg, clients, peerVars, timerVars, countVars>>

\* proxy.Route: the service answers, or the connection to it fails, which panics.
\* A diff of a response without a body panics.  resCloseConn is kept in the diff
\* modes, also when the response of the proxy replaces the one of the handler.
Proxy(c) ==
  /\ cpc[c] = "proxy"
  /\ \/ /\ res[c] = "noBody"
        /\ cpc' = [cpc EXCEPT ![c] = "ending"]
        /\ UNCHANGED res
     \/ /\ res[c] # "noBody"
        /\ res' = [res EXCEPT ![c] = IF @ = "fatal" THEN "fatal" ELSE "reply"]
        /\ cpc' = [cpc EXCEPT ![c] = "write"]
     \/ /\ res' = [res EXCEPT ![c] = "panic"]
        /\ cpc' = [cpc EXCEPT ![c] = "ending"]
  /\ UNCHANGED <<listenerVars, wg, clients, peerVars, timerVars, countVars>>

\* Faulty variant: an error of WriteMessage or Flush is ignored.
FaultyWriteMessage(c) ==
  /\ cpc[c] = "write"
  /\ cpc' = [cpc EXCEPT ![c] = "read"]
  /\ \/ ~deadline[c] /\ answered' = [answered EXCEPT ![c] = @ + 1]
     \/ (deadline[c] \/ peer[c] = "closed") /\ UNCHANGED answered
  /\ UNCHANGED <<listenerVars, wg, clients, peerVars, timerVars, res, read>>

\* WriteMessage and Flush.
WriteMessage(c) ==
  /\ cpc[c] = "write"
  /\ \/ /\ ~deadline[c]
        /\ answered' = [answered EXCEPT ![c] = @ + 1]
        /\ \/ /\ res[c] # "fatal"
              /\ cpc' = [cpc EXCEPT ![c] = "read"]
              /\ res' = [res EXCEPT ![c] = "none"]
           \/ /\ res[c] = "fatal"
              /\ cpc' = [cpc EXCEPT ![c] = "ending"]
              /\ UNCHANGED res
     \/ /\ deadline[c] \/ peer[c] = "closed"
        /\ cpc' = [cpc EXCEPT ![c] = "ending"]
        /\ UNCHANGED <<answered, res>>
  /\ UNCHANGED <<listenerVars, wg, clients, peerVars, timerVars, read>>

\* Faulty variant: a panic skips what the listener deferred.
FaultyEndRun(c) ==
  /\ cpc[c] = "ending"
  /\ cpc' = [cpc EXCEPT ![c] = IF res[c] = "panic" THEN "cancel" ELSE "closing"]
  /\ UNCHANGED <<listenerVars, wg, clients, peerVars, timerVars, res, countVars>>

\* The deferred functions of run: flush, close the proxy, recover, close(done).
EndRun(c) ==
  /\ cpc[c] = "ending"
  /\ cpc' = [cpc EXCEPT ![c] = "closing"]
  /\ UNCHANGED <<listenerVars, wg, clients, peerVars, timerVars, res, countVars>>

\* netConn.Close(), connectedClients.Dec(), wg.Done().
CloseConn(c) ==
  /\ cpc[c] = "closing"
  /\ cpc' = [cpc EXCEPT ![c] = "cancel"]
  /\ wg' = wg - 1
  /\ clients' = clients - 1
  /\ UNCHANGED <<listenerVars, peerVars, timerVars, res, countVars>>

\* The deferred runCancel() runs last.
RunCancel(c) ==
  /\ cpc[c] = "cancel"
  /\ cpc' = [cpc EXCEPT ![c] = "gone"]
  /\ runCtx' = [runCtx EXCEPT ![c] = TRUE]
  /\ UNCHANGED <<listenerVars, wg, clients, peerVars, delay, watch, deadline, res, countVars>>

-----------------------------------------------------------------------------
\* What the service behind the proxy may keep waiting.
ConnStep(c) ==
  Start(c) \/ ReadMessage(c) \/ Route(c) \/ WriteMessage(c) \/ EndRun(c) \/ CloseConn(c)
  \/ RunCancel(c)

Helpers(c) == DelayWait(c) \/ DelayTimer(c) \/ Watch(c)

Client(c) == Dial(c) \/ (\E k \in Sent : Send(c, k)) \/ Disconnect(c)

ListenerStep == CloseListener \/ AcceptError \/ Return \/ \E c \in Conns : Accept(c)

\* Run has returned and every goroutine is gone.
Terminated ==
  /\ lpc = "returned"
  /\ UNCHANGED vars

Next ==
  \/ Cancel \/ ListenerStep \/ Terminated
  \/ \E c \in Conns : Client(c) \/ ConnStep(c) \/ Proxy(c) \/ Helpers(c)

Spec == Init /\ [][Next]_vars

\* The server's goroutines run while they can; handlers return (Route); nothing
\* is assumed of the clients, of the stop signal or of the proxied service.
Fairness ==
  /\ WF_vars(CloseListener) /\ WF_vars(AcceptError) /\ WF_vars(Return)
  /\ \A c \in Conns : WF_vars(ConnStep(c)) /\ WF_vars(Helpers(c))

FairSpec == Spec /\ Fairness

-----------------------------------------------------------------------------
(* Properties.                                                             *)

ConnLabels ==
  {"none", "backlog", "start", "read", "route", "proxy", "write", "ending", "closing",
   "cancel", "gone"}

Results == Requests \cup {"none", "reply", "error", "fatal", "noBody", "panic"}

\* The type invariant.
TypeOK ==
  /\ ctxDone \in BOOLEAN /\ lnClosed \in BOOLEAN
  /\ lpc \in {"accept", "wait", "returned"}
  /\ wg \in Nat /\ clients \in Nat
  /\ peer \in [Conns -> {"none", "open", "closed"}]
  /\ inbox \in [Conns -> Seq(Requests)]
  /\ cpc \in [Conns -> ConnLabels]
  /\ delay \in [Conns -> {"none", "wait", "timer", "gone"}]
  /\ watch \in [Conns -> {"none", "wait", "gone"}]
  /\ runCtx \in [Conns -> BOOLEAN]
  /\ deadline \in [Conns -> BOOLEAN]
  /\ res \in [Conns -> Results]
  /\ read \in [Conns -> Nat]
  /\ answered \in [Conns -> Nat]

\* Connections whose netConn is not closed yet.
Running == {c \in Conns : cpc[c] \notin {"none", "backlog", "cancel", "gone"}}

\* "When this method returns ... all connections are closed": Run returns only
\* after every accepted connection, also one accepted while stopping, is closed.
ReturnedClosed == lpc = "returned" => Running = {}

\* The WaitGroup and the gauge of connected clients count the running
\* connections, whichever way they ended: EOF, fatal error, panic, no proxy.
CountsExact == wg = Cardinality(Running) /\ clients = wg

\* A connection that waits for the next request has answered all it has read, in
\* every mode: a request is dropped without a response only with its connection.
NoSilentDrop ==
  \A c \in Conns :
    /\ cpc[c] = "read" => answered[c] = read[c]
    /\ read[c] <= answered[c] + 1

\* Clients are not cut off before the grace period: the deadline of a running
\* connection is set only when the listener is stopping.
GraceKept ==
  \A c \in Running : deadline[c] => ctxDone /\ delay[c] = "gone"

\* "Run runs the listener until ctx is done": stopping always completes, whatever
\* the clients do and however many connections are accepted meanwhile.
ShutdownCompletes == ctxDone ~> lpc = "returned"

\* When a connection is over, the goroutines of WithDelay and of run end too.
HelpersEnd ==
  \A c \in Conns : cpc[c] = "gone" ~> delay[c] = "gone" /\ watch[c] \in {"none", "gone"}

=============================================================================
