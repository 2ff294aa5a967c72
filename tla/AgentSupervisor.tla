---------------------------- MODULE AgentSupervisor ----------------------------
(***************************************************************************)
(* The agent's signalling socket and its session supervisor                *)
(* (apps/agent/src/main.rs run_with_reconnect .. refuse_second_offer,      *)
(* signal.rs SignalClient, rtc.rs send_answer .. apply_candidate and       *)
(* SessionHandler).                                                        *)
(*                                                                         *)
(* Two tasks share three bounded channels that outlive every socket: the   *)
(* reconnect loop, which is in client.run while a socket is up, and the    *)
(* supervisor, which serves one session at a time and reads inbound        *)
(* wherever it has a select.  What a session streams is PtyManager's and   *)
(* DesktopStream's; here a session is its life between offer and end.      *)
(***************************************************************************)
EXTENDS Naturals, Sequences, FiniteSets

CONSTANTS
  Terminal, Desktop, Unsupported, \* sessions, by what classify_offer makes of their offer
  InboundCap,   \* slots of the inbound channel (32 in the code)
  OutboundCap,  \* slots of the outbound channel (32 in the code)
  IdleTicks,    \* IDLE_TIMEOUT in ticks of PING_INTERVAL (3 in the code)
  MaxTicks,     \* bound on the ticks of a silent socket
  MaxConns,     \* bound on sockets; all but the last may fail
  MaxFails,     \* bound on failed connects
  MaxPushes,    \* bound on signals of browsers
  MaxCands,     \* bound on the agent's candidates of a session
  None

ASSUME SupervisorAssumption ==
  /\ {InboundCap, OutboundCap, IdleTicks, MaxConns} \subseteq Nat \ {0}
  /\ {MaxTicks, MaxFails, MaxPushes, MaxCands} \subseteq Nat
  /\ None \notin Terminal \cup Desktop \cup Unsupported
  /\ Terminal \cap Desktop = {} /\ (Terminal \cup Desktop) \cap Unsupported = {}

Sessions == Terminal \cup Desktop \cup Unsupported

VARIABLES
  link,      \* the reconnect loop: connecting, up, backoff, stopped, exited
  delay,     \* its delay in milliseconds
  conns,     \* sockets opened so far
  fails,     \* connects that failed so far
  silent,    \* the socket is half open: nothing arrives, nothing fails
  quiet,     \* ticks since the last frame of a silent socket
  inbound,   \* the inbound channel
  outbound,  \* the outbound channel
  pushes,    \* signals browsers have sent; numbers them
  phase,     \* the supervisor: off, ice, idle, or a stage of a session
  cur,       \* the session it runs
  curN,      \* the number of the offer it took
  approve,   \* the verdict it is about to send
  peer,      \* the session's peer: none, up, gone
  ended,     \* end_rx holds a reason
  gathered,  \* candidates the peer has gathered
  tasks,     \* detached tasks with a message for outbound
  due        \* history: numbers of the session's candidates that arrived since its offer was
             \* taken and were not given to the peer

loop == <<link, delay, conns, fails, silent, quiet>>
session == <<phase, cur, curN, approve, peer, ended, gathered, due>>
vars == <<loop, inbound, outbound, pushes, session, tasks>>

-----------------------------------------------------------------------------
(* Messages and helpers.                                                   *)

Offer(s, n)     == [type |-> "offer", of |-> s, n |-> n]
Candidate(s, n) == [type |-> "candidate", of |-> s, n |-> n]
Answer(s, n, ok) == [type |-> "answer", of |-> s, n |-> n, approved |-> ok]
Gathered(s, n)  == [type |-> "gathered", of |-> s, n |-> n, approved |-> TRUE]

Inbound  == [type : {"offer", "candidate"}, of : Sessions, n : 1..MaxPushes]
Outbound == [type : {"answer", "gathered"}, of : Sessions,
             n : 1..(MaxPushes + MaxCands), approved : BOOLEAN]

Elems(q) == {q[i] : i \in 1..Len(q)}
IsOwn(m) == m.type = "candidate" /\ m.of = cur
OwnIn(q, s) == {m.n : m \in {x \in Elems(q) : x.type = "candidate" /\ x.of = s}}

InSession == phase \notin {"off", "ice", "idle"}

\* The process runs.
Runs == link \notin {"stopped", "exited"}

BackoffInitial == 200
BackoffMax     == 2000

\* 1.5 times the delay, rounded to the nearest millisecond, up to the maximum.
next_backoff(d) ==
  LET scaled == (3 * d + 1) \div 2
  IN  IF scaled < BackoffMax THEN scaled ELSE BackoffMax

Init ==
  /\ link = "connecting" /\ delay = BackoffInitial /\ conns = 0 /\ fails = 0
  /\ silent = FALSE /\ quiet = 0
  /\ inbound = <<>> /\ outbound = <<>> /\ tasks = {} /\ pushes = 0
  /\ phase = "off" /\ cur = None /\ curN = 0 /\ approve = FALSE
  /\ peer = "none" /\ ended = FALSE /\ gathered = 0 /\ due = {}

-----------------------------------------------------------------------------
(* The reconnect loop.                                                     *)

\* Mutant: the delay is not reset by a successful connect.
Connects_KeepsDelay ==
  /\ link = "connecting" /\ conns < MaxConns
  /\ link' = "up" /\ conns' = conns + 1 /\ silent' = FALSE /\ quiet' = 0
  /\ phase' = IF phase = "off" THEN "ice" ELSE phase
  /\ UNCHANGED <<delay, fails, inbound, outbound, pushes, cur, curN, approve, peer, ended,
                 gathered, due, tasks>>

\* The first successful connect also starts the supervisor.
Connects ==
  /\ link = "connecting" /\ conns < MaxConns
  /\ link' = "up" /\ conns' = conns + 1 /\ silent' = FALSE /\ quiet' = 0
  /\ delay' = BackoffInitial
  /\ phase' = IF phase = "off" THEN "ice" ELSE phase
  /\ UNCHANGED <<fails, inbound, outbound, pushes, cur, curN, approve, peer, ended,
                 gathered, due, tasks>>

ConnectFails ==
  /\ link = "connecting" /\ fails < MaxFails
  /\ link' = "backoff" /\ fails' = fails + 1
  /\ UNCHANGED <<delay, conns, silent, quiet, inbound, outbound, pushes, session, tasks>>

\* The sleep is over.
Retry ==
  /\ link = "backoff"
  /\ link' = "connecting" /\ delay' = next_backoff(delay)
  /\ UNCHANGED <<conns, fails, silent, quiet, inbound, outbound, pushes, session, tasks>>

\* A close frame, a read that fails, a ping that cannot be written.
SocketEnds ==
  /\ link = "up" /\ conns < MaxConns
  /\ link' = "backoff"
  /\ UNCHANGED <<delay, conns, fails, silent, quiet, inbound, outbound, pushes, session,
                 tasks>>

\* The network forgets the socket without telling the agent.
GoesSilent ==
  /\ link = "up" /\ conns < MaxConns /\ ~silent
  /\ silent' = TRUE
  /\ UNCHANGED <<link, delay, conns, fails, quiet, inbound, outbound, pushes, session,
                 tasks>>

\* A tick without a frame.  The ping wins the select and is written to a socket
\* that takes it; the read's timeout is dropped with this turn of the select
\* and the next turn makes a new one, so it never grows older than a tick.
Elapse ==
  /\ link = "up" /\ silent /\ quiet < MaxTicks
  /\ quiet' = quiet + 1
  /\ UNCHANGED <<link, delay, conns, fails, silent, inbound, outbound, pushes, session,
                 tasks>>

\* What is left when the process is gone.
ProcessGone ==
  /\ silent' = FALSE /\ quiet' = 0 /\ inbound' = <<>> /\ outbound' = <<>> /\ tasks' = {}
  /\ phase' = "off" /\ cur' = None /\ curN' = 0 /\ approve' = FALSE
  /\ peer' = "none" /\ ended' = FALSE /\ gathered' = 0 /\ due' = {}
  /\ UNCHANGED <<delay, conns, fails, pushes>>

\* SIGINT or SIGTERM: connect, client.run, the sleep and the session each race it.
Shutdown == Runs /\ link' = "stopped" /\ ProcessGone

\* Mutant: the loop waits for a place in inbound instead of dropping, and writes
\* nothing meanwhile.
Send_Waits ==
  /\ link = "up" /\ outbound # <<>> /\ Len(inbound) < InboundCap
  /\ outbound' = Tail(outbound)
  /\ UNCHANGED <<loop, inbound, pushes, session, tasks>>

\* client.run takes a message off outbound and writes it.
Send ==
  /\ link = "up" /\ outbound # <<>>
  /\ outbound' = Tail(outbound)
  /\ UNCHANGED <<loop, inbound, pushes, session, tasks>>

\* The write fails: the socket ends and the message is gone.
SendFails ==
  /\ link = "up" /\ outbound # <<>> /\ conns < MaxConns
  /\ outbound' = Tail(outbound)
  /\ link' = "backoff"
  /\ UNCHANGED <<delay, conns, fails, silent, quiet, inbound, pushes, session, tasks>>

-----------------------------------------------------------------------------
(* Signals of browsers.  A browser sends its offer first; the server may   *)
(* deliver an offer again.                                                 *)

\* Mutant: the channel takes more than its capacity.
Arrives_Unbounded(m) ==
  /\ inbound' = IF link = "up" /\ ~silent THEN Append(inbound, m) ELSE inbound
  /\ due' = IF inbound' # inbound /\ InSession /\ IsOwn(m) THEN due \cup {m.n} ELSE due
  /\ pushes' = pushes + 1
  /\ UNCHANGED <<loop, outbound, phase, cur, curN, approve, peer, ended, gathered, tasks>>

\* What the relay pushes to a socket that is not there reaches nobody.
Arrives(m) ==
  /\ inbound' = IF link = "up" /\ ~silent /\ Len(inbound) < InboundCap
                THEN Append(inbound, m) ELSE inbound
  /\ due' = IF inbound' # inbound /\ InSession /\ IsOwn(m) THEN due \cup {m.n} ELSE due
  /\ pushes' = pushes + 1
  /\ UNCHANGED <<loop, outbound, phase, cur, curN, approve, peer, ended, gathered, tasks>>

BrowserOffers(s)   == Runs /\ pushes < MaxPushes /\ Arrives(Offer(s, pushes + 1))
BrowserTrickles(s) == Runs /\ pushes < MaxPushes /\ Arrives(Candidate(s, pushes + 1))

-----------------------------------------------------------------------------
(* The supervisor between sessions.                                        *)

\* supervise_sessions waits at most half a second for the ice-servers frame.
IceDecided ==
  /\ Runs /\ phase = "ice"
  /\ phase' = "idle"
  /\ UNCHANGED <<loop, inbound, outbound, pushes, cur, curN, approve, peer, ended,
                 gathered, due, tasks>>

IdleDrops ==
  /\ Runs /\ phase = "idle" /\ inbound # <<>> /\ Head(inbound).type = "candidate"
  /\ inbound' = Tail(inbound)
  /\ UNCHANGED <<loop, outbound, pushes, session, tasks>>

\* Mutant: what is queued behind the offer is taken for stale.
TakeOffer_Drains ==
  /\ Runs /\ phase = "idle" /\ inbound # <<>> /\ Head(inbound).type = "offer"
  /\ cur' = Head(inbound).of /\ curN' = Head(inbound).n
  /\ inbound' = SelectSeq(Tail(inbound), LAMBDA m : m.type = "offer")
  /\ due' = OwnIn(Tail(inbound), cur')
  /\ phase' = "building"
  /\ UNCHANGED <<loop, outbound, pushes, approve, peer, ended, gathered, tasks>>

TakeOffer ==
  /\ Runs /\ phase = "idle" /\ inbound # <<>> /\ Head(inbound).type = "offer"
  /\ cur' = Head(inbound).of /\ curN' = Head(inbound).n
  /\ inbound' = Tail(inbound)
  /\ due' = OwnIn(Tail(inbound), cur')
  /\ phase' = "building"
  /\ UNCHANGED <<loop, outbound, pushes, approve, peer, ended, gathered, tasks>>

-----------------------------------------------------------------------------
(* run_one_session and run_desktop_session.                                *)

Reset ==
  /\ phase' = "idle" /\ cur' = None /\ curN' = 0 /\ approve' = FALSE
  /\ peer' = "none" /\ ended' = FALSE /\ gathered' = 0 /\ due' = {}

\* The session's future returns and drops the peer and its channels.
Ends ==
  /\ Reset
  /\ UNCHANGED <<loop, inbound, outbound, pushes, tasks>>

\* build_peer, the desktop's track or a description fails: the offer gets no
\* answer.
SetupFails == Runs /\ phase \in {"building", "sourcing"} /\ Ends

\* A desktop offer needs its source before the answer.
NeedSource ==
  /\ Runs /\ phase = "building" /\ cur \in Desktop
  /\ phase' = "sourcing"
  /\ UNCHANGED <<loop, inbound, outbound, pushes, cur, curN, approve, peer, ended, gathered,
                 due, tasks>>

\* set_remote_description, create_answer, set_local_description: the peer lives.
Describe(ok) ==
  /\ peer' = "up" /\ phase' = "answering" /\ approve' = ok
  /\ UNCHANGED <<loop, inbound, outbound, pushes, cur, curN, ended, gathered, due, tasks>>

\* The peer is built and described.
BuildPeer == Runs /\ phase = "building" /\ cur \notin Desktop /\ Describe(cur \in Terminal)

\* The first frame came, and the offer is approved; or it did not.
SourceDecided == Runs /\ phase = "sourcing" /\ \E ok \in BOOLEAN : Describe(ok)

\* send_answer waits for a place in outbound; nobody reads inbound meanwhile.
AnswerOffer ==
  /\ Runs /\ phase = "answering" /\ approve /\ Len(outbound) < OutboundCap
  /\ outbound' = Append(outbound, Answer(cur, curN, TRUE))
  /\ phase' = "handshake" /\ approve' = FALSE
  /\ UNCHANGED <<loop, inbound, pushes, cur, curN, peer, ended, gathered, due, tasks>>

\* A refusal is answered too; then the peer is closed.
RefuseOffer ==
  /\ Runs /\ phase = "answering" /\ ~approve /\ Len(outbound) < OutboundCap
  /\ outbound' = Append(outbound, Answer(cur, curN, FALSE))
  /\ Reset
  /\ UNCHANGED <<loop, inbound, pushes, tasks>>

\* on_ice_candidate: the send is a task of its own.
Gathers ==
  /\ Runs /\ phase \in {"answering", "handshake", "serving"}
  /\ peer = "up" /\ gathered < MaxCands
  /\ gathered' = gathered + 1
  /\ tasks' = tasks \cup {Gathered(cur, curN + gathered)}
  /\ UNCHANGED <<loop, inbound, outbound, pushes, phase, cur, curN, approve, peer, ended,
                 due>>

\* The connection or its channel goes.  A channel that closes leaves a reason in
\* end_tx, unless its reader waits for a place to dispatch or its dispatcher is over.
PeerGoes ==
  /\ Runs /\ peer = "up"
  /\ peer' = "gone" /\ ended' \in BOOLEAN
  /\ UNCHANGED <<loop, inbound, outbound, pushes, phase, cur, curN, approve, gathered,
                 due, tasks>>

\* Mutant: a failed connection leaves no reason.
ConnectionFails_Unnoticed == FALSE /\ ended /\ UNCHANGED vars

\* The connection of a peer that is gone fails or closes: the first reason stays.
ConnectionFails ==
  /\ Runs /\ peer = "gone" /\ ~ended
  /\ ended' = TRUE
  /\ UNCHANGED <<loop, inbound, outbound, pushes, phase, cur, curN, approve, peer, gathered,
                 due, tasks>>

-----------------------------------------------------------------------------
(* route_inbound, in the handshake and while serving.                      *)

Routes == Runs /\ phase \in {"handshake", "serving"} /\ inbound # <<>>

RouteForeign ==
  /\ Routes /\ Head(inbound).type = "candidate" /\ Head(inbound).of # cur
  /\ inbound' = Tail(inbound)
  /\ UNCHANGED <<loop, outbound, pushes, session, tasks>>

\* apply_candidate: the remote description is set, so nothing is buffered.
RouteCandidate ==
  /\ Routes /\ IsOwn(Head(inbound))
  /\ inbound' = Tail(inbound)
  /\ due' = due \ {Head(inbound).n}
  /\ UNCHANGED <<loop, outbound, pushes, phase, cur, curN, approve, peer, ended, gathered,
                 tasks>>

\* An index out of range, or a candidate the peer rejects: the error ends the
\* session.
RouteRejected ==
  /\ Routes /\ IsOwn(Head(inbound))
  /\ inbound' = Tail(inbound)
  /\ Reset
  /\ UNCHANGED <<loop, outbound, pushes, tasks>>

RouteRedelivery ==
  /\ Routes /\ Head(inbound).type = "offer" /\ Head(inbound).of = cur
  /\ inbound' = Tail(inbound)
  /\ UNCHANGED <<loop, outbound, pushes, session, tasks>>

\* Mutant: a redelivery of the live session's offer is refused as well.
RefuseSecond_Any ==
  /\ Routes /\ Head(inbound).type = "offer"
  /\ inbound' = Tail(inbound)
  /\ tasks' = tasks \cup {Answer(Head(inbound).of, Head(inbound).n, FALSE)}
  /\ UNCHANGED <<loop, outbound, pushes, session>>

\* Another session's offer: refuse_second_offer, in a task of its own.
RefuseSecond ==
  /\ Routes /\ Head(inbound).type = "offer" /\ Head(inbound).of # cur
  /\ inbound' = Tail(inbound)
  /\ tasks' = tasks \cup {Answer(Head(inbound).of, Head(inbound).n, FALSE)}
  /\ UNCHANGED <<loop, outbound, pushes, session>>

-----------------------------------------------------------------------------
(* Detached tasks.                                                         *)

TaskSends(m) ==
  /\ Runs /\ m \in tasks /\ Len(outbound) < OutboundCap
  /\ outbound' = Append(outbound, m)
  /\ tasks' = tasks \ {m}
  /\ UNCHANGED <<loop, inbound, pushes, session>>

\* The peer of the refusal could not be built or described.
RefusalFails(m) ==
  /\ Runs /\ m \in tasks /\ m.type = "answer"
  /\ tasks' = tasks \ {m}
  /\ UNCHANGED <<loop, inbound, outbound, pushes, session>>

-----------------------------------------------------------------------------
(* The handshake and the session loop.  The handshake's select is biased:  *)
(* inbound first, then the end, then the opening, then the deadline.       *)

HandshakeWaits == Runs /\ phase = "handshake" /\ inbound = <<>>

\* The terminal channel opened, or the desktop's peer connected.
PeerOpens ==
  /\ HandshakeWaits /\ ~ended /\ peer = "up"
  /\ phase' = "serving"
  /\ UNCHANGED <<loop, inbound, outbound, pushes, cur, curN, approve, peer, ended,
                 gathered, due, tasks>>

\* Nothing opened within 20 s.
Deadline ==
  /\ HandshakeWaits /\ ~ended
  /\ Ends

HandshakeEnds ==
  /\ HandshakeWaits /\ ended
  /\ Ends

\* end_rx while serving.
SessionEnds ==
  /\ Runs /\ phase = "serving" /\ ended
  /\ Ends

\* The hourly cap, or a terminal's frames can no longer be sent.
SessionStops ==
  /\ Runs /\ phase = "serving"
  /\ Ends

\* A desktop stream ended by itself.  The loop took the task's result, and the
\* teardown polls the same JoinHandle again, which panics; the release profile
\* aborts on a panic.
StreamEnds ==
  /\ Runs /\ phase = "serving" /\ cur \in Desktop
  /\ link' = "exited" /\ ProcessGone

-----------------------------------------------------------------------------
Loop == \/ Connects \/ ConnectFails \/ Retry \/ SocketEnds \/ GoesSilent \/ Elapse
        \/ Shutdown \/ Send \/ SendFails

Browsers == \E s \in Sessions : BrowserOffers(s) \/ BrowserTrickles(s)

Between == IceDecided \/ IdleDrops \/ TakeOffer

Setup == SetupFails \/ NeedSource \/ BuildPeer \/ SourceDecided \/ AnswerOffer \/ RefuseOffer

Route == \/ RouteForeign \/ RouteCandidate \/ RouteRejected \/ RouteRedelivery
         \/ RefuseSecond

Tasks == \E m \in tasks : TaskSends(m) \/ RefusalFails(m)

Serve == \/ PeerOpens \/ Deadline \/ HandshakeEnds \/ SessionEnds \/ SessionStops
         \/ StreamEnds

Next == \/ Loop \/ Browsers \/ Between \/ Setup \/ Gathers
        \/ PeerGoes \/ ConnectionFails \/ Route \/ Tasks \/ Serve

Spec == Init /\ [][Next]_vars

\* The runtime runs every task that can run and fires every timer; a connect is
\* tried until it succeeds; the tasks are finitely many, so that each gets its
\* turn; the connection of a peer that is gone fails in the end, as the transport
\* finds.  Nobody owes an offer, a peer its opening, and the hourly cap is not
\* relied on.
Fairness ==
  /\ WF_vars(Connects) /\ WF_vars(Retry) /\ WF_vars(Send)
  /\ WF_vars(Between) /\ WF_vars(Setup) /\ WF_vars(Route) /\ WF_vars(Tasks)
  /\ WF_vars(Deadline) /\ WF_vars(HandshakeEnds) /\ WF_vars(SessionEnds)
  /\ WF_vars(ConnectionFails)

FairSpec == Spec /\ Fairness

-----------------------------------------------------------------------------
(* Properties.                                                             *)

\* Types, with the channels within their capacity and the backoff within its
\* range (signal.rs next_backoff, main.rs run_with_reconnect's channels).
TypeOK ==
  /\ link \in {"connecting", "up", "backoff", "stopped", "exited"}
  /\ delay \in BackoffInitial..BackoffMax
  /\ conns \in 0..MaxConns /\ fails \in 0..MaxFails
  /\ silent \in BOOLEAN /\ quiet \in 0..MaxTicks
  /\ inbound \in Seq(Inbound) /\ Len(inbound) <= InboundCap
  /\ outbound \in Seq(Outbound) /\ Len(outbound) <= OutboundCap
  /\ tasks \subseteq Outbound
  /\ pushes \in 0..MaxPushes
  /\ phase \in {"off", "ice", "idle", "building", "sourcing", "answering",
                "handshake", "serving"}
  /\ cur \in Sessions \cup {None} /\ curN \in 0..MaxPushes /\ approve \in BOOLEAN
  /\ peer \in {"none", "up", "gone"} /\ ended \in BOOLEAN
  /\ gathered \in 0..MaxCands
  /\ due \subseteq 1..MaxPushes

\* Every candidate that reached the agent for the session it serves, since it
\* took the offer, was given to the peer in order or is still queued: none is
\* lost while the peer is built and answered, however long outbound is full
\* (main.rs run_one_session, route_inbound; rtc.rs apply_candidate).
NoCandidateLost ==
  InSession =>
    /\ due = OwnIn(inbound, cur)
    /\ \A i, j \in 1..Len(inbound) : i < j => inbound[i].n < inbound[j].n

\* A redelivered offer never turns against the session it started: a refusal
\* on its way to the live session's browser answers a delivery from before
\* the one the session was started by (main.rs route_inbound).
RedeliveryHarmless ==
  \A m \in tasks \cup Elems(outbound) :
    m.type = "answer" /\ ~m.approved /\ m.of = cur => m.n < curN

\* A socket that had connected is retried after the initial delay, whatever
\* failures came before it (main.rs run_with_reconnect: "The backoff resets on
\* a successful connect").
QuickReconnect ==
  [][link = "up" /\ link' = "backoff" => delay' = BackoffInitial]_vars

\* The offer with this number waits in inbound, is being answered, or its answer
\* waits.
Undecided(n) ==
  \/ \E m \in Elems(inbound) : m.type = "offer" /\ m.n = n
  \/ \E m \in tasks \cup Elems(outbound) : m.type = "answer" /\ m.n = n
  \/ curN = n /\ phase \in {"building", "sourcing", "answering"}

\* An offer that got a place in inbound does not stay undecided: its verdict
\* leaves on a socket, or its delivery fails or is a redelivery, also when
\* sockets come and go and both channels fill up (signal.rs run, main.rs
\* supervise_sessions, route_inbound).
OffersAreDecided ==
  \A n \in 1..MaxPushes : Undecided(n) ~> ~Undecided(n)

\* A peer that is gone gives up the agent's one session slot without the hourly
\* cap, also when its channel closed without leaving a reason (main.rs
\* run_one_session's end_rx, rtc.rs SessionHandler).
SlotIsFreed == peer = "gone" ~> peer # "gone"

\* "IDLE_TIMEOUT is a real liveness check": a socket that is up heard from the
\* server within IDLE_TIMEOUT (signal.rs run).
SilentSocketEnds == link = "up" => quiet <= IdleTicks

\* The end of a session, its desktop stream's own end included, leaves the
\* process running (main.rs run_desktop_session's teardown).
SessionEndKeepsAgent == link # "exited"
===============================================================================
