------------------------------ MODULE SignalRelay ------------------------------
(***************************************************************************)
(* One session's signalling: the server's relay (apps/server/src/routes/   *)
(* ws.ts, signal.ts, utils/signals.ts, utils/cleanup.ts), the browser's    *)
(* WebSocketSignalTransport with its REST fallback                         *)
(* (packages/webrtc-core/src/transport.ts), and the agent's socket.        *)
(*                                                                         *)
(* The server runs each handler to its end: its database is synchronous    *)
(* and nothing it awaits yields to another socket's frame.  What is spread *)
(* over several steps is the paged replay, which the client drives, and    *)
(* everything that travels on a socket or in a request.  A signal's        *)
(* identity is its place in rows, the order of rowid.                      *)
(***************************************************************************)
EXTENDS Naturals, Sequences, FiniteSets

CONSTANTS
  MaxSent,     \* bound on the signals the browser sends
  MaxAgent,    \* bound on the signals the agent sends
  MaxSockets,  \* bound on the sockets the browser opens; all but the last may fail
  MaxRetries,  \* maxRetries (5 in the code)
  PageSize,    \* REPLAY_LIMIT (200 in the code)
  PollSize,    \* rows in a poll's answer (50 in the code)
  Burst        \* agent frames the server may find in one read of the socket

ASSUME RelayAssumption ==
  /\ {MaxSent, MaxAgent, MaxRetries} \subseteq Nat
  /\ {MaxSockets, PageSize, PollSize, Burst} \subseteq Nat \ {0}

VARIABLES
  rows,      \* the session's signals by rowid
  expired,   \* how many of the oldest rows are past expires_at
  reaped,    \* how many of them runCleanup has deleted
  status,    \* sessions.status
  reg,       \* the browser's sockets in browserConnections
  sub,       \* BrowserSubscription.state of the browser's current socket
  seen,      \* BrowserSubscription.replayedIds
  buf,       \* BrowserSubscription.buffer
  up,        \* frames on each socket to the server
  down,      \* frames on the current socket to the browser
  link,      \* where the transport is between connect, reconnect and hand-over
  sock,      \* the number of sockets created; the last one is this.ws
  awaiting,  \* awaitingAck
  pending,   \* pending
  cursor,    \* lastCursor, 0 for null
  retries,   \* retries
  sent,      \* how many signals PeerConnection has sent
  posts,     \* POSTs of the fallback in flight
  polls,     \* polls of the fallback in flight
  pollCursor,\* the fallback's cursor, 0 for null
  agentLink, \* the agent's socket: none, up, or dead with the server unaware
  agentOut,  \* frames on the agent's socket to the server
  agentSent, \* the agent's signals that were sent; the first is its answer
  agentIn,   \* history: the browser's signals the agent received
  heard,     \* history: signals delivered over sockets
  polled,    \* history: signals delivered by polls
  told,      \* history: the tab was told that the session is over
  overtaken  \* history: a read of the server held the answer and frames after it

database == <<rows, expired, reaped, status>>
server   == <<reg, sub, seen, buf>>
wires    == <<up, down>>
client   == <<link, sock, awaiting, pending, cursor, retries, sent, told>>
rest     == <<posts, polls, pollCursor>>
agent    == <<agentLink, agentOut, agentSent, agentIn>>
history  == <<heard, polled, overtaken>>
vars == <<database, server, wires, client, rest, agent, history>>

-----------------------------------------------------------------------------
(* Frames and helpers.                                                     *)

Sockets == 1..MaxSockets
Rows    == [from : {"browser", "agent"}, n : Nat]

Row(who, k) == [from |-> who, n |-> k]

Signal(i)       == [type |-> "signal", id |-> i, more |-> FALSE]
Subscribed(more) == [type |-> "subscribed", id |-> 0, more |-> more]
Terminated      == [type |-> "error", id |-> 0, more |-> FALSE]

Subscribe(after) == [type |-> "subscribe", arg |-> after]
SendFrame(k)     == [type |-> "signal", arg |-> k]

\* The agent's first signal is its answer.  Its candidates are sent by tasks of
\* their own, before or after.
IsAnswer(i) == rows'[i] = Row("agent", 1)

Alive == status \in {"pending", "active"}

Least(a, b) == IF a < b THEN a ELSE b
Most(a, b)  == IF a < b THEN b ELSE a

\* The rows a replay or poll skips: those up to the cursor and those expired.
\* A cursor whose row was deleted counts as none.
Before(after) == Most(IF after <= reaped THEN 0 ELSE after, expired)

\* One page of at most size rows after the cursor.
Page(after, size) ==
  LET lo == Before(after)
  IN  [k \in 1..Least(size, Len(rows) - lo) |-> lo + k]

Signals(ids) == [k \in 1..Len(ids) |-> Signal(ids[k])]
Ids(ids)     == {ids[k] : k \in 1..Len(ids)}

\* A set of numbers as an increasing sequence: the one member.
Increasing(S) ==
  {f \in [1..Cardinality(S) -> S] : \A i, j \in 1..Cardinality(S) : i < j => f[i] < f[j]}

\* The current socket as the server's pushes reach it.
Listening == link = "open" /\ sock \in reg

Init ==
  /\ rows = <<>> /\ expired = 0 /\ reaped = 0 /\ status = "pending"
  /\ reg = {} /\ sub = "none" /\ seen = {} /\ buf = <<>>
  /\ up = [s \in Sockets |-> <<>>] /\ down = <<>>
  /\ link = "minting" /\ sock = 0 /\ awaiting = FALSE /\ pending = <<>>
  /\ cursor = 0 /\ retries = 0 /\ sent = 0 /\ told = FALSE
  /\ posts = {} /\ polls = <<>> /\ pollCursor = 0
  /\ agentLink = "up" /\ agentOut = <<>> /\ agentSent = {} /\ agentIn = {}
  /\ heard = <<>> /\ polled = <<>> /\ overtaken = FALSE

-----------------------------------------------------------------------------
(* What handlers of the server share.                                      *)

\* pushToBrowser: to the subscribed socket unless it is the sender's; what is
\* pushed to sockets the browser has left reaches nobody.
Push(frames, sender) ==
  \/ /\ Listening /\ sock # sender /\ sub = "live"
     /\ down' = down \o frames
     /\ UNCHANGED buf
  \/ /\ Listening /\ sock # sender /\ sub = "replaying"
     /\ buf' = buf \o frames
     /\ UNCHANGED down
  \/ /\ ~Listening \/ sock = sender \/ sub = "none"
     /\ UNCHANGED <<down, buf>>

\* pushToAgent: best effort, lost on a socket the agent has left.
PushToAgent(k) ==
  agentIn' = IF agentLink = "up" THEN agentIn \cup {k} ELSE agentIn

\* recordSignal of one of the browser's signals, and the push to the agent.
RecordBrowser(k) ==
  /\ rows' = Append(rows, Row("browser", k))
  /\ PushToAgent(k)
  /\ UNCHANGED <<expired, reaped, status, agentLink, agentOut, agentSent>>

\* The session ends; subscribed browsers are told.
Terminate ==
  /\ status' = "terminated"
  /\ Push(<<Terminated>>, 0)

-----------------------------------------------------------------------------
(* The server: frames of the browser's sockets.                            *)

\* Mutant: the buffer is sent without regard to what the replay sent.
Drained_All(ids) == {buf}

\* drainBuffered: the pushes the replay did not already send, in their order.
Drained(ids) ==
  LET fresh == {k \in 1..Len(buf) :
                  buf[k].type # "signal" \/ buf[k].id \notin seen \cup Ids(ids)}
  IN  {[n \in 1..Len(f) |-> buf[f[n]]] : f \in Increasing(fresh)}

\* Mutant: one page is taken for the whole replay.
Replay_OnePage(after) ==
  LET ids == Page(after, PageSize)
  IN  \E late \in Drained(ids) :
      /\ seen' = seen \cup Ids(ids) \cup ({late[k].id : k \in 1..Len(late)} \ {0})
      /\ sub' = "live"
      /\ down' = down \o Signals(ids) \o late \o <<Subscribed(FALSE)>>
      /\ buf' = <<>>

\* handleBrowserSubscribe: one page, then either "more follows" with pushes
\* still buffered, or the buffer and the flip to live.
Replay(after) ==
  LET ids  == Page(after, PageSize)
      more == Len(rows) - Before(after) > PageSize
  IN  \E late \in Drained(ids) :
      /\ seen' = seen \cup Ids(ids)
                   \cup IF more THEN {} ELSE {late[k].id : k \in 1..Len(late)} \ {0}
      /\ \/ /\ more
            /\ sub' = "replaying"
            /\ down' = down \o Signals(ids) \o <<Subscribed(TRUE)>>
            /\ UNCHANGED buf
         \/ /\ ~more
            /\ sub' = "live"
            /\ down' = down \o Signals(ids) \o late \o <<Subscribed(FALSE)>>
            /\ buf' = <<>>

\* handleBrowserMessage.  A socket the browser has left is still read.
ReadBrowser(s) ==
  /\ s \in reg
  /\ up[s] # <<>>
  /\ up' = [up EXCEPT ![s] = Tail(@)]
  /\ LET f == Head(up[s])
     IN  \/ /\ f.type = "subscribe"
            /\ IF Listening /\ s = sock
               THEN Replay(f.arg) ELSE UNCHANGED <<sub, seen, buf, down>>
            /\ UNCHANGED <<database, agent>>
         \/ /\ f.type = "signal" /\ Alive
            /\ RecordBrowser(f.arg)
            /\ Push(<<Signal(Len(rows) + 1)>>, s)
            /\ UNCHANGED <<sub, seen>>
         \/ /\ f.type = "signal" /\ ~Alive
            /\ down' = IF Listening /\ s = sock THEN Append(down, Terminated) ELSE down
            /\ UNCHANGED <<database, sub, seen, buf, agent>>
  /\ UNCHANGED <<reg, client, rest, history>>

\* The server sees a socket close, or closes one that does not answer pings:
\* what it had not read is lost.
DropSocket(s) ==
  /\ s \in reg
  /\ link = "open" /\ s = sock => sock < MaxSockets
  /\ reg' = reg \ {s}
  /\ up' = [up EXCEPT ![s] = <<>>]
  /\ IF s = sock THEN sub' = "none" /\ seen' = {} /\ buf' = <<>>
                 ELSE UNCHANGED <<sub, seen, buf>>
  /\ UNCHANGED <<database, down, client, rest, agent, history>>

-----------------------------------------------------------------------------
(* The server: the agent's socket, sessions, time.                         *)

\* handleInboundMessage for the frames found in one read of the socket.  The
\* rows are inserted in order; recordSignal awaits once more for an answer,
\* so the other frames' pushes overtake the answer's.  Frames whose pushes keep
\* their order are as many reads of one.
ReadAgent ==
  /\ agentLink = "up"
  /\ \E k \in 1..Burst :
       /\ k <= Len(agentOut)
       /\ k = 1 \/ agentOut[1] = 1
       /\ overtaken' = (overtaken \/ k > 1)
       /\ agentOut' = SubSeq(agentOut, k + 1, Len(agentOut))
       /\ IF Alive
          THEN LET ids == (Len(rows) + 1)..(Len(rows) + k)
               IN  /\ rows' = rows \o [i \in 1..k |-> Row("agent", agentOut[i])]
                   /\ status' = IF \E i \in 1..k : agentOut[i] = 1 THEN "active" ELSE status
                   /\ \E answers \in Increasing({i \in ids : IsAnswer(i)}),
                         others \in Increasing({i \in ids : ~IsAnswer(i)}) :
                        Push(Signals(others \o answers), 0)
          ELSE UNCHANGED <<rows, status, down, buf>>
  /\ UNCHANGED <<expired, reaped, reg, sub, seen, up, client, rest,
                 agentLink, agentSent, agentIn, heard, polled>>

\* The agent's socket breaks; the server does not know yet.
AgentDrops ==
  /\ agentLink = "up"
  /\ agentLink' = "dead"
  /\ agentOut' = <<>>
  /\ UNCHANGED <<database, server, wires, client, rest, agentSent, agentIn, history>>

\* The close handler ends the agent's pending and active sessions ...
AgentClosed ==
  /\ agentLink = "dead"
  /\ agentLink' = "none"
  /\ IF Alive THEN Terminate ELSE UNCHANGED <<status, down, buf>>
  /\ UNCHANGED <<rows, expired, reaped, reg, sub, seen, up, client, rest,
                 agentOut, agentSent, agentIn, history>>

\* ... unless a newer socket of the agent has superseded the broken one.
AgentConnects ==
  /\ agentLink \in {"none", "dead"}
  /\ agentLink' = "up"
  /\ UNCHANGED <<database, server, wires, client, rest, agentOut, agentSent, agentIn, history>>

AgentSends ==
  /\ agentLink = "up"
  /\ 1 \in agentIn
  /\ \E k \in 1..MaxAgent \ agentSent :
       /\ agentSent' = agentSent \cup {k}
       /\ agentOut' = Append(agentOut, k)
  /\ UNCHANGED <<database, server, wires, client, rest, agentLink, agentIn, history>>

\* DELETE /api/sessions/:id
DeleteSession ==
  /\ Alive
  /\ Terminate
  /\ UNCHANGED <<rows, expired, reaped, reg, sub, seen, up, client, rest, agent, history>>

\* The oldest row reaches expires_at.  A push waits in a replay's buffer for
\* a round trip per page, a row lives for five minutes.
Expire ==
  /\ expired < Len(rows)
  /\ \A k \in 1..Len(buf) : buf[k].id # expired + 1
  /\ expired' = expired + 1
  /\ UNCHANGED <<rows, reaped, status, server, wires, client, rest, agent, history>>

\* runCleanup: expired rows are deleted, and a session that is still pending
\* an hour after it was created is ended without a word.
Cleanup ==
  /\ reaped' = expired
  /\ status' \in {status} \cup IF status = "pending" /\ expired = Len(rows)
                              THEN {"terminated"} ELSE {}
  /\ UNCHANGED <<rows, expired, server, wires, client, rest, agent, history>>

\* The server process restarts: sockets and subscriptions are gone, the
\* database stays and no close handler has run.
Restart ==
  /\ link = "open" /\ sock \in reg => sock < MaxSockets
  /\ reg' = {} /\ sub' = "none" /\ seen' = {} /\ buf' = <<>>
  /\ up' = [s \in Sockets |-> <<>>]
  /\ agentLink' = "none" /\ agentOut' = <<>>
  /\ UNCHANGED <<database, down, client, rest, agentSent, agentIn, history>>

-----------------------------------------------------------------------------
(* The browser: WebSocketSignalTransport.                                  *)

\* Mutant: the queue is left behind.
HandOff_KeepsQueue == link' = "handed" /\ UNCHANGED <<pending, posts, retries>>

\* handOffToFallback: for good; what was never sent goes out over REST.
HandOff ==
  /\ link' = "handed"
  /\ posts' = posts \cup {pending[k] : k \in 1..Len(pending)}
  /\ pending' = <<>>
  /\ UNCHANGED retries

\* Mutant: one attempt more than maxRetries.
ScheduleReconnect_OffByOne ==
  IF retries > MaxRetries THEN HandOff
  ELSE link' = "waiting" /\ retries' = retries + 1 /\ UNCHANGED <<pending, posts>>

\* scheduleReconnect
ScheduleReconnect ==
  IF retries >= MaxRetries THEN HandOff
  ELSE link' = "waiting" /\ retries' = retries + 1 /\ UNCHANGED <<pending, posts>>

\* connect: the ticket was minted and a socket created ...
MintSucceeds ==
  /\ link = "minting"
  /\ sock < MaxSockets
  /\ link' = "opening"
  /\ sock' = sock + 1
  /\ UNCHANGED <<database, server, wires, awaiting, pending, cursor, retries, sent, told,
                 rest, agent, history>>

\* ... or the server did not answer, or answered with a 5xx ...
MintFails ==
  /\ link = "minting"
  /\ ScheduleReconnect
  /\ UNCHANGED <<database, server, wires, sock, awaiting, cursor, sent, told,
                 polls, pollCursor, agent, history>>

\* ... or refused in a way a retry cannot fix.
MintRefused ==
  /\ link = "minting"
  /\ HandOff
  /\ UNCHANGED <<database, server, wires, sock, awaiting, cursor, sent, told,
                 polls, pollCursor, agent, history>>

\* The upgrade completes: the server registers the socket, the transport
\* subscribes from its cursor.
SocketOpens ==
  /\ link = "opening"
  /\ link' = "open"
  /\ retries' = 0
  /\ awaiting' = TRUE
  /\ up' = [up EXCEPT ![sock] = <<Subscribe(cursor)>>]
  /\ reg' = reg \cup {sock} /\ sub' = "none" /\ seen' = {} /\ buf' = <<>>
  /\ down' = <<>>
  /\ UNCHANGED <<database, sock, pending, cursor, sent, told, rest, agent, history>>

\* handleDisconnect: a socket fails to open or breaks; what had not arrived
\* is lost, what the server has not read yet it may still read.
Disconnect ==
  /\ link \in {"opening", "open"}
  /\ sock < MaxSockets
  /\ awaiting' = FALSE
  /\ down' = <<>>
  /\ ScheduleReconnect
  /\ UNCHANGED <<database, server, up, sock, cursor, sent, told, polls, pollCursor, agent, history>>

TimerFires ==
  /\ link = "waiting"
  /\ link' = "minting"
  /\ UNCHANGED <<database, server, wires, sock, awaiting, pending, cursor, retries, sent, told,
                 rest, agent, history>>

\* send
Send ==
  /\ sent < MaxSent
  /\ link # "closed"
  /\ sent' = sent + 1
  /\ \/ /\ link = "handed"
        /\ posts' = posts \cup {sent'}
        /\ UNCHANGED <<up, pending>>
     \/ /\ link = "open" /\ ~awaiting
        /\ up' = [up EXCEPT ![sock] = IF sock \in reg THEN Append(@, SendFrame(sent')) ELSE @]
        /\ UNCHANGED <<posts, pending>>
     \/ /\ link \notin {"handed"} /\ ~(link = "open" /\ ~awaiting)
        /\ pending' = Append(pending, sent')
        /\ UNCHANGED <<posts, up>>
  /\ UNCHANGED <<database, server, down, link, sock, awaiting, cursor, retries, told,
                 polls, pollCursor, agent, history>>

\* Mutant: the acknowledgement of a page is taken for the last one.
HearSubscribed_NoMore(more) ==
  /\ awaiting' = FALSE
  /\ IF more THEN UNCHANGED <<up, pending>>
     ELSE /\ up' = [up EXCEPT ![sock] = @ \o [k \in 1..Len(pending) |-> SendFrame(pending[k])]]
          /\ pending' = <<>>

\* Mutant: the queue is flushed and kept.
HearSubscribed_KeepsQueue(more) ==
  /\ awaiting' = more
  /\ up' = [up EXCEPT ![sock] = IF more THEN Append(@, Subscribe(cursor))
                                ELSE @ \o [k \in 1..Len(pending) |-> SendFrame(pending[k])]]
  /\ UNCHANGED pending

\* handleSubscribed: the next page from the last signal heard, or the queue.
\* A frame sent to a server that has dropped the socket is lost.
HearSubscribed(more) ==
  /\ awaiting' = more
  /\ up' = [up EXCEPT ![sock] =
              IF sock \notin reg THEN @
              ELSE IF more THEN Append(@, Subscribe(cursor))
              ELSE @ \o [k \in 1..Len(pending) |-> SendFrame(pending[k])]]
  /\ pending' = IF more THEN pending ELSE <<>>

\* handleFrame
Receive ==
  /\ link = "open"
  /\ down # <<>>
  /\ LET f == Head(down)
     IN  \/ /\ f.type = "subscribed"
            /\ HearSubscribed(f.more)
            /\ down' = Tail(down)
            /\ UNCHANGED <<link, cursor, retries, told, posts, heard>>
         \/ /\ f.type = "signal"
            /\ cursor' = f.id
            /\ heard' = Append(heard, f.id)
            /\ down' = Tail(down)
            /\ UNCHANGED <<link, awaiting, pending, up, retries, told, posts>>
         \/ /\ f.type = "error"
            /\ told' = TRUE
            /\ HandOff
            /\ down' = <<>>
            /\ UNCHANGED <<awaiting, up, cursor, heard>>
  /\ UNCHANGED <<database, server, sock, sent, polls, pollCursor, agent, polled, overtaken>>

\* close, by PeerConnection.close
Close ==
  /\ link # "closed"
  /\ link' = "closed"
  /\ down' = <<>>
  /\ UNCHANGED <<database, server, up, sock, awaiting, pending, cursor, retries, sent, told,
                 rest, agent, history>>

-----------------------------------------------------------------------------
(* The browser: RESTPollingTransport as the fallback, and its routes.      *)

\* POST /api/signal/... reaches the server; requests overtake one another.
PostArrives(k) ==
  /\ k \in posts
  /\ posts' = posts \ {k}
  /\ IF Alive THEN RecordBrowser(k) ELSE UNCHANGED <<database, agent>>
  /\ UNCHANGED <<server, wires, client, polls, pollCursor, history>>

PostLost(k) ==
  /\ k \in posts
  /\ posts' = posts \ {k}
  /\ UNCHANGED <<database, server, wires, client, polls, pollCursor, agent, history>>

\* Mutant: a second poll may start while one is in flight.
Poll_Overlapping ==
  /\ link = "handed"
  /\ Len(polls) < 2
  /\ polls' = Append(polls, [at |-> "asked", after |-> pollCursor, ids |-> <<>>])
  /\ UNCHANGED <<database, server, wires, client, posts, pollCursor, agent, history>>

\* poll: the timer fires and no poll is in flight.
Poll ==
  /\ link = "handed"
  /\ polls = <<>>
  /\ polls' = Append(polls, [at |-> "asked", after |-> pollCursor, ids |-> <<>>])
  /\ UNCHANGED <<database, server, wires, client, posts, pollCursor, agent, history>>

\* GET /api/signal/poll/:sessionId, whatever the session's status
PollServed ==
  /\ \E i \in 1..Len(polls) :
       /\ polls[i].at = "asked"
       /\ polls' = [polls EXCEPT ![i] = [@ EXCEPT !.at = "answered", !.ids = Page(polls[i].after, PollSize)]]
  /\ UNCHANGED <<database, server, wires, client, posts, pollCursor, agent, history>>

\* The answer is delivered; a transport closed meanwhile has no subscribers.
PollReturns ==
  /\ \E i \in 1..Len(polls) :
       /\ polls[i].at = "answered"
       /\ polls' = SubSeq(polls, 1, i - 1) \o SubSeq(polls, i + 1, Len(polls))
       /\ LET ids == polls[i].ids
          IN  /\ pollCursor' = IF ids = <<>> THEN pollCursor ELSE ids[Len(ids)]
              /\ polled' = IF link = "handed" THEN polled \o ids ELSE polled
  /\ UNCHANGED <<database, server, wires, client, posts, agent, heard, overtaken>>

PollFails ==
  /\ \E i \in 1..Len(polls) : polls' = SubSeq(polls, 1, i - 1) \o SubSeq(polls, i + 1, Len(polls))
  /\ UNCHANGED <<database, server, wires, client, posts, pollCursor, agent, history>>

-----------------------------------------------------------------------------

ServerStep ==
  \/ \E s \in Sockets : ReadBrowser(s) \/ DropSocket(s)
  \/ ReadAgent
  \/ AgentClosed
  \/ DeleteSession
  \/ Expire
  \/ Cleanup
  \/ Restart

AgentStep == AgentDrops \/ AgentConnects \/ AgentSends

SocketStep ==
  \/ MintSucceeds \/ MintFails \/ MintRefused
  \/ SocketOpens \/ Disconnect \/ TimerFires
  \/ Send \/ Receive \/ Close

RestStep ==
  \/ \E k \in posts : PostArrives(k) \/ PostLost(k)
  \/ Poll \/ PollServed \/ PollReturns \/ PollFails

Next == ServerStep \/ AgentStep \/ SocketStep \/ RestStep

Spec == Init /\ [][Next]_vars

\* The server reads what arrives; the browser's timers fire, its requests end
\* one way or the other, a broken socket is noticed, and a poll that is tried
\* again and again gets through.  The agent reconnects.  Nobody owes a signal.
Fairness ==
  /\ \A s \in Sockets : WF_vars(ReadBrowser(s))
  /\ WF_vars(ReadAgent)
  /\ WF_vars(AgentConnects)
  /\ WF_vars(MintSucceeds \/ MintFails \/ MintRefused)
  /\ WF_vars(SocketOpens)
  /\ WF_vars(sock \notin reg /\ Disconnect)
  /\ WF_vars(TimerFires)
  /\ WF_vars(Receive)
  /\ \A k \in 1..MaxSent : WF_vars(PostArrives(k) \/ PostLost(k))
  /\ WF_vars(Poll)
  /\ SF_vars(PollServed)
  /\ SF_vars(PollReturns)

FairSpec == Spec /\ Fairness

-----------------------------------------------------------------------------
(* Properties.                                                             *)

InFrame  == [type : {"subscribe", "signal"}, arg : Nat]
OutFrame == [type : {"signal", "subscribed", "error"}, id : Nat, more : BOOLEAN]

\* Every variable has its type, and the transport never tries more often than
\* maxRetries before it hands over.
TypeOK ==
  /\ rows \in Seq(Rows)
  /\ expired \in 0..Len(rows)
  /\ reaped \in 0..expired
  /\ status \in {"pending", "active", "terminated"}
  /\ reg \subseteq 1..sock
  /\ sub \in {"none", "replaying", "live"}
  /\ seen \subseteq 1..Len(rows)
  /\ buf \in Seq(OutFrame)
  /\ up \in [Sockets -> Seq(InFrame)]
  /\ down \in Seq(OutFrame)
  /\ link \in {"minting", "opening", "open", "waiting", "handed", "closed"}
  /\ sock \in 0..MaxSockets
  /\ awaiting \in BOOLEAN
  /\ pending \in Seq(1..MaxSent)
  /\ cursor \in 0..Len(rows)
  /\ retries \in 0..MaxRetries
  /\ sent \in 0..MaxSent
  /\ posts \subseteq 1..MaxSent
  /\ polls \in Seq([at : {"asked", "answered"}, after : Nat, ids : Seq(Nat)])
  /\ pollCursor \in 0..Len(rows)
  /\ agentLink \in {"none", "up", "dead"}
  /\ agentOut \in Seq(1..MaxAgent)
  /\ agentSent \subseteq 1..MaxAgent
  /\ agentIn \subseteq 1..MaxSent
  /\ heard \in Seq(1..Len(rows))
  /\ polled \in Seq(1..Len(rows))
  /\ told \in BOOLEAN /\ overtaken \in BOOLEAN

Feed == INSTANCE SignalFeed WITH
          log    <- IF overtaken THEN <<>> ELSE [i \in 1..Len(rows) |-> rows[i].from],
          gone   <- IF overtaken THEN 0 ELSE expired,
          got    <- IF overtaken THEN <<>> ELSE heard,
          intact <- ~overtaken

\* transport.ts 344-347: what the tab hears over its sockets, across
\* reconnects, pages and pushes that race them, is an in-order feed without
\* repetition that skips only what expired, until a read of the server holds
\* the answer and frames after it.
ImplementsFeed == Feed!Spec

\* An idle subscription is complete: once the replay is acknowledged and
\* nothing is on its way, every signal of the agent was heard or has expired,
\* as long as no push overtook the answer's (ws.ts handleBrowserSubscribe).
CaughtUp ==
  ~overtaken /\ Listening /\ sub = "live" /\ ~awaiting /\ down = <<>> =>
    \A i \in 1..Len(rows) :
      rows[i].from = "agent" => i <= expired \/ \E k \in 1..Len(heard) : heard[k] = i

\* transport.ts 344-348 (D6): a signal of the browser is recorded once at
\* most, whatever was queued, sent, lost and handed over.
RecordedOnce ==
  \A i, j \in 1..Len(rows) :
    rows[i].from = "browser" /\ rows[j].from = "browser" /\ rows[i].n = rows[j].n => i = j

\* transport.ts 62-75: polls never deliver a signal twice or out of order.
PolledInOrder == \A i, j \in 1..Len(polled) : i < j => polled[i] < polled[j]

\* A signal of the agent reaches the tab, by a socket or by a poll, unless it
\* expires first, the tab closes its transport, or a push overtook the
\* answer's: a cursor past the answer then skips it for good.
SignalsArrive ==
  \A i \in 1..(MaxSent + MaxAgent) :
    (i <= Len(rows) /\ rows[i].from = "agent") ~>
      \/ i <= expired
      \/ link = "closed" \/ overtaken
      \/ \E k \in 1..Len(heard) : heard[k] = i
      \/ \E k \in 1..Len(polled) : polled[k] = i

\* A queued signal does not wait for ever: the subscription it waits for is
\* acknowledged, or the fallback takes it.
QueueLeaves == pending # <<>> ~> pending = <<>> \/ link = "closed"

-----------------------------------------------------------------------------
(* What comments in the code say and the code does not do.                 *)

\* ws.ts 138-143: "Ordering is enforced by construction".
HeardInOrder == \A i, j \in 1..Len(heard) : i < j => heard[i] < heard[j]

\* transport.ts 348-350: "a fallback handover resumes exactly where the socket
\* left off": no poll delivers again what a socket delivered.
HandoverResumes ==
  \A i \in 1..Len(heard), j \in 1..Len(polled) : heard[i] # polled[j]

=============================================================================
