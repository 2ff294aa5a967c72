--------------------------- MODULE SignalRelayProofs ---------------------------
(***************************************************************************)
(* Safety of SignalRelay for any number of signals, sockets, retries, page *)
(* sizes and bursts: types, what is recorded once, what polls deliver.     *)
(***************************************************************************)
EXTENDS SignalRelay, FiniteSetTheorems, SequenceTheorems, TLAPS

LEMMA Constants ==
  /\ MaxSent \in Nat /\ MaxAgent \in Nat /\ MaxRetries \in Nat
  /\ MaxSockets \in Nat \ {0} /\ PageSize \in Nat \ {0} /\ PollSize \in Nat \ {0}
  /\ Burst \in Nat \ {0}
BY RelayAssumption

-----------------------------------------------------------------------------
(* Frames, pages and what is drained.                                      *)

\* Frames to the browser and to the server, when n signals are recorded.
OutFrames(n) == {f \in OutFrame : IF f.type = "signal" THEN f.id \in 1..n ELSE f.id = 0}
InFrames(n)  == {f \in InFrame : IF f.type = "signal" THEN f.arg \in 1..MaxSent ELSE f.arg \in 0..n}

\* What a poll may carry.
PollSet(n) == [at : {"asked", "answered"}, after : 0..n, ids : Seq(1..n)]

LEMMA FrameFacts ==
  ASSUME NEW n \in Nat
  PROVE  /\ \A i \in 1..n : /\ Signal(i) \in OutFrames(n) /\ Signal(i).type = "signal"
                            /\ Signal(i).id = i
         /\ \A more \in BOOLEAN : /\ Subscribed(more) \in OutFrames(n)
                                  /\ Subscribed(more).type = "subscribed"
                                  /\ Subscribed(more).more = more
         /\ Terminated \in OutFrames(n) /\ Terminated.type = "error"
         /\ \A k \in 1..MaxSent : /\ SendFrame(k) \in InFrames(n) /\ SendFrame(k).type = "signal"
                                  /\ SendFrame(k).arg = k
         /\ \A after \in 0..n : /\ Subscribe(after) \in InFrames(n)
                                /\ Subscribe(after).type = "subscribe" /\ Subscribe(after).arg = after
<1>1. ASSUME NEW i \in 1..n
      PROVE  Signal(i) \in OutFrames(n) /\ Signal(i).type = "signal" /\ Signal(i).id = i
  <2>1. i \in Nat /\ FALSE \in BOOLEAN
    OBVIOUS
  <2>2. Signal(i) \in OutFrame
    BY <2>1, Zenon DEF Signal, OutFrame
  <2> QED
    BY <2>2 DEF Signal, OutFrames
<1>2. ASSUME NEW more \in BOOLEAN
      PROVE  /\ Subscribed(more) \in OutFrames(n) /\ Subscribed(more).type = "subscribed"
             /\ Subscribed(more).more = more
  <2>1. 0 \in Nat
    OBVIOUS
  <2>2. Subscribed(more) \in OutFrame
    BY <2>1, Zenon DEF Subscribed, OutFrame
  <2> QED
    BY <2>2 DEF Subscribed, OutFrames
<1>3. Terminated \in OutFrames(n) /\ Terminated.type = "error"
  <2>1. 0 \in Nat /\ FALSE \in BOOLEAN
    OBVIOUS
  <2>2. Terminated \in OutFrame
    BY <2>1, Zenon DEF Terminated, OutFrame
  <2> QED
    BY <2>2 DEF Terminated, OutFrames
<1>4. ASSUME NEW k \in 1..MaxSent
      PROVE  SendFrame(k) \in InFrames(n) /\ SendFrame(k).type = "signal" /\ SendFrame(k).arg = k
  BY Constants DEF SendFrame, InFrames, InFrame
<1>5. ASSUME NEW after \in 0..n
      PROVE  /\ Subscribe(after) \in InFrames(n) /\ Subscribe(after).type = "subscribe"
             /\ Subscribe(after).arg = after
  BY DEF Subscribe, InFrames, InFrame
<1> QED
  BY <1>1, <1>2, <1>3, <1>4, <1>5

\* What was a frame, or a poll, still is one when more is recorded.
LEMMA Grown ==
  ASSUME NEW n \in Nat, NEW m \in Nat, n <= m
  PROVE  /\ 0..n \subseteq 0..m /\ 1..n \subseteq 1..m
         /\ Seq(1..n) \subseteq Seq(1..m)
         /\ Seq(OutFrames(n)) \subseteq Seq(OutFrames(m))
         /\ Seq(InFrames(n)) \subseteq Seq(InFrames(m))
         /\ Seq(PollSet(n)) \subseteq Seq(PollSet(m))
<1>1. 0..n \subseteq 0..m /\ 1..n \subseteq 1..m
  OBVIOUS
<1>2. OutFrames(n) \subseteq OutFrames(m) /\ InFrames(n) \subseteq InFrames(m)
  BY <1>1 DEF OutFrames, InFrames
<1>3. Seq(1..n) \subseteq Seq(1..m)
  BY <1>1, SeqMonotonic
<1>4. PollSet(n) \subseteq PollSet(m)
  BY <1>1, <1>3 DEF PollSet
<1> QED
  BY <1>1, <1>2, <1>3, <1>4, SeqMonotonic

\* A sequence given by its elements.
LEMMA Listed ==
  ASSUME NEW S, NEW n \in Nat, NEW q \in [1..n -> S]
  PROVE  q \in Seq(S) /\ Len(q) = n
<1>1. q \in Seq(S)
  BY SeqDef
<1>2. DOMAIN q = 1..n /\ DOMAIN q = 1..Len(q) /\ Len(q) \in Nat
  BY <1>1, LenProperties
<1> QED
  BY <1>1, <1>2

LEMMA OneFrame ==
  ASSUME NEW S, NEW x \in S
  PROVE  <<x>> \in Seq(S) /\ Len(<<x>>) = 1 /\ <<x>>[1] = x /\ <<>> \in Seq(S)
OBVIOUS

LEMMA SignalsFacts ==
  ASSUME NEW n \in Nat, NEW ids \in Seq(1..n)
  PROVE  /\ Signals(ids) \in Seq(OutFrames(n)) /\ Len(Signals(ids)) = Len(ids)
         /\ \A k \in 1..Len(ids) : Signals(ids)[k] = Signal(ids[k])
         /\ Ids(ids) \subseteq 1..n
<1>1. Len(ids) \in Nat /\ \A k \in 1..Len(ids) : ids[k] \in 1..n
  BY LenProperties, ElementOfSeq
<1>2. Signals(ids) \in [1..Len(ids) -> OutFrames(n)]
  BY <1>1, FrameFacts DEF Signals
<1>3. Signals(ids) \in Seq(OutFrames(n)) /\ Len(Signals(ids)) = Len(ids)
  BY <1>1, <1>2, Listed
<1>4. \A k \in 1..Len(ids) : Signals(ids)[k] = Signal(ids[k])
  BY DEF Signals
<1>5. Ids(ids) \subseteq 1..n
  BY <1>1 DEF Ids
<1> QED
  BY <1>3, <1>4, <1>5

LEMMA IncreasingFacts ==
  ASSUME NEW S, IsFiniteSet(S), NEW f \in Increasing(S)
  PROVE  f \in Seq(S)
BY FS_CardinalityType, Listed DEF Increasing

\* What is drained are pushes the replay did not send.
LEMMA DrainedFacts ==
  ASSUME NEW n \in Nat, buf \in Seq(OutFrames(n)), NEW ids, NEW late \in Drained(ids)
  PROVE  /\ late \in Seq(OutFrames(n))
         /\ \A k \in 1..Len(late) : \E j \in 1..Len(buf) :
              /\ late[k] = buf[j]
              /\ buf[j].type # "signal" \/ buf[j].id \notin seen \cup Ids(ids)
<1> DEFINE fresh == {k \in 1..Len(buf) :
                       buf[k].type # "signal" \/ buf[k].id \notin seen \cup Ids(ids)}
<1>1. PICK f \in Increasing(fresh) : late = [k \in 1..Len(f) |-> buf[f[k]]]
  BY DEF Drained
<1>2. IsFiniteSet(fresh)
  <2>1. IsFiniteSet(1..Len(buf))
    BY LenProperties, FS_Interval
  <2>2. fresh \subseteq 1..Len(buf)
    OBVIOUS
  <2> QED
    BY <2>1, <2>2, FS_Subset
<1>3. f \in Seq(fresh)
  BY <1>2, IncreasingFacts
<1>4. Len(f) \in Nat /\ \A k \in 1..Len(f) : f[k] \in fresh
  BY <1>3, LenProperties, ElementOfSeq
<1>5. \A k \in 1..Len(f) : buf[f[k]] \in OutFrames(n)
  BY <1>4, ElementOfSeq
<1>6. late \in Seq(OutFrames(n)) /\ Len(late) = Len(f)
  BY <1>1, <1>4, <1>5, Listed
<1> QED
  BY <1>1, <1>4, <1>6

\* A page lists what follows the cursor and has not expired.
LEMMA PageFacts ==
  ASSUME rows \in Seq(Rows), expired \in 0..Len(rows), reaped \in 0..expired,
         NEW after \in 0..Len(rows), NEW size \in Nat \ {0}
  PROVE  LET lo == Before(after)  ids == Page(after, size)
         IN  /\ lo \in 0..Len(rows) /\ after <= lo /\ expired <= lo
             /\ lo = expired \/ lo = after
             /\ ids \in Seq(1..Len(rows))
             /\ Len(ids) = (IF size < Len(rows) - lo THEN size ELSE Len(rows) - lo)
             /\ \A k \in 1..Len(ids) : ids[k] = lo + k
<1> DEFINE lo == Before(after)
           len == IF size < Len(rows) - lo THEN size ELSE Len(rows) - lo
<1>1. Len(rows) \in Nat
  BY LenProperties
<1>2. lo \in 0..Len(rows) /\ after <= lo /\ expired <= lo /\ (lo = expired \/ lo = after)
  BY <1>1 DEF Before, Most
<1> HIDE DEF lo
<1>3. len \in Nat /\ len <= Len(rows) - lo
  BY <1>1, <1>2
<1>4. Page(after, size) = [k \in 1..len |-> lo + k]
  BY DEF Page, Least, lo
<1>5. \A k \in 1..len : lo + k \in 1..Len(rows)
  BY <1>1, <1>2, <1>3
<1> HIDE DEF len
<1>6. Page(after, size) \in [1..len -> 1..Len(rows)]
  BY <1>4, <1>5
<1>7. Page(after, size) \in Seq(1..Len(rows)) /\ Len(Page(after, size)) = len
  BY <1>3, <1>6, Listed
<1> QED
  BY <1>2, <1>4, <1>7 DEF lo, len

-----------------------------------------------------------------------------
(* Types.                                                                  *)

DatabaseTypes ==
  /\ rows \in Seq(Rows) /\ expired \in 0..Len(rows) /\ reaped \in 0..expired
  /\ status \in {"pending", "active", "terminated"}

SubTypes ==
  /\ sub \in {"none", "replaying", "live"} /\ seen \subseteq 1..Len(rows)
  /\ buf \in Seq(OutFrames(Len(rows)))

SocketTypes ==
  /\ sock \in 0..MaxSockets /\ reg \subseteq 1..sock
  /\ link \in {"minting", "opening", "open", "waiting", "handed", "closed"}
  /\ link \in {"opening", "open"} => sock # 0

WireTypes ==
  up \in [Sockets -> Seq(InFrames(Len(rows)))] /\ down \in Seq(OutFrames(Len(rows)))

ClientTypes ==
  /\ awaiting \in BOOLEAN /\ told \in BOOLEAN /\ pending \in Seq(1..MaxSent)
  /\ cursor \in 0..Len(rows) /\ retries \in 0..MaxRetries /\ sent \in 0..MaxSent

RestTypes ==
  posts \subseteq 1..MaxSent /\ polls \in Seq(PollSet(Len(rows))) /\ pollCursor \in 0..Len(rows)

AgentTypes ==
  /\ agentLink \in {"none", "up", "dead"} /\ agentOut \in Seq(1..MaxAgent)
  /\ agentSent \subseteq 1..MaxAgent /\ agentIn \subseteq 1..MaxSent

HistoryTypes ==
  /\ heard \in Seq(1..Len(rows)) /\ polled \in Seq(1..Len(rows))
  /\ overtaken \in BOOLEAN

TypeInv ==
  /\ DatabaseTypes /\ SubTypes /\ SocketTypes /\ WireTypes
  /\ ClientTypes /\ RestTypes /\ AgentTypes /\ HistoryTypes

\* Signals are only ever added to the log: by a socket or a post of the
\* browser, or by the agent.
RowAdded ==
  \/ \E k \in 1..MaxSent : rows' = Append(rows, Row("browser", k))
  \/ /\ ReadAgent
     /\ \E k \in 1..Len(agentOut) :
          rows' = rows \o [i \in 1..k |-> Row("agent", agentOut[i])]

LEMMA HeadFacts ==
  ASSUME NEW S, NEW q \in Seq(S), q # <<>>
  PROVE  /\ Head(q) \in S /\ Head(q) = q[1] /\ Tail(q) \in Seq(S)
         /\ Len(q) \in Nat \ {0} /\ Len(Tail(q)) = Len(q) - 1
         /\ \A i \in 1..Len(Tail(q)) : Tail(q)[i] = q[i + 1]
BY HeadTailProperties, EmptySeq, LenProperties

\* A frame the server reads.
LEMMA UpHead ==
  ASSUME WireTypes, NEW s \in Sockets, up[s] # <<>>
  PROVE  /\ Head(up[s]) \in InFrames(Len(rows)) /\ Tail(up[s]) \in Seq(InFrames(Len(rows)))
         /\ Head(up[s]).type = "signal" => Head(up[s]).arg \in 1..MaxSent
         /\ Head(up[s]).type = "subscribe" => Head(up[s]).arg \in 0..Len(rows)
<1>1. Head(up[s]) \in InFrames(Len(rows)) /\ Tail(up[s]) \in Seq(InFrames(Len(rows)))
  BY HeadFacts DEF WireTypes
<1> QED
  BY <1>1 DEF InFrames

LEMMA RowsMove ==
  ASSUME TypeInv, [Next]_vars
  PROVE  rows' = rows \/ RowAdded
<1>1. CASE \E s \in Sockets : ReadBrowser(s)
  <2>1. PICK s \in Sockets : ReadBrowser(s)
    BY <1>1
  <2>2. \/ rows' = rows
        \/ Head(up[s]).type = "signal" /\ rows' = Append(rows, Row("browser", Head(up[s]).arg))
    BY <2>1 DEF ReadBrowser, RecordBrowser, database
  <2>3. up[s] # <<>>
    BY <2>1 DEF ReadBrowser
  <2> QED
    BY <2>2, <2>3, UpHead DEF RowAdded, TypeInv
<1>2. CASE \E s \in Sockets : DropSocket(s)
  BY <1>2 DEF DropSocket, database
<1>3. CASE ReadAgent
  <2>1. PICK k \in 1..Burst :
          /\ k <= Len(agentOut)
          /\ \/ rows' = rows
             \/ rows' = rows \o [i \in 1..k |-> Row("agent", agentOut[i])]
    BY <1>3 DEF ReadAgent
  <2>2. k \in 1..Len(agentOut)
    BY <2>1, Constants, LenProperties DEF TypeInv, AgentTypes
  <2> QED
    BY <1>3, <2>1, <2>2 DEF RowAdded
<1>4. CASE AgentClosed \/ DeleteSession \/ Expire \/ Cleanup \/ Restart
  BY <1>4 DEF AgentClosed, DeleteSession, Expire, Cleanup, Restart, database
<1>5. CASE AgentStep
  BY <1>5 DEF AgentStep, AgentDrops, AgentConnects, AgentSends, database
<1>6. CASE SocketStep
  BY <1>6 DEF SocketStep, MintSucceeds, MintFails, MintRefused, SocketOpens, Disconnect,
              TimerFires, Send, Receive, Close, database
<1>7. CASE \E k \in posts : PostArrives(k)
  <2>1. PICK k \in posts : PostArrives(k)
    BY <1>7
  <2>2. rows' = rows \/ rows' = Append(rows, Row("browser", k))
    BY <2>1 DEF PostArrives, RecordBrowser, database
  <2> QED
    BY <2>2 DEF RowAdded, TypeInv, RestTypes
<1>8. CASE RestStep /\ ~\E k \in posts : PostArrives(k)
  BY <1>8 DEF RestStep, PostLost, Poll, PollServed, PollReturns, PollFails, database
<1>9. CASE UNCHANGED vars
  BY <1>9 DEF vars, database
<1> QED
  BY <1>1, <1>2, <1>3, <1>4, <1>5, <1>6, <1>7, <1>8, <1>9 DEF Next, ServerStep

\* What a burst of the agent adds.
LEMMA BurstRecorded ==
  ASSUME rows \in Seq(Rows), NEW q \in Seq(1..MaxAgent), NEW k \in Nat, k <= Len(q),
         rows' = rows \o [i \in 1..k |-> Row("agent", q[i])]
  PROVE  /\ rows' \in Seq(Rows) /\ Len(rows') = Len(rows) + k
         /\ \A i \in 1..Len(rows) : rows'[i] = rows[i]
         /\ \A i \in 1..k : rows'[Len(rows) + i] = Row("agent", q[i])
<1> DEFINE new == [i \in 1..k |-> Row("agent", q[i])]
<1>1. Len(q) \in Nat /\ Len(rows) \in Nat
  BY LenProperties
<1>2. \A i \in 1..k : q[i] \in Nat
  BY <1>1, ElementOfSeq, Constants
<1>3. \A i \in 1..k : Row("agent", q[i]) \in Rows
  BY <1>2 DEF Row, Rows
<1>4. new \in [1..k -> Rows] /\ \A i \in 1..k : new[i] = Row("agent", q[i])
  BY <1>3, Zenon
<1>5. rows' = rows \o new
  BY Zenon
<1> HIDE DEF new
<1>6. new \in Seq(Rows) /\ Len(new) = k
  BY <1>4, Listed
<1>7. /\ rows \o new \in Seq(Rows) /\ Len(rows \o new) = Len(rows) + k
      /\ \A i \in 1..(Len(rows) + k) :
           (rows \o new)[i] = IF i <= Len(rows) THEN rows[i] ELSE new[i - Len(rows)]
  BY <1>6, ConcatProperties
<1> DEFINE sum == rows \o new
<1> HIDE DEF sum
<1>9. ASSUME NEW i \in 1..k PROVE sum[Len(rows) + i] = new[i]
  <2>1. Len(rows) + i \in 1..(Len(rows) + k) /\ ~(Len(rows) + i <= Len(rows))
        /\ (Len(rows) + i) - Len(rows) = i
    BY <1>1
  <2> QED
    BY <1>7, <2>1 DEF sum
<1> QED
  BY <1>1, <1>4, <1>5, <1>7, <1>9 DEF sum

LEMMA RowsGrow ==
  ASSUME TypeInv, [Next]_vars
  PROVE  /\ rows' \in Seq(Rows) /\ Len(rows) \in Nat /\ Len(rows') \in Nat
         /\ Len(rows) <= Len(rows') /\ \A i \in 1..Len(rows) : rows'[i] = rows[i]
<1> DEFINE Grows == /\ rows' \in Seq(Rows) /\ Len(rows) \in Nat /\ Len(rows') \in Nat
                    /\ Len(rows) <= Len(rows') /\ \A i \in 1..Len(rows) : rows'[i] = rows[i]
<1> SUFFICES Grows
  OBVIOUS
<1>1. rows \in Seq(Rows) /\ Len(rows) \in Nat
  BY LenProperties DEF TypeInv, DatabaseTypes
<1>2. CASE rows' = rows
  BY <1>1, <1>2
<1>3. ASSUME NEW k \in 1..MaxSent, rows' = Append(rows, Row("browser", k))
      PROVE  /\ rows' \in Seq(Rows) /\ Len(rows') = Len(rows) + 1
             /\ \A i \in 1..Len(rows) : rows'[i] = rows[i]
  <2>1. Row("browser", k) \in Rows
    BY Constants DEF Row, Rows
  <2> QED
    BY <1>1, <1>3, <2>1, AppendProperties
<1>5. CASE \E k \in 1..MaxSent : rows' = Append(rows, Row("browser", k))
  BY <1>1, <1>3, <1>5
<1>6. CASE \E k \in 1..Len(agentOut) : rows' = rows \o [i \in 1..k |-> Row("agent", agentOut[i])]
  <2>1. PICK k \in 1..Len(agentOut) : rows' = rows \o [i \in 1..k |-> Row("agent", agentOut[i])]
    BY <1>6
  <2>2. k \in Nat
    BY LenProperties DEF TypeInv, AgentTypes
  <2>3. /\ rows' \in Seq(Rows) /\ Len(rows') = Len(rows) + k
        /\ \A i \in 1..Len(rows) : rows'[i] = rows[i]
    <3>1. agentOut \in Seq(1..MaxAgent) /\ k <= Len(agentOut)
      BY LenProperties DEF TypeInv, AgentTypes
    <3> QED
      BY <1>1, <2>1, <2>2, <3>1, BurstRecorded
  <2> QED
    BY <1>1, <2>2, <2>3
<1> HIDE DEF Grows
<1> QED
  BY <1>2, <1>5, <1>6, RowsMove DEF RowAdded

LEMMA DatabaseStep ==
  ASSUME TypeInv, [Next]_vars
  PROVE  DatabaseTypes'
<1>1. /\ rows' \in Seq(Rows) /\ Len(rows) \in Nat /\ Len(rows') \in Nat
      /\ Len(rows) <= Len(rows')
  BY RowsGrow
<1> DEFINE Same == UNCHANGED <<expired, reaped, status>>
           Old == /\ expired \in 0..Len(rows) /\ reaped \in 0..expired
                  /\ status \in {"pending", "active", "terminated"}
<1>2. Old
  BY DEF TypeInv, DatabaseTypes
<1>3. CASE UNCHANGED <<expired, reaped>> /\ status' \in {status, "active", "terminated"}
  BY <1>1, <1>2, <1>3 DEF DatabaseTypes
<1>4. CASE \E s \in Sockets : ReadBrowser(s) \/ DropSocket(s)
  BY <1>3, <1>4 DEF ReadBrowser, RecordBrowser, DropSocket, database
<1>5. CASE ReadAgent
  <2>1. UNCHANGED <<expired, reaped>> /\ (status' = status \/ status' = "active")
    BY <1>5 DEF ReadAgent
  <2> QED
    BY <1>3, <2>1
<1>6. CASE AgentClosed \/ DeleteSession \/ Restart
  BY <1>3, <1>6 DEF AgentClosed, DeleteSession, Terminate, Restart, database
<1>7. CASE Expire
  BY <1>1, <1>2, <1>7 DEF Expire, DatabaseTypes
<1>8. CASE Cleanup
  <2>1. UNCHANGED <<rows, expired>> /\ reaped' = expired /\ status' \in {status, "terminated"}
    BY <1>8 DEF Cleanup
  <2> QED
    BY <1>1, <1>2, <2>1 DEF DatabaseTypes
<1>9. CASE AgentStep
  BY <1>3, <1>9 DEF AgentStep, AgentDrops, AgentConnects, AgentSends, database
<1>10. CASE SocketStep
  BY <1>3, <1>10 DEF SocketStep, MintSucceeds, MintFails, MintRefused, SocketOpens, Disconnect,
              TimerFires, Send, Receive, Close, database
<1>11. CASE RestStep
  BY <1>3, <1>11 DEF RestStep, PostArrives, RecordBrowser, PostLost, Poll, PollServed,
              PollReturns, PollFails, database
<1>12. CASE UNCHANGED vars
  BY <1>3, <1>12 DEF vars, database
<1> QED
  BY <1>4, <1>5, <1>6, <1>7, <1>8, <1>9, <1>10, <1>11, <1>12 DEF Next, ServerStep

\* A push, and a replay, leave frames on the socket and in the buffer.
LEMMA PushTypes ==
  ASSUME NEW n \in Nat, down \in Seq(OutFrames(n)), buf \in Seq(OutFrames(n)),
         NEW fs \in Seq(OutFrames(n)), NEW s, Push(fs, s)
  PROVE  down' \in Seq(OutFrames(n)) /\ buf' \in Seq(OutFrames(n))
<1>1. down \o fs \in Seq(OutFrames(n)) /\ buf \o fs \in Seq(OutFrames(n))
  BY ConcatProperties
<1> QED
  BY <1>1 DEF Push

LEMMA ReplayTypes ==
  ASSUME TypeInv, NEW after \in 0..Len(rows), Replay(after)
  PROVE  /\ down' \in Seq(OutFrames(Len(rows))) /\ buf' \in Seq(OutFrames(Len(rows)))
         /\ seen' \subseteq 1..Len(rows) /\ sub' \in {"replaying", "live"}
<1> DEFINE n == Len(rows)
           ids == Page(after, PageSize)
<1>1. n \in Nat /\ rows \in Seq(Rows) /\ expired \in 0..Len(rows) /\ reaped \in 0..expired
  BY LenProperties DEF TypeInv, DatabaseTypes
<1>2. ids \in Seq(1..n)
  BY <1>1, Constants, PageFacts
<1>3. down \in Seq(OutFrames(n)) /\ buf \in Seq(OutFrames(n)) /\ seen \subseteq 1..n
  BY DEF TypeInv, WireTypes, SubTypes
<1>4. PICK late \in Drained(ids) :
        /\ \/ seen' = seen \cup Ids(ids) \cup {}
           \/ seen' = seen \cup Ids(ids) \cup ({late[k].id : k \in 1..Len(late)} \ {0})
        /\ \/ /\ sub' = "replaying" /\ buf' = buf
              /\ down' = down \o Signals(ids) \o <<Subscribed(TRUE)>>
           \/ /\ sub' = "live" /\ buf' = <<>>
              /\ down' = down \o Signals(ids) \o late \o <<Subscribed(FALSE)>>
  BY DEF Replay
<1> HIDE DEF n, ids
<1>5. late \in Seq(OutFrames(n))
  BY <1>1, <1>3, DrainedFacts
<1>6. Signals(ids) \in Seq(OutFrames(n)) /\ Ids(ids) \subseteq 1..n
  BY <1>1, <1>2, SignalsFacts
<1>7. {late[k].id : k \in 1..Len(late)} \ {0} \subseteq 1..n
  <2>1. \A k \in 1..Len(late) : late[k] \in OutFrames(n)
    BY <1>5, ElementOfSeq
  <2> QED
    BY <2>1 DEF OutFrames
<1>8. /\ <<Subscribed(TRUE)>> \in Seq(OutFrames(n)) /\ <<Subscribed(FALSE)>> \in Seq(OutFrames(n))
      /\ <<>> \in Seq(OutFrames(n))
  <2>1. TRUE \in BOOLEAN /\ FALSE \in BOOLEAN
    OBVIOUS
  <2>2. Subscribed(TRUE) \in OutFrames(n) /\ Subscribed(FALSE) \in OutFrames(n)
    BY <1>1, <2>1, FrameFacts, Zenon
  <2> QED
    BY <2>2, OneFrame
<1>9. down \o Signals(ids) \in Seq(OutFrames(n))
  BY <1>3, <1>6, ConcatProperties
<1>10. down \o Signals(ids) \o late \in Seq(OutFrames(n))
  BY <1>5, <1>9, ConcatProperties
<1>11. /\ down \o Signals(ids) \o <<Subscribed(TRUE)>> \in Seq(OutFrames(n))
       /\ down \o Signals(ids) \o late \o <<Subscribed(FALSE)>> \in Seq(OutFrames(n))
  BY <1>8, <1>9, <1>10, ConcatProperties
<1>12. down' \in Seq(OutFrames(n)) /\ buf' \in Seq(OutFrames(n)) /\ sub' \in {"replaying", "live"}
  BY <1>3, <1>4, <1>8, <1>11
<1>13. seen' \subseteq 1..n
  BY <1>3, <1>4, <1>6, <1>7
<1> QED
  BY <1>12, <1>13 DEF n

\* What is on its way to the tab, and what waits for the replay to end.
LEMMA OutStep ==
  ASSUME TypeInv, [Next]_vars
  PROVE  down' \in Seq(OutFrames(Len(rows'))) /\ SubTypes'
<1> DEFINE n == Len(rows')
<1>1. Len(rows) \in Nat /\ n \in Nat /\ Len(rows) <= n
  BY RowsGrow
<1>2. /\ down \in Seq(OutFrames(Len(rows))) /\ buf \in Seq(OutFrames(Len(rows)))
      /\ seen \subseteq 1..Len(rows) /\ sub \in {"none", "replaying", "live"}
  BY DEF TypeInv, WireTypes, SubTypes
<1> HIDE DEF n
<1>3. /\ down \in Seq(OutFrames(n)) /\ buf \in Seq(OutFrames(n)) /\ seen \subseteq 1..n
      /\ <<>> \in Seq(OutFrames(n)) /\ {} \subseteq 1..n
  BY <1>1, <1>2, Grown
<1> DEFINE Goal == /\ down' \in Seq(OutFrames(n)) /\ buf' \in Seq(OutFrames(n))
                   /\ seen' \subseteq 1..n /\ sub' \in {"none", "replaying", "live"}
           Kept == UNCHANGED <<buf, seen, sub>>
<1> SUFFICES Goal
  BY DEF SubTypes, n
\* A push of one frame.
<1>a. ASSUME NEW f \in OutFrames(n), NEW s, Push(<<f>>, s), UNCHANGED <<seen, sub>> PROVE Goal
  <2>1. <<f>> \in Seq(OutFrames(n))
    OBVIOUS
  <2> QED
    BY <1>a, <1>1, <1>2, <1>3, <2>1, PushTypes
<1>b. CASE Kept /\ down' \in {down, <<>>}
  BY <1>b, <1>2, <1>3
<1>c. Terminated \in OutFrames(n)
  BY <1>1, FrameFacts
<1>d. CASE UNCHANGED <<down, buf, seen, sub>>
  BY <1>b, <1>d
<1>4. ASSUME NEW s \in Sockets, ReadBrowser(s) PROVE Goal
  <2> DEFINE f == Head(up[s])
  <2>1. up[s] # <<>>
    BY <1>4 DEF ReadBrowser
  <2>2. f \in InFrames(Len(rows)) /\ (f.type = "subscribe" => f.arg \in 0..Len(rows))
    BY <2>1, UpHead DEF TypeInv
  <2> HIDE DEF f
  <2>3. CASE f.type = "subscribe" /\ UNCHANGED rows /\ Replay(f.arg)
    <3>1. n = Len(rows)
      BY <2>3 DEF n
    <3> QED
      BY <2>2, <2>3, <3>1, ReplayTypes
  <2>4. CASE RecordBrowser(f.arg) /\ Push(<<Signal(Len(rows) + 1)>>, s) /\ UNCHANGED <<sub, seen>>
    <3>1. rows' = Append(rows, Row("browser", f.arg)) /\ f.arg \in Nat
      BY <2>2, <2>4 DEF RecordBrowser, InFrames, InFrame
    <3>2. rows \in Seq(Rows) /\ Row("browser", f.arg) \in Rows
      BY <3>1 DEF Row, Rows, TypeInv, DatabaseTypes
    <3>3. n = Len(rows) + 1
      BY <3>1, <3>2, AppendProperties DEF n
    <3>4. Signal(Len(rows) + 1) \in OutFrames(n)
      BY <1>1, <3>3, FrameFacts
    <3> QED
      BY <1>a, <2>4, <3>4
  <2>5. CASE Kept /\ down' = Append(down, Terminated)
    <3>1. down' \in Seq(OutFrames(n))
      BY <1>3, <1>c, <2>5, AppendProperties
    <3> QED
      BY <1>2, <1>3, <2>5, <3>1
  <2> QED
    BY <1>4, <1>d, <2>3, <2>4, <2>5 DEF ReadBrowser, database, f
<1>5. ASSUME NEW s \in Sockets, DropSocket(s) PROVE Goal
  BY <1>5, <1>2, <1>3 DEF DropSocket
<1>6. CASE ReadAgent
  <2>1. CASE UNCHANGED <<down, buf>>
    BY <1>6, <1>d, <2>1 DEF ReadAgent
  <2>2. ASSUME NEW k \in 1..Burst, k <= Len(agentOut),
               rows' = rows \o [i \in 1..k |-> Row("agent", agentOut[i])],
               NEW A \in SUBSET ((Len(rows) + 1)..(Len(rows) + k)),
               NEW B \in SUBSET ((Len(rows) + 1)..(Len(rows) + k)),
               NEW answers \in Increasing(A), NEW others \in Increasing(B),
               Push(Signals(others \o answers), 0)
        PROVE  Goal
    <3>1. rows' \in Seq(Rows) /\ n = Len(rows) + k
      <4>1. agentOut \in Seq(1..MaxAgent) /\ rows \in Seq(Rows) /\ k \in Nat
        BY Constants DEF TypeInv, AgentTypes, DatabaseTypes
      <4> QED
        BY <1>1, <2>2, <4>1, BurstRecorded DEF n
    <3>2. A \subseteq 1..n /\ B \subseteq 1..n
      BY <1>1, <3>1, Constants
    <3>3. IsFiniteSet(1..n)
      BY <1>1, FS_Interval
    <3>4. IsFiniteSet(A) /\ IsFiniteSet(B)
      BY <3>2, <3>3, FS_Subset
    <3>5. answers \in Seq(A) /\ others \in Seq(B)
      BY <3>4, IncreasingFacts
    <3>6. answers \in Seq(1..n) /\ others \in Seq(1..n)
      BY <3>2, <3>5, SeqMonotonic
    <3>7. others \o answers \in Seq(1..n)
      BY <3>6, ConcatProperties
    <3>8. Signals(others \o answers) \in Seq(OutFrames(n))
      BY <1>1, <3>7, SignalsFacts
    <3>9. UNCHANGED <<seen, sub>>
      BY <1>6 DEF ReadAgent
    <3> QED
      BY <1>1, <1>2, <1>3, <2>2, <3>8, <3>9, PushTypes
  <2> QED
    BY <1>6, <2>1, <2>2 DEF ReadAgent
<1>7. CASE AgentClosed \/ DeleteSession
  <2>1. UNCHANGED <<seen, sub>> /\ (UNCHANGED <<down, buf>> \/ Push(<<Terminated>>, 0))
    BY <1>7 DEF AgentClosed, DeleteSession, Terminate
  <2> QED
    BY <1>a, <1>c, <1>d, <2>1
<1>8. CASE Expire \/ Cleanup
  BY <1>8, <1>d DEF Expire, Cleanup, server, wires
<1>9. CASE Restart
  BY <1>9, <1>2, <1>3 DEF Restart
<1>10. CASE AgentStep
  BY <1>10, <1>d DEF AgentStep, AgentDrops, AgentConnects, AgentSends, server, wires
<1>11. CASE SocketOpens
  BY <1>11, <1>3 DEF SocketOpens
<1>12. CASE Receive
  <2>1. Kept /\ (down' = Tail(down) \/ down' = <<>>) /\ down # <<>>
    BY <1>12 DEF Receive, server
  <2>2. Tail(down) \in Seq(OutFrames(n))
    BY <1>3, <2>1, HeadFacts
  <2> QED
    BY <1>2, <1>3, <2>1, <2>2
<1>13. CASE SocketStep /\ ~(SocketOpens \/ Receive)
  BY <1>13, <1>b DEF SocketStep, MintSucceeds, MintFails, MintRefused, Disconnect,
              TimerFires, Send, Close, server, wires
<1>14. CASE RestStep
  BY <1>14, <1>d DEF RestStep, PostArrives, PostLost, Poll, PollServed, PollReturns, PollFails,
              server, wires
<1>15. CASE UNCHANGED vars
  BY <1>15, <1>d DEF vars, server, wires
<1> HIDE DEF Goal
<1> QED
  BY <1>4, <1>5, <1>6, <1>7, <1>8, <1>9, <1>10, <1>11, <1>12, <1>13, <1>14, <1>15
  DEF Next, ServerStep

\* The sockets: the server has those it was told of and has not dropped.
LEMMA SocketsStep ==
  ASSUME TypeInv, [Next]_vars
  PROVE  SocketTypes'
<1> DEFINE Same == UNCHANGED <<sock, reg, link>>
<1>1. /\ sock \in 0..MaxSockets /\ reg \subseteq 1..sock
      /\ link \in {"minting", "opening", "open", "waiting", "handed", "closed"}
      /\ link \in {"opening", "open"} => sock # 0
  BY DEF TypeInv, SocketTypes
<1>2. CASE reg' \subseteq reg /\ UNCHANGED <<sock, link>>
  BY <1>1, <1>2 DEF SocketTypes
<1>3. CASE UNCHANGED <<sock, reg>> /\ link' \in {link, "minting", "waiting", "handed", "closed"}
  BY <1>1, <1>3 DEF SocketTypes
<1>4. CASE ServerStep
  BY <1>2, <1>4 DEF ServerStep, ReadBrowser, DropSocket, ReadAgent, AgentClosed, DeleteSession,
              Expire, Cleanup, Restart, server, client
<1>5. CASE AgentStep
  BY <1>2, <1>5 DEF AgentStep, AgentDrops, AgentConnects, AgentSends, server, client
<1>6. CASE MintSucceeds
  BY <1>1, <1>6, Constants DEF MintSucceeds, server, SocketTypes
<1>7. CASE SocketOpens
  BY <1>1, <1>7, Constants DEF SocketOpens, SocketTypes
<1>8. CASE SocketStep /\ ~(MintSucceeds \/ SocketOpens)
  BY <1>3, <1>8 DEF SocketStep, MintFails, MintRefused, Disconnect, TimerFires, Send, Receive,
              Close, ScheduleReconnect, HandOff, server
<1>9. CASE RestStep
  BY <1>2, <1>9 DEF RestStep, PostArrives, PostLost, Poll, PollServed, PollReturns, PollFails,
              server, client
<1>10. CASE UNCHANGED vars
  BY <1>2, <1>10 DEF vars, server, client
<1> QED
  BY <1>4, <1>5, <1>6, <1>7, <1>8, <1>9, <1>10 DEF Next

\* The queue as it is flushed.
LEMMA FlushFacts ==
  ASSUME NEW n \in Nat, NEW q \in Seq(1..MaxSent)
  PROVE  LET fs == [k \in 1..Len(q) |-> SendFrame(q[k])]
         IN  /\ fs \in Seq(InFrames(n)) /\ Len(fs) = Len(q)
             /\ \A k \in 1..Len(q) : fs[k] = SendFrame(q[k])
<1> DEFINE fs == [k \in 1..Len(q) |-> SendFrame(q[k])]
<1>1. Len(q) \in Nat /\ \A k \in 1..Len(q) : q[k] \in 1..MaxSent
  BY LenProperties, ElementOfSeq
<1>2. \A k \in 1..Len(q) : SendFrame(q[k]) \in InFrames(n)
  BY <1>1, FrameFacts
<1>3. fs \in [1..Len(q) -> InFrames(n)] /\ \A k \in 1..Len(q) : fs[k] = SendFrame(q[k])
  BY <1>2, Zenon
<1> HIDE DEF fs
<1>4. fs \in Seq(InFrames(n)) /\ Len(fs) = Len(q)
  BY <1>1, <1>3, Listed
<1> QED
  BY <1>3, <1>4 DEF fs

\* What is on its way to the server.
LEMMA UpStep ==
  ASSUME TypeInv, [Next]_vars
  PROVE  up' \in [Sockets -> Seq(InFrames(Len(rows')))]
<1> DEFINE F == Seq(InFrames(Len(rows)))
<1>1. Len(rows) \in Nat /\ Len(rows') \in Nat /\ Len(rows) <= Len(rows')
  BY RowsGrow
<1>2. up \in [Sockets -> F]
  BY DEF TypeInv, WireTypes
<1>3. F \subseteq Seq(InFrames(Len(rows'))) /\ <<>> \in F
  BY <1>1, Grown
<1> HIDE DEF F
<1> SUFFICES up' \in [Sockets -> F]
  BY <1>3
<1>a. ASSUME NEW s, NEW q \in F, up' = [up EXCEPT ![s] = q] PROVE up' \in [Sockets -> F]
  BY <1>2, <1>a
<1>b. link = "open" => sock \in Sockets
  BY Constants DEF TypeInv, SocketTypes, Sockets
<1>c. pending \in Seq(1..MaxSent) /\ cursor \in 0..Len(rows) /\ sent \in 0..MaxSent
  BY DEF TypeInv, ClientTypes
<1>d. CASE up' = up
  BY <1>2, <1>d
<1>4. ASSUME NEW s \in Sockets, ReadBrowser(s) PROVE up' \in [Sockets -> F]
  <2>1. up' = [up EXCEPT ![s] = Tail(up[s])] /\ up[s] # <<>>
    BY <1>4 DEF ReadBrowser
  <2>2. Tail(up[s]) \in F
    BY <2>1, UpHead DEF F, TypeInv
  <2> QED
    BY <1>a, <2>1, <2>2
<1>5. ASSUME NEW s \in Sockets, DropSocket(s) PROVE up' \in [Sockets -> F]
  BY <1>a, <1>3, <1>5 DEF DropSocket
<1>6. CASE ReadAgent \/ AgentClosed \/ DeleteSession \/ Expire \/ Cleanup
  BY <1>d, <1>6 DEF ReadAgent, AgentClosed, DeleteSession, Expire, Cleanup, wires
<1>7. CASE Restart
  BY <1>3, <1>7 DEF Restart
<1>8. CASE AgentStep
  BY <1>d, <1>8 DEF AgentStep, AgentDrops, AgentConnects, AgentSends, wires
<1>9. CASE SocketOpens
  <2>1. <<Subscribe(cursor)>> \in F
    BY <1>1, <1>c, FrameFacts, OneFrame DEF F
  <2> QED
    BY <1>9, <1>a, <2>1 DEF SocketOpens
<1>10. CASE Send
  <2>1. up' = up \/ (link = "open" /\ up' = [up EXCEPT ![sock] = Append(up[sock], SendFrame(sent'))])
                 \/ (link = "open" /\ up' = [up EXCEPT ![sock] = up[sock]])
    BY <1>10 DEF Send
  <2>2. sent' \in 1..MaxSent
    BY <1>10, <1>c, Constants DEF Send
  <2>3. SendFrame(sent') \in InFrames(Len(rows))
    BY <1>1, <2>2, FrameFacts
  <2>4. link = "open" => up[sock] \in F
    BY <1>2, <1>b
  <2>5. link = "open" => Append(up[sock], SendFrame(sent')) \in F
    BY <2>3, <2>4, AppendProperties DEF F
  <2> QED
    BY <1>a, <1>d, <2>1, <2>4, <2>5
<1>11. CASE Receive
  <2> DEFINE fs == [k \in 1..Len(pending) |-> SendFrame(pending[k])]
  <2>1. \/ up' = up
        \/ up' = [up EXCEPT ![sock] = up[sock]]
        \/ up' = [up EXCEPT ![sock] = Append(up[sock], Subscribe(cursor))]
        \/ up' = [up EXCEPT ![sock] = up[sock] \o fs]
    BY <1>11 DEF Receive, HearSubscribed
  <2>2. fs \in F
    BY <1>1, <1>c, FlushFacts DEF F
  <2>3. up[sock] \in F
    BY <1>2, <1>11, <1>b DEF Receive
  <2> HIDE DEF fs
  <2>4. Subscribe(cursor) \in InFrames(Len(rows))
    BY <1>1, <1>c, FrameFacts
  <2>5. Append(up[sock], Subscribe(cursor)) \in F /\ up[sock] \o fs \in F
    BY <2>2, <2>3, <2>4, AppendProperties, ConcatProperties DEF F
  <2> QED
    BY <1>a, <1>d, <2>1, <2>3, <2>5
<1>12. CASE SocketStep /\ ~(SocketOpens \/ Send \/ Receive)
  BY <1>d, <1>12 DEF SocketStep, MintSucceeds, MintFails, MintRefused, Disconnect, TimerFires,
              Close, wires
<1>13. CASE RestStep
  BY <1>d, <1>13 DEF RestStep, PostArrives, PostLost, Poll, PollServed, PollReturns, PollFails,
              wires
<1>14. CASE UNCHANGED vars
  BY <1>d, <1>14 DEF vars, wires
<1> QED
  BY <1>4, <1>5, <1>6, <1>7, <1>8, <1>9, <1>10, <1>11, <1>12, <1>13, <1>14
  DEF Next, ServerStep

\* A frame the tab reads.
LEMMA DownHead ==
  ASSUME TypeInv, down # <<>>
  PROVE  /\ Head(down) = down[1] /\ Tail(down) \in Seq(OutFrames(Len(rows)))
         /\ Head(down).type = "signal" => Head(down).id \in 1..Len(rows)
         /\ Head(down).more \in BOOLEAN
<1>1. Head(down) \in OutFrames(Len(rows))
  BY HeadFacts DEF TypeInv, WireTypes
<1>2. Head(down) \in OutFrame
  BY <1>1 DEF OutFrames
<1>3. Head(down).more \in BOOLEAN
  BY <1>2, Zenon DEF OutFrame
<1> QED
  BY <1>1, <1>3, HeadFacts DEF OutFrames, TypeInv, WireTypes

LEMMA ClientStep ==
  ASSUME TypeInv, [Next]_vars
  PROVE  ClientTypes'
<1> DEFINE Same == UNCHANGED <<pending, cursor, retries, sent>>
           Goal == /\ pending' \in Seq(1..MaxSent) /\ cursor' \in 0..Len(rows)
                   /\ retries' \in 0..MaxRetries /\ sent' \in 0..MaxSent
<1>1. Len(rows) \in Nat /\ Len(rows') \in Nat /\ Len(rows) <= Len(rows')
  BY RowsGrow
<1>2. /\ awaiting \in BOOLEAN /\ told \in BOOLEAN /\ pending \in Seq(1..MaxSent)
      /\ cursor \in 0..Len(rows) /\ retries \in 0..MaxRetries /\ sent \in 0..MaxSent
  BY DEF TypeInv, ClientTypes
<1>3. awaiting' \in BOOLEAN
  <2>1. CASE Receive
    <3>1. awaiting' = awaiting \/ awaiting' = Head(down).more
      BY <2>1 DEF Receive, HearSubscribed
    <3>2. Head(down).more \in BOOLEAN
      BY <2>1, DownHead DEF Receive
    <3> QED
      BY <1>2, <3>1, <3>2, Zenon
  <2>2. CASE ~Receive
    <3>1. awaiting' = awaiting \/ awaiting' = TRUE \/ awaiting' = FALSE
      BY <2>2 DEF Next, ServerStep, ReadBrowser, DropSocket, ReadAgent, AgentClosed, DeleteSession,
              Expire, Cleanup, Restart, AgentStep, AgentDrops, AgentConnects, AgentSends,
              SocketStep, MintSucceeds, MintFails, MintRefused, SocketOpens, Disconnect,
              TimerFires, Send, Close, RestStep, PostArrives, PostLost, Poll, PollServed,
              PollReturns, PollFails, client, vars
    <3> QED
      BY <1>2, <3>1, Zenon
  <2> QED
    BY <2>1, <2>2
<1>4. told' \in BOOLEAN
  <2>1. told' = told \/ told' = TRUE
    BY DEF Next, ServerStep, ReadBrowser, DropSocket, ReadAgent, AgentClosed, DeleteSession,
           Expire, Cleanup, Restart, AgentStep, AgentDrops, AgentConnects, AgentSends,
           SocketStep, MintSucceeds, MintFails, MintRefused, SocketOpens, Disconnect,
           TimerFires, Send, Receive, Close, RestStep, PostArrives, PostLost, Poll, PollServed,
           PollReturns, PollFails, client, vars
  <2> QED
    BY <1>2, <2>1, Zenon
<1> HIDE DEF Goal
<1> SUFFICES Goal
  BY <1>1, <1>3, <1>4 DEF ClientTypes, Goal
<1>5. CASE Same
  BY <1>2, <1>5 DEF Goal
<1>6. CASE UNCHANGED <<cursor, sent>> /\ (HandOff \/ ScheduleReconnect)
  <2>1. pending' \in {pending, <<>>} /\ (retries' = retries \/ (~(retries >= MaxRetries) /\ retries' = retries + 1))
    BY <1>6 DEF ScheduleReconnect, HandOff
  <2>2. retries' \in 0..MaxRetries
    BY <1>2, <2>1, Constants
  <2>3. <<>> \in Seq(1..MaxSent)
    OBVIOUS
  <2> QED
    BY <1>2, <1>6, <2>1, <2>2, <2>3 DEF Goal
<1>7. CASE ServerStep
  BY <1>5, <1>7 DEF ServerStep, ReadBrowser, DropSocket, ReadAgent, AgentClosed, DeleteSession,
              Expire, Cleanup, Restart, client
<1>8. CASE AgentStep
  BY <1>5, <1>8 DEF AgentStep, AgentDrops, AgentConnects, AgentSends, client
<1>9. CASE MintFails \/ MintRefused \/ Disconnect
  BY <1>6, <1>9 DEF MintFails, MintRefused, Disconnect
<1>10. CASE SocketOpens
  BY <1>2, <1>10, Constants DEF SocketOpens, Goal
<1>11. CASE Send
  <2>1. sent' = sent + 1 /\ sent < MaxSent /\ UNCHANGED <<cursor, retries>>
        /\ (pending' = pending \/ pending' = Append(pending, sent'))
    BY <1>11 DEF Send
  <2>2. sent' \in 1..MaxSent
    BY <1>2, <2>1, Constants
  <2>3. pending' \in Seq(1..MaxSent)
    <3> DEFINE S == 1..MaxSent
    <3>1. pending \in Seq(S) /\ sent' \in S
      BY <1>2, <2>2
    <3> HIDE DEF S
    <3>2. Append(pending, sent') \in Seq(S)
      BY <3>1, AppendProperties
    <3> QED
      BY <2>1, <3>1, <3>2 DEF S
  <2>4. sent' \in 0..MaxSent
    BY <2>2
  <2> QED
    BY <1>2, <2>1, <2>3, <2>4 DEF Goal
<1>12. CASE Receive
  <2>1. /\ sent' = sent /\ retries' = retries /\ pending' \in {pending, <<>>}
        /\ cursor' = cursor \/ (Head(down).type = "signal" /\ cursor' = Head(down).id)
    BY <1>12 DEF Receive, HearSubscribed, HandOff
  <2>2. cursor' \in 0..Len(rows)
    BY <1>2, <1>12, <2>1, DownHead DEF Receive
  <2>3. <<>> \in Seq(1..MaxSent)
    OBVIOUS
  <2> QED
    BY <1>2, <2>1, <2>2, <2>3 DEF Goal
<1>13. CASE MintSucceeds \/ TimerFires \/ Close
  BY <1>5, <1>13 DEF MintSucceeds, TimerFires, Close
<1>14. CASE RestStep
  BY <1>5, <1>14 DEF RestStep, PostArrives, PostLost, Poll, PollServed, PollReturns, PollFails,
              client
<1>15. CASE UNCHANGED vars
  BY <1>5, <1>15 DEF vars, client
<1> QED
  BY <1>7, <1>8, <1>9, <1>10, <1>11, <1>12, <1>13, <1>14, <1>15 DEF Next, SocketStep

LEMMA AgentsStep ==
  ASSUME TypeInv, [Next]_vars
  PROVE  AgentTypes'
<1> DEFINE Same == UNCHANGED agent
<1>1. /\ agentLink \in {"none", "up", "dead"} /\ agentOut \in Seq(1..MaxAgent)
      /\ agentSent \subseteq 1..MaxAgent /\ agentIn \subseteq 1..MaxSent
      /\ <<>> \in Seq(1..MaxAgent)
  BY DEF TypeInv, AgentTypes
<1>2. CASE Same
  BY <1>1, <1>2 DEF AgentTypes, agent
<1>3. ASSUME NEW k \in 1..MaxSent, RecordBrowser(k) PROVE AgentTypes'
  BY <1>1, <1>3 DEF RecordBrowser, PushToAgent, AgentTypes
<1>4. ASSUME NEW s \in Sockets, ReadBrowser(s) PROVE AgentTypes'
  <2>1. up[s] # <<>>
    BY <1>4 DEF ReadBrowser
  <2>2. Same \/ (Head(up[s]).type = "signal" /\ RecordBrowser(Head(up[s]).arg))
    BY <1>4 DEF ReadBrowser, agent
  <2> QED
    BY <1>2, <1>3, <2>1, <2>2, UpHead DEF TypeInv
<1>5. CASE ReadAgent
  <2>1. PICK k \in 1..Burst : k <= Len(agentOut) /\ agentOut' = SubSeq(agentOut, k + 1, Len(agentOut))
    BY <1>5 DEF ReadAgent
  <2>2. Len(agentOut) \in Nat /\ k \in Nat
    BY <1>1, Constants, LenProperties
  <2>3. \A i \in (k + 1)..Len(agentOut) : agentOut[i] \in 1..MaxAgent
    <3>1. \A i \in 1..Len(agentOut) : agentOut[i] \in 1..MaxAgent
      BY <1>1, ElementOfSeq
    <3> QED
      BY <2>2, <3>1
  <2>4. SubSeq(agentOut, k + 1, Len(agentOut)) \in Seq(1..MaxAgent)
    BY <2>2, <2>3, SubSeqProperties
  <2> QED
    BY <1>1, <1>5, <2>1, <2>4 DEF ReadAgent, AgentTypes
<1>6. CASE AgentClosed \/ Restart \/ AgentDrops \/ AgentConnects
  BY <1>1, <1>6 DEF AgentClosed, Restart, AgentDrops, AgentConnects, AgentTypes
<1>7. CASE AgentSends
  <2>1. PICK k \in 1..MaxAgent \ agentSent :
          agentSent' = agentSent \cup {k} /\ agentOut' = Append(agentOut, k)
    BY <1>7 DEF AgentSends
  <2>2. agentOut' \in Seq(1..MaxAgent)
    BY <1>1, <2>1, AppendProperties
  <2> QED
    BY <1>1, <1>7, <2>1, <2>2 DEF AgentSends, AgentTypes
<1>8. ASSUME NEW s \in Sockets, DropSocket(s) PROVE AgentTypes'
  BY <1>2, <1>8 DEF DropSocket
<1>9. CASE DeleteSession \/ Expire \/ Cleanup
  BY <1>2, <1>9 DEF DeleteSession, Expire, Cleanup
<1>10. CASE SocketStep
  BY <1>2, <1>10 DEF SocketStep, MintSucceeds, MintFails, MintRefused, SocketOpens, Disconnect,
              TimerFires, Send, Receive, Close
<1>11. ASSUME NEW k \in posts, PostArrives(k) PROVE AgentTypes'
  <2>1. k \in 1..MaxSent
    BY DEF TypeInv, RestTypes
  <2> QED
    BY <1>2, <1>3, <1>11, <2>1 DEF PostArrives
<1>12. CASE RestStep /\ ~\E k \in posts : PostArrives(k)
  BY <1>2, <1>12 DEF RestStep, PostLost, Poll, PollServed, PollReturns, PollFails
<1>13. CASE UNCHANGED vars
  BY <1>2, <1>13 DEF vars
<1> QED
  BY <1>4, <1>5, <1>6, <1>7, <1>8, <1>9, <1>10, <1>11, <1>12, <1>13
  DEF Next, ServerStep, AgentStep

\* A sequence without one of its elements.
LEMMA Without ==
  ASSUME NEW S, NEW q \in Seq(S), NEW i \in 1..Len(q)
  PROVE  LET r == SubSeq(q, 1, i - 1) \o SubSeq(q, i + 1, Len(q))
         IN  r \in Seq(S) /\ Len(r) = Len(q) - 1
<1> DEFINE a == SubSeq(q, 1, i - 1)
           b == SubSeq(q, i + 1, Len(q))
<1>1. Len(q) \in Nat /\ \A k \in 1..Len(q) : q[k] \in S
  BY LenProperties, ElementOfSeq
<1>2. a \in Seq(S) /\ Len(a) = i - 1
  <2>1. \A k \in 1..(i - 1) : q[k] \in S
    BY <1>1
  <2> QED
    BY <1>1, <2>1, SubSeqProperties
<1>3. b \in Seq(S) /\ Len(b) = Len(q) - i
  <2>1. \A k \in (i + 1)..Len(q) : q[k] \in S
    BY <1>1
  <2> QED
    BY <1>1, <2>1, SubSeqProperties
<1> HIDE DEF a, b
<1>4. a \o b \in Seq(S) /\ Len(a \o b) = Len(a) + Len(b)
  BY <1>2, <1>3, ConcatProperties
<1>5. Len(a \o b) = Len(q) - 1
  BY <1>1, <1>2, <1>3, <1>4
<1> QED
  BY <1>4, <1>5 DEF a, b

\* An answer to a poll: the poll and the page it found.
LEMMA PollFacts ==
  ASSUME TypeInv, NEW i \in 1..Len(polls)
  PROVE  /\ polls[i] \in PollSet(Len(rows))
         /\ polls[i].after \in 0..Len(rows) /\ polls[i].ids \in Seq(1..Len(rows))
<1>1. polls[i] \in PollSet(Len(rows))
  BY ElementOfSeq DEF TypeInv, RestTypes
<1> QED
  BY <1>1 DEF PollSet

LEMMA PollsStep ==
  ASSUME TypeInv, [Next]_vars
  PROVE  RestTypes'
<1> DEFINE Same == UNCHANGED rest
           n == Len(rows)
           m == Len(rows')
           P == PollSet(n)
<1>1. n \in Nat /\ m \in Nat /\ n <= m
  BY RowsGrow
<1>2. /\ posts \subseteq 1..MaxSent /\ polls \in Seq(P) /\ pollCursor \in 0..n
      /\ pending \in Seq(1..MaxSent)
  BY DEF TypeInv, RestTypes, ClientTypes
<1>3. Seq(P) \subseteq Seq(PollSet(m)) /\ 0..n \subseteq 0..m
  BY <1>1, Grown
<1> HIDE DEF n, m, P
<1> SUFFICES posts' \subseteq 1..MaxSent /\ polls' \in Seq(P) /\ pollCursor' \in 0..n
  BY <1>3 DEF RestTypes, m
<1>a. CASE posts' \subseteq posts /\ UNCHANGED <<polls, pollCursor>>
  BY <1>2, <1>a
<1>4. CASE ServerStep
  BY <1>a, <1>4 DEF ServerStep, ReadBrowser, DropSocket, ReadAgent, AgentClosed, DeleteSession,
              Expire, Cleanup, Restart, rest
<1>5. CASE AgentStep
  BY <1>a, <1>5 DEF AgentStep, AgentDrops, AgentConnects, AgentSends, rest
<1>6. CASE SocketStep
  <2>1. UNCHANGED <<polls, pollCursor>>
    BY <1>6 DEF SocketStep, MintSucceeds, MintFails, MintRefused, SocketOpens, Disconnect,
                TimerFires, Send, Receive, Close, rest
  <2>2. \/ posts' = posts \/ posts' = posts \cup {pending[k] : k \in 1..Len(pending)}
        \/ Send /\ posts' = posts \cup {sent'}
    BY <1>6 DEF SocketStep, MintSucceeds, MintFails, MintRefused, SocketOpens, Disconnect,
                TimerFires, Send, Receive, Close, rest, HandOff, ScheduleReconnect
  <2>3. \A k \in 1..Len(pending) : pending[k] \in 1..MaxSent
    BY <1>2, ElementOfSeq
  <2>4. Send => sent' \in 1..MaxSent
    BY Constants DEF Send, TypeInv, ClientTypes
  <2>5. posts' \subseteq 1..MaxSent
    BY <1>2, <2>2, <2>3, <2>4
  <2> QED
    BY <1>2, <2>1, <2>5
<1>7. ASSUME NEW k \in posts, PostArrives(k) \/ PostLost(k)
      PROVE  posts' \subseteq 1..MaxSent /\ polls' \in Seq(P) /\ pollCursor' \in 0..n
  BY <1>a, <1>7 DEF PostArrives, PostLost
<1>8. CASE Poll
  <2> DEFINE new == [at |-> "asked", after |-> pollCursor, ids |-> <<>>]
  <2>1. <<>> \in Seq(1..n)
    OBVIOUS
  <2>2. new \in P
    BY <1>2, <2>1 DEF P, PollSet, n
  <2>3. polls' = Append(polls, new) /\ UNCHANGED <<posts, pollCursor>>
    BY <1>8 DEF Poll
  <2> HIDE DEF new
  <2>4. polls' \in Seq(P)
    BY <1>2, <2>2, <2>3, AppendProperties
  <2> QED
    BY <1>2, <2>3, <2>4
<1>9. CASE PollServed
  <2>1. PICK i \in 1..Len(polls) :
          polls' = [polls EXCEPT ![i] = [@ EXCEPT !.at = "answered", !.ids = Page(polls[i].after, PollSize)]]
    BY <1>9 DEF PollServed
  <2> DEFINE ids == Page(polls[i].after, PollSize)
             new == [polls[i] EXCEPT !.at = "answered", !.ids = ids]
  <2>2. ids \in Seq(1..n)
    BY PollFacts, PageFacts, Constants DEF TypeInv, DatabaseTypes, n
  <2> HIDE DEF ids
  <2>3. polls[i] \in P
    BY PollFacts DEF P, n
  <2>4. new \in P
    BY <2>2, <2>3 DEF P, PollSet, n
  <2>5. polls' = [polls EXCEPT ![i] = new]
    BY <2>1 DEF ids
  <2> HIDE DEF new
  <2>6. polls' \in Seq(P)
    BY <1>2, <2>4, <2>5, ExceptSeq
  <2> QED
    BY <1>2, <1>9, <2>6 DEF PollServed
<1>10. CASE PollReturns
  <2>1. PICK i \in 1..Len(polls) :
          /\ polls' = SubSeq(polls, 1, i - 1) \o SubSeq(polls, i + 1, Len(polls))
          /\ pollCursor' = IF polls[i].ids = <<>> THEN pollCursor
                           ELSE polls[i].ids[Len(polls[i].ids)]
    BY <1>10 DEF PollReturns
  <2>2. polls' \in Seq(P)
    BY <1>2, <2>1, Without
  <2>3. pollCursor' \in 0..n
    <3> DEFINE ids == polls[i].ids
    <3>1. ids \in Seq(1..n)
      BY PollFacts DEF n
    <3> HIDE DEF ids
    <3>2. ids # <<>> => Len(ids) \in 1..Len(ids)
      BY <3>1, EmptySeq
    <3>3. ids # <<>> => ids[Len(ids)] \in 1..n
      BY <3>1, <3>2, ElementOfSeq
    <3> QED
      BY <1>1, <1>2, <2>1, <3>3 DEF ids
  <2> QED
    BY <1>2, <1>10, <2>2, <2>3 DEF PollReturns
<1>11. CASE PollFails
  <2>1. PICK i \in 1..Len(polls) :
          polls' = SubSeq(polls, 1, i - 1) \o SubSeq(polls, i + 1, Len(polls))
    BY <1>11 DEF PollFails
  <2>2. polls' \in Seq(P)
    BY <1>2, <2>1, Without
  <2> QED
    BY <1>2, <1>11, <2>2 DEF PollFails
<1>12. CASE UNCHANGED vars
  BY <1>a, <1>12 DEF vars, rest
<1> QED
  BY <1>4, <1>5, <1>6, <1>7, <1>8, <1>9, <1>10, <1>11, <1>12 DEF Next, RestStep

LEMMA HistoryStep ==
  ASSUME TypeInv, [Next]_vars
  PROVE  HistoryTypes'
<1> DEFINE n == Len(rows)
           S == 1..n
<1>1. n \in Nat /\ Len(rows') \in Nat /\ n <= Len(rows')
  BY RowsGrow
<1>2. heard \in Seq(S) /\ polled \in Seq(S) /\ overtaken \in BOOLEAN
  BY DEF TypeInv, HistoryTypes
<1>3. Seq(S) \subseteq Seq(1..Len(rows'))
  BY <1>1, Grown
<1>a. down # <<>> /\ Head(down).type = "signal" => Head(down).id \in S
  BY DownHead
<1>b. \A i \in 1..Len(polls) : polls[i].ids \in Seq(S)
  BY PollFacts
<1> HIDE DEF n, S
<1> SUFFICES heard' \in Seq(S) /\ polled' \in Seq(S) /\ overtaken' \in BOOLEAN
  BY <1>3, Zenon DEF HistoryTypes
<1>c. overtaken' \in BOOLEAN
  <2>1. overtaken' = overtaken \/ ReadAgent
    BY DEF Next, ServerStep, ReadBrowser, DropSocket, AgentClosed, DeleteSession,
              Expire, Cleanup, Restart, AgentStep, AgentDrops, AgentConnects, AgentSends,
              SocketStep, MintSucceeds, MintFails, MintRefused, SocketOpens, Disconnect,
              TimerFires, Send, Receive, Close, RestStep, PostArrives, PostLost, Poll, PollServed,
              PollReturns, PollFails, history, vars
  <2>2. CASE ReadAgent
    <3>1. PICK k \in 1..Burst : overtaken' = (overtaken \/ k > 1)
      BY <2>2, Zenon DEF ReadAgent
    <3> QED
      BY <3>1, Zenon
  <2> QED
    BY <1>2, <2>1, <2>2
<1>4. heard' \in Seq(S)
  <2>1. heard' = heard \/ (down # <<>> /\ Head(down).type = "signal" /\ heard' = Append(heard, Head(down).id))
    BY DEF Next, ServerStep, ReadBrowser, DropSocket, ReadAgent, AgentClosed, DeleteSession,
              Expire, Cleanup, Restart, AgentStep, AgentDrops, AgentConnects, AgentSends,
              SocketStep, MintSucceeds, MintFails, MintRefused, SocketOpens, Disconnect,
              TimerFires, Send, Receive, Close, RestStep, PostArrives, PostLost, Poll, PollServed,
              PollReturns, PollFails, history, vars
  <2> QED
    BY <1>2, <1>a, <2>1, AppendProperties
<1>5. polled' \in Seq(S)
  <2>1. polled' = polled \/ \E i \in 1..Len(polls) : polled' = polled \o polls[i].ids
    BY DEF Next, ServerStep, ReadBrowser, DropSocket, ReadAgent, AgentClosed, DeleteSession,
              Expire, Cleanup, Restart, AgentStep, AgentDrops, AgentConnects, AgentSends,
              SocketStep, MintSucceeds, MintFails, MintRefused, SocketOpens, Disconnect,
              TimerFires, Send, Receive, Close, RestStep, PostArrives, PostLost, Poll, PollServed,
              PollReturns, PollFails, history, vars
  <2> QED
    BY <1>2, <1>b, <2>1, ConcatProperties
<1> QED
  BY <1>c, <1>4, <1>5

LEMMA TypesInit == Init => TypeInv
<1> SUFFICES ASSUME Init PROVE TypeInv
  OBVIOUS
<1>1. /\ <<>> \in Seq(Rows) /\ <<>> \in Seq(OutFrames(0)) /\ <<>> \in Seq(InFrames(0))
      /\ <<>> \in Seq(1..MaxSent) /\ <<>> \in Seq(PollSet(0)) /\ <<>> \in Seq(1..MaxAgent)
      /\ <<>> \in Seq(1..0) /\ Len(<<>>) = 0
  OBVIOUS
<1>2. Len(rows) = 0 /\ DatabaseTypes
  BY <1>1 DEF Init, DatabaseTypes
<1>3. SubTypes /\ SocketTypes
  BY <1>1, <1>2, Constants DEF Init, SubTypes, SocketTypes
<1>4. WireTypes
  BY <1>1, <1>2 DEF Init, WireTypes
<1>5. ClientTypes
  <2>1. awaiting \in BOOLEAN /\ told \in BOOLEAN
    BY Zenon DEF Init
  <2>2. /\ pending \in Seq(1..MaxSent) /\ cursor \in 0..Len(rows)
        /\ retries \in 0..MaxRetries /\ sent \in 0..MaxSent
    BY <1>1, <1>2, Constants DEF Init
  <2> QED
    BY <2>1, <2>2 DEF ClientTypes
<1>6. RestTypes /\ AgentTypes /\ HistoryTypes
  <2>1. overtaken \in BOOLEAN
    BY Zenon DEF Init
  <2>2. heard \in Seq(1..Len(rows)) /\ polled \in Seq(1..Len(rows))
    BY <1>1, <1>2 DEF Init
  <2>3. RestTypes /\ AgentTypes
    BY <1>1, <1>2 DEF Init, RestTypes, AgentTypes
  <2> QED
    BY <2>1, <2>2, <2>3 DEF HistoryTypes
<1> QED
  BY <1>2, <1>3, <1>4, <1>5, <1>6 DEF TypeInv

LEMMA TypesStep == TypeInv /\ [Next]_vars => TypeInv'
<1> SUFFICES ASSUME TypeInv, [Next]_vars PROVE TypeInv'
  OBVIOUS
<1>1. WireTypes' /\ SubTypes'
  BY OutStep, UpStep DEF WireTypes
<1> QED
  BY <1>1, DatabaseStep, SocketsStep, ClientStep, PollsStep, AgentsStep, HistoryStep DEF TypeInv

LEMMA TypesInvariance == Spec => []TypeInv
BY TypesInit, TypesStep, PTL DEF Spec

LEMMA TypesImply == TypeInv => TypeOK
<1> SUFFICES ASSUME TypeInv PROVE TypeOK
  OBVIOUS
<1>1. OutFrames(Len(rows)) \subseteq OutFrame /\ InFrames(Len(rows)) \subseteq InFrame
  BY DEF OutFrames, InFrames
<1>2. PollSet(Len(rows)) \subseteq [at : {"asked", "answered"}, after : Nat, ids : Seq(Nat)]
  <2>1. Len(rows) \in Nat
    BY LenProperties DEF TypeInv, DatabaseTypes
  <2>2. 0..Len(rows) \subseteq Nat /\ 1..Len(rows) \subseteq Nat
    BY <2>1
  <2>3. Seq(1..Len(rows)) \subseteq Seq(Nat)
    BY <2>2, SeqMonotonic
  <2> QED
    BY <2>2, <2>3 DEF PollSet
<1>3. /\ Seq(OutFrames(Len(rows))) \subseteq Seq(OutFrame) /\ Seq(InFrames(Len(rows))) \subseteq Seq(InFrame)
      /\ Seq(PollSet(Len(rows))) \subseteq Seq([at : {"asked", "answered"}, after : Nat, ids : Seq(Nat)])
  BY <1>1, <1>2, SeqMonotonic
<1>4. /\ buf \in Seq(OutFrame) /\ down \in Seq(OutFrame) /\ up \in [Sockets -> Seq(InFrame)]
      /\ polls \in Seq([at : {"asked", "answered"}, after : Nat, ids : Seq(Nat)])
  BY <1>3 DEF TypeInv, SubTypes, WireTypes, RestTypes
<1>5. awaiting \in BOOLEAN /\ told \in BOOLEAN /\ overtaken \in BOOLEAN
  BY DEF TypeInv, ClientTypes, HistoryTypes
<1> QED
  BY <1>4, <1>5 DEF TypeInv, TypeOK, DatabaseTypes, SubTypes, SocketTypes, ClientTypes, RestTypes,
                    AgentTypes, HistoryTypes

\* Every variable keeps its type: expiry never passes the log's end, cleanup
\* never passes expiry, and the transport has made at most maxRetries tries
\* (transport.ts scheduleReconnect; cleanup.ts runCleanup; ws.ts).
THEOREM RelayTypes == Spec => []TypeOK
BY TypesInvariance, TypesImply, PTL

-----------------------------------------------------------------------------
(* What polls deliver.  One poll is in flight at a time, asked at the      *)
(* fallback's cursor; what it found lies beyond everything delivered.      *)

Ascending(q) == \A i, j \in 1..Len(q) : i < j => q[i] < q[j]

Bound(q, n) == \A k \in 1..Len(q) : q[k] <= n

Beyond(q, n) == \A k \in 1..Len(q) : n < q[k]

PollInv ==
  /\ Len(polls) <= 1
  /\ \A i \in 1..Len(polls) : /\ polls[i].after = pollCursor
                              /\ Ascending(polls[i].ids) /\ Beyond(polls[i].ids, pollCursor)
  /\ Ascending(polled) /\ Bound(polled, pollCursor)

\* Delivering an answer keeps the order, and moves the cursor to its end.
LEMMA Delivered ==
  ASSUME NEW p \in Seq(Nat), NEW q \in Seq(Nat), NEW c \in Nat,
         Ascending(p), Bound(p, c), Ascending(q), Beyond(q, c)
  PROVE  /\ Ascending(p \o q)
         /\ LET d == IF q = <<>> THEN c ELSE q[Len(q)]
            IN  Bound(p \o q, d) /\ Bound(p, d)
<1> DEFINE r == p \o q
           d == IF q = <<>> THEN c ELSE q[Len(q)]
<1>1. /\ Len(p) \in Nat /\ Len(q) \in Nat /\ (q # <<>> => Len(q) # 0) /\ Len(<<>>) = 0
      /\ \A k \in 1..Len(p) : p[k] \in Nat
      /\ \A k \in 1..Len(q) : q[k] \in Nat
  BY LenProperties, EmptySeq, ElementOfSeq
<1>2. /\ r \in Seq(Nat) /\ Len(r) = Len(p) + Len(q)
      /\ \A i \in 1..Len(r) : r[i] = IF i <= Len(p) THEN p[i] ELSE q[i - Len(p)]
  BY ConcatProperties
<1> HIDE DEF r
<1>3. /\ \A k \in 1..Len(p) : p[k] <= c
      /\ \A k \in 1..Len(q) : c < q[k]
      /\ \A i, j \in 1..Len(p) : i < j => p[i] < p[j]
      /\ \A i, j \in 1..Len(q) : i < j => q[i] < q[j]
  BY DEF Bound, Beyond, Ascending
<1>4. ASSUME NEW i \in 1..Len(r), NEW j \in 1..Len(r), i < j PROVE r[i] < r[j]
  <2>1. CASE j <= Len(p)
    <3>1. i \in 1..Len(p) /\ j \in 1..Len(p) /\ r[i] = p[i] /\ r[j] = p[j]
      BY <1>1, <1>2, <1>4, <2>1
    <3> QED
      BY <1>3, <1>4, <3>1
  <2>2. CASE i <= Len(p) /\ ~(j <= Len(p))
    <3>1. r[i] = p[i] /\ i \in 1..Len(p) /\ r[j] = q[j - Len(p)] /\ j - Len(p) \in 1..Len(q)
      BY <1>1, <1>2, <2>2
    <3>2. p[i] <= c /\ c < q[j - Len(p)] /\ p[i] \in Nat /\ q[j - Len(p)] \in Nat
      BY <1>1, <1>3, <3>1
    <3> QED
      BY <3>1, <3>2
  <2>3. CASE ~(i <= Len(p))
    <3>1. /\ r[i] = q[i - Len(p)] /\ i - Len(p) \in 1..Len(q)
          /\ r[j] = q[j - Len(p)] /\ j - Len(p) \in 1..Len(q)
          /\ i - Len(p) < j - Len(p)
      BY <1>1, <1>2, <1>4, <2>3
    <3> QED
      BY <1>3, <3>1
  <2> QED
    BY <1>1, <1>2, <1>4, <2>1, <2>2, <2>3
<1>5. d \in Nat /\ c <= d /\ \A k \in 1..Len(q) : q[k] <= d
  <2>1. CASE q = <<>>
    BY <1>1, <2>1
  <2>2. CASE q # <<>>
    <3>1. Len(q) \in 1..Len(q) /\ d = q[Len(q)]
      BY <1>1, <2>2
    <3>2. d \in Nat /\ c < d
      BY <1>1, <1>3, <3>1
    <3>3. ASSUME NEW k \in 1..Len(q) PROVE q[k] <= d
      BY <1>1, <1>3, <3>1
    <3> QED
      BY <3>2, <3>3
  <2> QED
    BY <2>1, <2>2
<1> HIDE DEF d
<1>6. ASSUME NEW k \in 1..Len(r) PROVE r[k] <= d
  <2>1. CASE k <= Len(p)
    <3>1. r[k] = p[k] /\ k \in 1..Len(p)
      BY <1>1, <1>2, <2>1
    <3>2. p[k] \in Nat /\ p[k] <= c
      BY <1>1, <1>3, <3>1
    <3> QED
      BY <1>5, <3>1, <3>2
  <2>2. CASE ~(k <= Len(p))
    <3>1. r[k] = q[k - Len(p)] /\ k - Len(p) \in 1..Len(q)
      BY <1>1, <1>2, <2>2
    <3> QED
      BY <1>5, <3>1
  <2> QED
    BY <2>1, <2>2
<1>7. ASSUME NEW k \in 1..Len(p) PROVE p[k] <= d
  <2>1. p[k] \in Nat /\ p[k] <= c
    BY <1>1, <1>3
  <2> QED
    BY <1>5, <2>1
<1> QED
  BY <1>4, <1>6, <1>7 DEF Ascending, Bound, r, d

LEMMA PollInit == Init => PollInv
BY DEF Init, PollInv, Ascending, Bound

LEMMA PollStep ==
  ASSUME TypeInv, PollInv, [Next]_vars
  PROVE  PollInv'
<1> DEFINE n == Len(rows)
           Same == UNCHANGED <<polls, pollCursor, polled>>
<1>1. /\ n \in Nat /\ polls \in Seq(PollSet(n)) /\ pollCursor \in 0..n /\ polled \in Seq(1..n)
      /\ rows \in Seq(Rows) /\ expired \in 0..n /\ reaped \in 0..expired
  BY LenProperties DEF TypeInv, RestTypes, HistoryTypes, DatabaseTypes
<1>2. Len(polls) \in Nat /\ pollCursor \in Nat /\ polled \in Seq(Nat)
  <2>1. 1..n \subseteq Nat
    BY <1>1
  <2>2. Seq(1..n) \subseteq Seq(Nat)
    BY <2>1, SeqMonotonic
  <2> QED
    BY <1>1, <2>2, LenProperties
<1>3. \A i \in 1..Len(polls) : polls[i].ids \in Seq(Nat)
  <2>1. 1..n \subseteq Nat
    BY <1>1
  <2>2. Seq(1..n) \subseteq Seq(Nat)
    BY <2>1, SeqMonotonic
  <2> QED
    BY <2>2, PollFacts
<1> HIDE DEF n
<1>a. CASE Same
  BY <1>a DEF PollInv
<1>4. CASE ServerStep
  BY <1>a, <1>4 DEF ServerStep, ReadBrowser, DropSocket, ReadAgent, AgentClosed, DeleteSession,
              Expire, Cleanup, Restart, rest, history
<1>5. CASE AgentStep
  BY <1>a, <1>5 DEF AgentStep, AgentDrops, AgentConnects, AgentSends, rest, history
<1>6. CASE SocketStep
  BY <1>a, <1>6 DEF SocketStep, MintSucceeds, MintFails, MintRefused, SocketOpens, Disconnect,
              TimerFires, Send, Receive, Close, rest, history
<1>7. CASE \E k \in posts : PostArrives(k) \/ PostLost(k)
  BY <1>a, <1>7 DEF PostArrives, PostLost, history
<1>8. CASE Poll
  <2> DEFINE new == [at |-> "asked", after |-> pollCursor, ids |-> <<>>]
  <2>1. polls = <<>> /\ polls' = Append(polls, new) /\ UNCHANGED <<pollCursor, polled>>
    BY <1>8 DEF Poll, history
  <2>2. polls' = <<new>>
    BY <2>1
  <2>3. Len(polls') = 1 /\ polls'[1] = new /\ new.after = pollCursor /\ new.ids = <<>>
    BY <2>2
  <2> HIDE DEF new
  <2>4. Ascending(new.ids) /\ Beyond(new.ids, pollCursor)
    BY <2>3 DEF Ascending, Beyond
  <2> QED
    BY <2>1, <2>3, <2>4 DEF PollInv
<1>9. CASE PollServed
  <2>1. PICK i \in 1..Len(polls) :
          polls' = [polls EXCEPT ![i] = [@ EXCEPT !.at = "answered", !.ids = Page(polls[i].after, PollSize)]]
    BY <1>9 DEF PollServed
  <2> DEFINE ids == Page(polls[i].after, PollSize)
             new == [polls[i] EXCEPT !.at = "answered", !.ids = ids]
             lo == Before(polls[i].after)
  <2>2. polls[i].after = pollCursor /\ polls[i] \in PollSet(n)
    BY PollFacts DEF PollInv, n
  <2>3. /\ ids \in Seq(1..n) /\ lo \in 0..n /\ pollCursor <= lo
        /\ \A k \in 1..Len(ids) : ids[k] = lo + k
    BY <1>1, <2>2, PageFacts, Constants DEF n
  <2>4. Len(ids) \in Nat
    BY <2>3, LenProperties
  <2> HIDE DEF ids, lo
  <2>5. Ascending(ids) /\ Beyond(ids, pollCursor)
    BY <1>1, <1>2, <2>3, <2>4 DEF Ascending, Beyond
  <2>6. new.after = pollCursor /\ new.ids = ids
    BY <2>2 DEF PollSet
  <2>7. polls' = [polls EXCEPT ![i] = new]
    BY <2>1 DEF ids
  <2> HIDE DEF new
  <2>8. Len(polls) = 1 /\ i = 1
    <3>1. Len(polls) <= 1
      BY DEF PollInv
    <3>2. ASSUME NEW m \in Nat, m <= 1, NEW j \in 1..m PROVE m = 1 /\ j = 1
      BY <3>2
    <3> QED
      BY <1>2, <3>1, <3>2
  <2>9. Len(polls') = 1 /\ polls'[1] = new
    BY <1>1, <2>7, <2>8
  <2>10. UNCHANGED <<pollCursor, polled>>
    BY <1>9 DEF PollServed, history
  <2> QED
    BY <2>5, <2>6, <2>9, <2>10 DEF PollInv
<1>10. CASE PollReturns
  <2>1. PICK i \in 1..Len(polls) :
          /\ polls' = SubSeq(polls, 1, i - 1) \o SubSeq(polls, i + 1, Len(polls))
          /\ pollCursor' = IF polls[i].ids = <<>> THEN pollCursor
                           ELSE polls[i].ids[Len(polls[i].ids)]
          /\ polled' = IF link = "handed" THEN polled \o polls[i].ids ELSE polled
    BY <1>10 DEF PollReturns
  <2>2. Len(polls') = 0
    <3>1. Len(polls') = Len(polls) - 1
      BY <1>1, <2>1, Without
    <3> QED
      BY <1>2, <3>1 DEF PollInv
  <2>3. Ascending(polled') /\ Bound(polled', pollCursor')
    <3> DEFINE q == polls[i].ids
    <3>1. q \in Seq(Nat) /\ Ascending(q) /\ Beyond(q, pollCursor)
      BY <1>3 DEF PollInv
    <3>2. Ascending(polled) /\ Bound(polled, pollCursor)
      BY DEF PollInv
    <3> HIDE DEF q
    <3>3. /\ Ascending(polled \o q)
          /\ LET d == IF q = <<>> THEN pollCursor ELSE q[Len(q)]
             IN  Bound(polled \o q, d) /\ Bound(polled, d)
      BY <1>2, <3>1, <3>2, Delivered
    <3> QED
      BY <2>1, <3>2, <3>3 DEF q
  <2> QED
    BY <2>2, <2>3 DEF PollInv
<1>11. CASE PollFails
  <2>1. PICK i \in 1..Len(polls) :
          polls' = SubSeq(polls, 1, i - 1) \o SubSeq(polls, i + 1, Len(polls))
    BY <1>11 DEF PollFails
  <2>2. Len(polls') = Len(polls) - 1
    BY <1>1, <2>1, Without
  <2>3. Len(polls') = 0
    BY <1>2, <2>2 DEF PollInv
  <2>4. UNCHANGED <<pollCursor, polled>>
    BY <1>11 DEF PollFails, history
  <2>5. \A j \in 1..Len(polls') : FALSE
    BY <2>3
  <2>6. Ascending(polled') /\ Bound(polled', pollCursor')
    BY <2>4 DEF PollInv
  <2> QED
    BY <2>3, <2>5, <2>6 DEF PollInv
<1>12. CASE UNCHANGED vars
  BY <1>a, <1>12 DEF vars, rest, history
<1> HIDE DEF Same
<1> QED
  BY <1>4, <1>5, <1>6, <1>7, <1>8, <1>9, <1>10, <1>11, <1>12 DEF Next, RestStep

\* What the REST fallback delivers is in the order of the log and without
\* repetition, for any page size and whatever expires or is cleaned up between
\* two polls (transport.ts RESTPollingTransport.poll; signal.ts).
THEOREM PollsKeepOrder == Spec => []PolledInOrder
<1>1. Init => TypeInv /\ PollInv
  BY TypesInit, PollInit
<1>2. TypeInv /\ PollInv /\ [Next]_vars => (TypeInv /\ PollInv)'
  BY TypesStep, PollStep
<1>3. PollInv => PolledInOrder
  BY DEF PollInv, Ascending, PolledInOrder
<1> QED
  BY <1>1, <1>2, <1>3, PTL DEF Spec

-----------------------------------------------------------------------------
(* What is recorded once.  A signal of the browser is in one place at a    *)
(* time: queued, on one socket, in a post, or recorded.                    *)

Recorded(r)  == {r[i].n : i \in {i \in 1..Len(r) : r[i].from = "browser"}}
SignalsOf(q) == {q[k].arg : k \in {k \in 1..Len(q) : q[k].type = "signal"}}

Distinct(q) == \A i, j \in 1..Len(q) : q[i] = q[j] => i = j

EachOnce(q) ==
  \A i, j \in 1..Len(q) :
    q[i].type = "signal" /\ q[j].type = "signal" /\ q[i].arg = q[j].arg => i = j

NoneTwice == RecordedOnce /\ Distinct(pending) /\ \A s \in Sockets : EachOnce(up[s])

\* Recorded, queued, posted and on each socket, of the first m signals.
Apart(R, Q, P, W, m) ==
  /\ R \cap Q = {} /\ R \cap P = {} /\ Q \cap P = {}
  /\ R \cup Q \cup P \subseteq 1..m
  /\ \A s \in Sockets :
       /\ W[s] \subseteq 1..m /\ W[s] \cap (R \cup Q \cup P) = {}
       /\ \A t \in Sockets \ {s} : W[s] \cap W[t] = {}

OnWire == [s \in Sockets |-> SignalsOf(up[s])]

OnceInv == NoneTwice /\ Apart(Recorded(rows), Ids(pending), posts, OnWire, sent)

\* What a loss, a record, a hand-over, a flush and a send do to the places.
LEMMA Fewer ==
  ASSUME NEW R, NEW Q, NEW P, NEW W, NEW m, Apart(R, Q, P, W, m),
         NEW R1 \in SUBSET R, NEW Q1 \in SUBSET Q, NEW P1 \in SUBSET P, NEW W1,
         \A s \in Sockets : W1[s] \subseteq W[s]
  PROVE  Apart(R1, Q1, P1, W1, m)
BY DEF Apart

LEMMA FromSocket ==
  ASSUME NEW R, NEW Q, NEW P, NEW W, NEW m, Apart(R, Q, P, W, m), NEW W1,
         \A s \in Sockets : W1[s] \subseteq W[s],
         NEW s \in Sockets, NEW k \in W[s] \ W1[s]
  PROVE  Apart(R \cup {k}, Q, P, W1, m) /\ k \notin R
<1>1. k \in 1..m /\ k \notin R \cup Q \cup P /\ \A t \in Sockets : k \notin W1[t]
  BY DEF Apart
<1> QED
  BY <1>1 DEF Apart

LEMMA FromPost ==
  ASSUME NEW R, NEW Q, NEW P, NEW W, NEW m, Apart(R, Q, P, W, m), NEW k \in P
  PROVE  Apart(R \cup {k}, Q, P \ {k}, W, m) /\ k \notin R
BY DEF Apart

LEMMA ToPosts ==
  ASSUME NEW R, NEW Q, NEW P, NEW W, NEW m, Apart(R, Q, P, W, m)
  PROVE  Apart(R, {}, P \cup Q, W, m)
BY DEF Apart

LEMMA ToSocket ==
  ASSUME NEW R, NEW Q, NEW P, NEW W, NEW m, Apart(R, Q, P, W, m), NEW W1, NEW s \in Sockets,
         W1[s] \subseteq W[s] \cup Q, \A t \in Sockets \ {s} : W1[t] = W[t]
  PROVE  Apart(R, {}, P, W1, m)
<1> SUFFICES ASSUME NEW t \in Sockets
             PROVE  /\ W1[t] \subseteq 1..m /\ W1[t] \cap (R \cup P) = {}
                    /\ \A u \in Sockets \ {t} : W1[t] \cap W1[u] = {}
  BY DEF Apart
<1>1. \A u \in Sockets : W[u] \cap Q = {} /\ W[u] \cap (R \cup P) = {} /\ W[u] \subseteq 1..m
  BY DEF Apart
<1>2. Q \cap (R \cup P) = {} /\ Q \subseteq 1..m
  BY DEF Apart
<1>3. \A u, v \in Sockets : u # v => W[u] \cap W[v] = {}
  BY DEF Apart
<1> QED
  BY <1>1, <1>2, <1>3

LEMMA NewSignal ==
  ASSUME NEW R, NEW Q, NEW P, NEW W, NEW m \in Nat, Apart(R, Q, P, W, m)
  PROVE  /\ Apart(R, Q \cup {m + 1}, P, W, m + 1)
         /\ Apart(R, Q, P \cup {m + 1}, W, m + 1)
         /\ \A W1 : \A s \in Sockets :
              W1[s] \subseteq W[s] \cup {m + 1} /\ (\A t \in Sockets \ {s} : W1[t] = W[t])
                => Apart(R, Q, P, W1, m + 1)
<1> DEFINE k == m + 1
           M == 1..m
           K == 1..k
<1>1. k \notin M /\ k \in K /\ M \subseteq K
  OBVIOUS
<1> HIDE DEF k, M, K
<1>2. /\ R \cap Q = {} /\ R \cap P = {} /\ Q \cap P = {} /\ R \cup Q \cup P \subseteq M
      /\ \A s \in Sockets : W[s] \subseteq M /\ W[s] \cap (R \cup Q \cup P) = {}
      /\ \A s \in Sockets : \A t \in Sockets \ {s} : W[s] \cap W[t] = {}
  BY DEF Apart, M
<1>3. Apart(R, Q \cup {k}, P, W, k)
  BY <1>1, <1>2 DEF Apart, K
<1>4. Apart(R, Q, P \cup {k}, W, k)
  BY <1>1, <1>2 DEF Apart, K
<1>5. ASSUME NEW W1, NEW s \in Sockets, W1[s] \subseteq W[s] \cup {k},
             \A t \in Sockets \ {s} : W1[t] = W[t]
      PROVE  Apart(R, Q, P, W1, k)
  <2> SUFFICES ASSUME NEW t \in Sockets
               PROVE  /\ W1[t] \subseteq K /\ W1[t] \cap (R \cup Q \cup P) = {}
                      /\ \A u \in Sockets \ {t} : W1[t] \cap W1[u] = {}
    BY <1>1, <1>2 DEF Apart, K
  <2> QED
    BY <1>1, <1>2, <1>5
<1> QED
  BY <1>3, <1>4, <1>5 DEF k

\* The server reads a frame.
LEMMA FrameRead ==
  ASSUME NEW F, NEW q \in Seq(F), q # <<>>, EachOnce(q)
  PROVE  /\ EachOnce(Tail(q)) /\ SignalsOf(Tail(q)) \subseteq SignalsOf(q)
         /\ Head(q).type = "signal" => Head(q).arg \in SignalsOf(q) \ SignalsOf(Tail(q))
<1> DEFINE r == Tail(q)
<1>1. /\ Len(q) \in Nat \ {0} /\ Len(r) = Len(q) - 1 /\ Head(q) = q[1]
      /\ \A i \in 1..Len(r) : r[i] = q[i + 1]
  BY HeadFacts
<1> HIDE DEF r
<1>2. \A i \in 1..Len(r) : i + 1 \in 1..Len(q) /\ i + 1 # 1
  BY <1>1
<1>3. 1 \in 1..Len(q)
  BY <1>1
<1>4. EachOnce(r)
  BY <1>1, <1>2 DEF EachOnce
<1>5. SignalsOf(r) \subseteq SignalsOf(q)
  BY <1>1, <1>2 DEF SignalsOf
<1>6. ASSUME q[1].type = "signal" PROVE q[1].arg \in SignalsOf(q) \ SignalsOf(r)
  <2>1. q[1].arg \in SignalsOf(q)
    BY <1>3, <1>6 DEF SignalsOf
  <2>2. ASSUME NEW i \in 1..Len(r), r[i].type = "signal", r[i].arg = q[1].arg PROVE FALSE
    BY <1>1, <1>2, <1>3, <1>6, <2>2 DEF EachOnce
  <2> QED
    BY <2>1, <2>2 DEF SignalsOf
<1> QED
  BY <1>1, <1>4, <1>5, <1>6 DEF r

\* Frames follow those on the socket.
LEMMA FramesAdded ==
  ASSUME NEW F, NEW q \in Seq(F), NEW fs \in Seq(F), EachOnce(q), EachOnce(fs),
         SignalsOf(q) \cap SignalsOf(fs) = {}
  PROVE  EachOnce(q \o fs) /\ SignalsOf(q \o fs) \subseteq SignalsOf(q) \cup SignalsOf(fs)
<1> DEFINE r == q \o fs
<1>1. /\ Len(q) \in Nat /\ Len(fs) \in Nat /\ Len(r) = Len(q) + Len(fs)
      /\ \A i \in 1..Len(r) : r[i] = IF i <= Len(q) THEN q[i] ELSE fs[i - Len(q)]
  BY LenProperties, ConcatProperties
<1> HIDE DEF r
<1>2. ASSUME NEW i \in 1..Len(r)
      PROVE  \/ i \in 1..Len(q) /\ r[i] = q[i]
             \/ i - Len(q) \in 1..Len(fs) /\ r[i] = fs[i - Len(q)]
  BY <1>1
<1>3. SignalsOf(r) \subseteq SignalsOf(q) \cup SignalsOf(fs)
  BY <1>2 DEF SignalsOf
<1>4. \A i \in 1..Len(q), j \in 1..Len(fs) :
        q[i].type = "signal" /\ fs[j].type = "signal" => q[i].arg # fs[j].arg
  BY DEF SignalsOf
<1>5. ASSUME NEW i \in 1..Len(r), NEW j \in 1..Len(r), r[i].type = "signal",
             r[j].type = "signal", r[i].arg = r[j].arg
      PROVE  i = j
  <2>1. CASE i \in 1..Len(q) /\ r[i] = q[i] /\ j \in 1..Len(q) /\ r[j] = q[j]
    BY <1>5, <2>1 DEF EachOnce
  <2>2. CASE /\ i - Len(q) \in 1..Len(fs) /\ r[i] = fs[i - Len(q)]
             /\ j - Len(q) \in 1..Len(fs) /\ r[j] = fs[j - Len(q)]
    <3>1. i - Len(q) = j - Len(q)
      BY <1>5, <2>2 DEF EachOnce
    <3> QED
      BY <1>1, <3>1
  <2> QED
    BY <1>2, <1>4, <1>5, <2>1, <2>2
<1>6. EachOnce(r)
  BY <1>5 DEF EachOnce
<1> QED
  BY <1>3, <1>6 DEF r

\* The queue as it is flushed, and as it grows.
LEMMA Flushed ==
  ASSUME NEW q \in Seq(1..MaxSent), Distinct(q)
  PROVE  LET fs == [k \in 1..Len(q) |-> SendFrame(q[k])]
         IN  EachOnce(fs) /\ SignalsOf(fs) \subseteq Ids(q)
<1> DEFINE fs == [k \in 1..Len(q) |-> SendFrame(q[k])]
<1>1. Len(fs) = Len(q) /\ \A k \in 1..Len(q) : fs[k] = SendFrame(q[k])
  BY FlushFacts
<1> HIDE DEF fs
<1>2. \A k \in 1..Len(q) : fs[k].arg = q[k]
  <2>1. \A x : SendFrame(x).arg = x
    BY DEF SendFrame
  <2> QED
    BY <1>1, <2>1
<1>3. EachOnce(fs)
  BY <1>1, <1>2 DEF EachOnce, Distinct
<1>4. SignalsOf(fs) \subseteq Ids(q)
  BY <1>1, <1>2 DEF SignalsOf, Ids
<1> QED
  BY <1>3, <1>4 DEF fs

LEMMA Queued ==
  ASSUME NEW S, NEW q \in Seq(S), NEW k \in S, Distinct(q), k \notin Ids(q)
  PROVE  Distinct(Append(q, k)) /\ Ids(Append(q, k)) = Ids(q) \cup {k}
<1> DEFINE r == Append(q, k)
<1>1. /\ Len(q) \in Nat /\ Len(r) = Len(q) + 1 /\ r[Len(q) + 1] = k
      /\ \A i \in 1..Len(q) : r[i] = q[i]
  BY LenProperties, AppendProperties
<1> HIDE DEF r
<1>2. \A i \in 1..Len(r) : i \in 1..Len(q) \/ i = Len(q) + 1
  BY <1>1
<1>3. Distinct(r)
  BY <1>1, <1>2 DEF Distinct, Ids
<1>4. 1..Len(q) \subseteq 1..Len(r) /\ Len(q) + 1 \in 1..Len(r)
  BY <1>1
<1>5. Ids(r) = Ids(q) \cup {k}
  BY <1>1, <1>2, <1>4 DEF Ids
<1> QED
  BY <1>3, <1>5 DEF r

\* A signal of the browser is recorded that was not, or one of the agent's.
LEMMA BrowserRecorded ==
  ASSUME rows \in Seq(Rows), RecordedOnce, NEW k \in Nat, k \notin Recorded(rows),
         rows' = Append(rows, Row("browser", k))
  PROVE  RecordedOnce' /\ Recorded(rows') = Recorded(rows) \cup {k}
<1> DEFINE n == Len(rows)
<1>1. Row("browser", k) \in Rows /\ Row("browser", k).from = "browser" /\ Row("browser", k).n = k
  BY DEF Row, Rows
<1>2. /\ n \in Nat /\ Len(rows') = n + 1 /\ rows'[n + 1] = Row("browser", k)
      /\ \A i \in 1..n : rows'[i] = rows[i]
  BY <1>1, LenProperties, AppendProperties
<1>3. \A i \in 1..Len(rows') : i \in 1..n \/ i = n + 1
  BY <1>2
<1>4. 1..n \subseteq 1..Len(rows') /\ n + 1 \in 1..Len(rows')
  BY <1>2
<1>5. \A i \in 1..n : rows[i].from = "browser" => rows[i].n # k
  BY DEF Recorded
<1> HIDE DEF n
<1>6. RecordedOnce'
  <2>1. \A i, j \in 1..n : rows[i].from = "browser" /\ rows[j].from = "browser"
                           /\ rows[i].n = rows[j].n => i = j
    BY DEF RecordedOnce, n
  <2> QED
    BY <1>1, <1>2, <1>3, <1>5, <2>1 DEF RecordedOnce
<1>7. Recorded(rows) = {rows[i].n : i \in {i \in 1..n : rows[i].from = "browser"}}
  BY DEF Recorded, n
<1>8. Recorded(rows') = Recorded(rows) \cup {k}
  BY <1>1, <1>2, <1>3, <1>4, <1>7 DEF Recorded
<1> QED
  BY <1>6, <1>8

LEMMA AgentRecorded ==
  ASSUME rows \in Seq(Rows), RecordedOnce, NEW q \in Seq(1..MaxAgent), NEW k \in Nat, k <= Len(q),
         rows' = rows \o [i \in 1..k |-> Row("agent", q[i])]
  PROVE  RecordedOnce' /\ Recorded(rows') = Recorded(rows)
<1> DEFINE n == Len(rows)
<1>1. /\ n \in Nat /\ Len(rows') = n + k /\ \A i \in 1..n : rows'[i] = rows[i]
      /\ \A i \in 1..k : rows'[n + i] = Row("agent", q[i])
  BY BurstRecorded, LenProperties
<1>2. ASSUME NEW i \in 1..Len(rows'), rows'[i].from = "browser" PROVE i \in 1..n
  <2>1. CASE ~(i \in 1..n)
    <3>1. i - n \in 1..k /\ n + (i - n) = i
      BY <1>1, <2>1
    <3>2. rows'[i] = Row("agent", q[i - n])
      BY <1>1, <3>1
    <3> QED
      BY <1>2, <3>2 DEF Row
  <2> QED
    BY <2>1
<1>3. 1..n \subseteq 1..Len(rows')
  BY <1>1
<1>4. /\ Recorded(rows) = {rows[i].n : i \in {i \in 1..n : rows[i].from = "browser"}}
      /\ \A i, j \in 1..n : rows[i].from = "browser" /\ rows[j].from = "browser"
                           /\ rows[i].n = rows[j].n => i = j
  BY DEF Recorded, RecordedOnce
<1> HIDE DEF n
<1>5. RecordedOnce'
  BY <1>1, <1>2, <1>4 DEF RecordedOnce
<1>6. Recorded(rows') = Recorded(rows)
  <2> DEFINE S == {i \in 1..n : rows[i].from = "browser"}
  <2>1. {i \in 1..Len(rows') : rows'[i].from = "browser"} = S
    BY <1>1, <1>2, <1>3
  <2> DEFINE old(i) == rows[i].n
             new(i) == rows'[i].n
  <2>2. Recorded(rows') = {new(i) : i \in S} /\ Recorded(rows) = {old(i) : i \in S}
    BY <1>4, <2>1 DEF Recorded
  <2>3. \A i \in S : new(i) = old(i)
    BY <1>1
  <2> HIDE DEF S, old, new
  <2> QED
    BY <2>2, <2>3
<1> QED
  BY <1>5, <1>6

LEMMA OnceInit == Init => OnceInv
<1> SUFFICES ASSUME Init PROVE OnceInv
  OBVIOUS
<1>1. \A s \in Sockets : up[s] = <<>>
  BY DEF Init
<1>2. EachOnce(<<>>) /\ SignalsOf(<<>>) = {} /\ Distinct(<<>>) /\ Ids(<<>>) = {} /\ Recorded(<<>>) = {}
  BY DEF EachOnce, SignalsOf, Distinct, Ids, Recorded
<1>3. NoneTwice
  BY <1>1, <1>2 DEF Init, NoneTwice, RecordedOnce
<1>4. \A s \in Sockets : OnWire[s] = {}
  BY <1>1, <1>2 DEF OnWire
<1>5. Recorded(rows) = {} /\ Ids(pending) = {} /\ posts = {}
  BY <1>2 DEF Init
<1> QED
  BY <1>3, <1>4, <1>5 DEF OnceInv, Apart

LEMMA OnceStep ==
  ASSUME TypeInv, OnceInv, [Next]_vars
  PROVE  OnceInv'
<1> DEFINE F == InFrames(Len(rows))
           R == Recorded(rows)
           Q == Ids(pending)
           W == OnWire
           Goal == OnceInv'
           Parts == /\ RecordedOnce' /\ Distinct(pending') /\ \A s \in Sockets : EachOnce(up'[s])
                    /\ Apart(Recorded(rows'), Ids(pending'), posts', OnWire', sent')
<1> SUFFICES Goal
  OBVIOUS
<1>p. CASE Parts
  BY <1>p DEF OnceInv, NoneTwice
<1>1. /\ rows \in Seq(Rows) /\ up \in [Sockets -> Seq(F)] /\ pending \in Seq(1..MaxSent)
      /\ sent \in Nat /\ posts \subseteq 1..MaxSent /\ Len(rows) \in Nat
  BY Constants, LenProperties DEF TypeInv, DatabaseTypes, WireTypes, ClientTypes, RestTypes
<1>2. /\ RecordedOnce /\ Distinct(pending) /\ \A s \in Sockets : EachOnce(up[s])
      /\ Apart(R, Q, posts, W, sent)
  BY DEF OnceInv, NoneTwice
<1>3. /\ \A s \in Sockets : W[s] = SignalsOf(up[s])
      /\ \A s \in Sockets : OnWire'[s] = SignalsOf(up'[s])
  BY DEF OnWire
<1>4. up' \in [Sockets -> Seq(InFrames(Len(rows')))]
  BY UpStep
<1>5. EachOnce(<<>>) /\ SignalsOf(<<>>) = {} /\ Distinct(<<>>) /\ Ids(<<>>) = {}
  BY DEF EachOnce, SignalsOf, Distinct, Ids
<1> HIDE DEF Goal, F
\* Frames leave the sockets, posts and the queue, and nothing is sent.
<1>a. ASSUME UNCHANGED <<rows, sent>>, pending' \in {pending, <<>>}, posts' \subseteq posts,
             \A s \in Sockets : EachOnce(up'[s]) /\ SignalsOf(up'[s]) \subseteq SignalsOf(up[s])
      PROVE  Goal
  <2>1. Distinct(pending') /\ Ids(pending') \subseteq Q
    BY <1>a, <1>2, <1>5
  <2>2. RecordedOnce' /\ Recorded(rows') = R
    BY <1>a, <1>2 DEF RecordedOnce
  <2>3. Apart(R, Ids(pending'), posts', OnWire', sent)
    <3> DEFINE Q1 == Ids(pending')
               W1 == OnWire'
    <3>1. Q1 \subseteq Q /\ posts' \subseteq posts /\ \A s \in Sockets : W1[s] \subseteq W[s]
      BY <1>a, <1>3, <2>1
    <3> HIDE DEF Q1, W1, R, Q, W
    <3>2. Apart(R, Q1, posts', W1, sent)
      BY <1>2, <3>1, Fewer
    <3> QED
      BY <3>2 DEF Q1, W1
  <2> QED
    BY <1>a, <1>p, <2>1, <2>2, <2>3
<1>b. CASE UNCHANGED <<rows, sent, pending, posts, up>>
  BY <1>a, <1>b, <1>2
\* The queue goes to the posts.
<1>c. CASE HandOff /\ UNCHANGED <<rows, sent, up>>
  <2>1. posts' = posts \cup Q /\ pending' = <<>>
    BY <1>c DEF HandOff, Ids
  <2>2. RecordedOnce' /\ Recorded(rows') = R /\ OnWire' = W
    BY <1>c, <1>2 DEF RecordedOnce, OnWire
  <2>3. Apart(R, {}, posts \cup Q, W, sent)
    BY <1>2, ToPosts
  <2> QED
    BY <1>c, <1>p, <1>2, <1>5, <2>1, <2>2, <2>3
<1>d. CASE ScheduleReconnect /\ UNCHANGED <<rows, sent, up>>
  <2>1. CASE HandOff
    BY <1>c, <1>d, <2>1
  <2>2. CASE UNCHANGED <<pending, posts>>
    BY <1>b, <1>d, <2>2
  <2> QED
    BY <1>d, <2>1, <2>2 DEF ScheduleReconnect
<1>6. ASSUME NEW s \in Sockets, ReadBrowser(s) PROVE Goal
  <2> DEFINE f == Head(up[s])
  <2>1. /\ up[s] # <<>> /\ up[s] \in Seq(F) /\ up' = [up EXCEPT ![s] = Tail(up[s])]
        /\ UNCHANGED <<sent, pending, posts>>
    BY <1>1, <1>6 DEF ReadBrowser, client, rest
  <2>2. /\ EachOnce(Tail(up[s])) /\ SignalsOf(Tail(up[s])) \subseteq SignalsOf(up[s])
        /\ f.type = "signal" => f.arg \in SignalsOf(up[s]) \ SignalsOf(Tail(up[s]))
    BY <1>2, <2>1, FrameRead
  <2>3. \A t \in Sockets : EachOnce(up'[t]) /\ SignalsOf(up'[t]) \subseteq SignalsOf(up[t])
    BY <1>1, <1>2, <2>1, <2>2
  <2>4. f.type = "signal" => f.arg \in 1..MaxSent
    BY <2>1, UpHead DEF TypeInv
  <2> HIDE DEF f
  <2>5. CASE UNCHANGED rows
    BY <1>a, <2>1, <2>3, <2>5
  <2>6. CASE f.type = "signal" /\ rows' = Append(rows, Row("browser", f.arg))
    <3> DEFINE W1 == OnWire'
    <3>1. (\A t \in Sockets : W1[t] \subseteq W[t]) /\ f.arg \in W[s] \ W1[s]
      BY <1>1, <1>3, <2>1, <2>2, <2>3, <2>6
    <3> HIDE DEF W1, R, Q, W
    <3>2. Apart(R \cup {f.arg}, Q, posts, W1, sent) /\ f.arg \notin R
      BY <1>2, <3>1, FromSocket
    <3> USE DEF R
    <3>3. f.arg \in Nat
      BY <2>4, <2>6, Constants
    <3>4. RecordedOnce' /\ Recorded(rows') = R \cup {f.arg}
      BY <1>1, <1>2, <2>6, <3>2, <3>3, BrowserRecorded
    <3> QED
      BY <1>p, <1>2, <2>1, <2>3, <3>2, <3>4 DEF W1, Q
  <2> QED
    BY <1>6, <2>5, <2>6 DEF ReadBrowser, RecordBrowser, database, f
<1>7. ASSUME NEW s \in Sockets, DropSocket(s) PROVE Goal
  <2>1. UNCHANGED <<rows, sent, pending, posts>> /\ up' = [up EXCEPT ![s] = <<>>]
    BY <1>7 DEF DropSocket, database, client, rest
  <2>2. \A t \in Sockets : EachOnce(up'[t]) /\ SignalsOf(up'[t]) \subseteq SignalsOf(up[t])
    BY <1>1, <1>2, <1>5, <2>1
  <2> QED
    BY <1>a, <2>1, <2>2
<1>8. CASE ReadAgent
  <2>1. UNCHANGED <<sent, pending, posts, up>>
    BY <1>8 DEF ReadAgent, client, rest
  <2>2. CASE UNCHANGED rows
    BY <1>b, <2>1, <2>2
  <2>3. ASSUME NEW k \in 1..Burst, k <= Len(agentOut),
               rows' = rows \o [i \in 1..k |-> Row("agent", agentOut[i])]
        PROVE  Goal
    <3>1. agentOut \in Seq(1..MaxAgent) /\ k \in Nat
      BY Constants DEF TypeInv, AgentTypes
    <3>2. RecordedOnce' /\ Recorded(rows') = R
      BY <1>1, <1>2, <2>3, <3>1, AgentRecorded
    <3>3. OnWire' = W
      BY <2>1 DEF OnWire
    <3> QED
      BY <1>p, <1>2, <2>1, <3>2, <3>3
  <2> QED
    BY <1>8, <2>2, <2>3 DEF ReadAgent
<1>9. CASE AgentClosed \/ DeleteSession \/ Expire \/ Cleanup
  BY <1>b, <1>9 DEF AgentClosed, DeleteSession, Expire, Cleanup, client, rest, wires
<1>10. CASE Restart
  <2>1. UNCHANGED <<rows, sent, pending, posts>> /\ \A t \in Sockets : up'[t] = <<>>
    BY <1>10 DEF Restart, database, client, rest
  <2> QED
    BY <1>a, <1>5, <2>1
<1>11. CASE AgentStep
  BY <1>b, <1>11 DEF AgentStep, AgentDrops, AgentConnects, AgentSends, database, wires, client, rest
<1>12. CASE MintSucceeds \/ TimerFires \/ Close
  BY <1>b, <1>12 DEF MintSucceeds, TimerFires, Close, database, wires, rest
<1>13. CASE MintFails \/ MintRefused \/ Disconnect
  BY <1>c, <1>d, <1>13 DEF MintFails, MintRefused, Disconnect, database, wires
<1>14. CASE SocketOpens
  <2>1. UNCHANGED <<rows, sent, pending, posts>> /\ up' = [up EXCEPT ![sock] = <<Subscribe(cursor)>>]
    BY <1>14 DEF SocketOpens, database, rest
  <2>2. EachOnce(<<Subscribe(cursor)>>) /\ SignalsOf(<<Subscribe(cursor)>>) = {}
    <3>1. \A x : Subscribe(x).type # "signal"
      BY DEF Subscribe
    <3>2. \A x : Len(<<x>>) = 1 /\ <<x>>[1] = x
      OBVIOUS
    <3> QED
      BY <3>1, <3>2 DEF EachOnce, SignalsOf
  <2>3. \A t \in Sockets : EachOnce(up'[t]) /\ SignalsOf(up'[t]) \subseteq SignalsOf(up[t])
    BY <1>1, <1>2, <2>1, <2>2
  <2> QED
    BY <1>a, <2>1, <2>3
<1>15. CASE Send
  <2> DEFINE k == sent + 1
  <2>1. /\ sent' = k /\ UNCHANGED rows /\ k \in Nat /\ k \in 1..MaxSent
        /\ k \notin Q
    <3>1. sent' = k /\ UNCHANGED rows /\ sent < MaxSent
      BY <1>15 DEF Send, database
    <3>2. Q \subseteq 1..sent
      BY <1>2 DEF Apart
    <3> QED
      BY <1>1, <3>1, <3>2, Constants
  <2>2. /\ Apart(R, Q \cup {k}, posts, W, k)
        /\ Apart(R, Q, posts \cup {k}, W, k)
        /\ \A W1 : \A s \in Sockets :
             W1[s] \subseteq W[s] \cup {k} /\ (\A t \in Sockets \ {s} : W1[t] = W[t])
               => Apart(R, Q, posts, W1, k)
    BY <1>1, <1>2, NewSignal
  <2>3. RecordedOnce' /\ Recorded(rows') = R
    BY <1>2, <2>1 DEF RecordedOnce
  <2> HIDE DEF k
  <2>4. CASE posts' = posts \cup {k} /\ UNCHANGED <<up, pending>>
    <3>1. OnWire' = W
      BY <2>4 DEF OnWire
    <3> QED
      BY <1>p, <1>2, <2>1, <2>2, <2>3, <2>4, <3>1
  <2>5. CASE pending' = Append(pending, k) /\ UNCHANGED <<posts, up>>
    <3>1. Distinct(pending') /\ Ids(pending') = Q \cup {k}
      <4> DEFINE S == 1..MaxSent
      <4>1. pending \in Seq(S) /\ k \in S
        BY <1>1, <2>1
      <4> HIDE DEF S
      <4>2. Distinct(Append(pending, k)) /\ Ids(Append(pending, k)) = Ids(pending) \cup {k}
        BY <1>2, <2>1, <4>1, Queued
      <4> QED
        BY <2>5, <4>2
    <3>2. OnWire' = W
      BY <2>5 DEF OnWire
    <3> QED
      BY <1>p, <1>2, <2>1, <2>2, <2>3, <2>5, <3>1, <3>2
  <2>6. CASE /\ link = "open" /\ UNCHANGED <<posts, pending>>
             /\ up' = [up EXCEPT ![sock] = IF sock \in reg THEN Append(@, SendFrame(k)) ELSE @]
    <3>1. sock \in Sockets
      BY <2>6, Constants DEF TypeInv, SocketTypes, Sockets
    <3>2. SendFrame(k) \in F
      BY <1>1, <2>1, FrameFacts DEF F
    <3> DEFINE q == up[sock]
               q1 == up'[sock]
               one == <<SendFrame(k)>>
    <3>3. q \in Seq(F) /\ one \in Seq(F) /\ Len(one) = 1 /\ one[1] = SendFrame(k)
      BY <1>1, <3>1, <3>2, OneFrame
    <3>4. Append(q, SendFrame(k)) = q \o one
      BY <3>2, <3>3, AppendIsConcat
    <3>5. q1 \in {q, q \o one} /\ \A t \in Sockets \ {sock} : up'[t] = up[t]
      BY <1>1, <2>6, <3>1, <3>4
    <3> HIDE DEF one
    <3>6. EachOnce(one) /\ SignalsOf(one) \subseteq {k}
      <4>1. \A x : SendFrame(x).arg = x
        BY DEF SendFrame
      <4> QED
        BY <3>3, <4>1 DEF EachOnce, SignalsOf
    <3>7. SignalsOf(q) \subseteq 1..sent /\ k \notin SignalsOf(q)
      <4>1. SignalsOf(q) \subseteq 1..sent
        BY <1>2, <1>3, <3>1 DEF Apart
      <4> QED
        BY <1>1, <4>1 DEF k
    <3>8. EachOnce(q \o one) /\ SignalsOf(q \o one) \subseteq SignalsOf(q) \cup SignalsOf(one)
      BY <1>2, <3>1, <3>3, <3>6, <3>7, FramesAdded
    <3>9. EachOnce(q1) /\ SignalsOf(q1) \subseteq SignalsOf(q) \cup {k}
      BY <1>2, <3>1, <3>5, <3>6, <3>8
    <3>10. \A s \in Sockets : EachOnce(up'[s])
      BY <1>2, <3>5, <3>9
    <3>11. /\ OnWire'[sock] \subseteq W[sock] \cup {k}
           /\ \A t \in Sockets \ {sock} : OnWire'[t] = W[t]
      BY <1>3, <3>1, <3>5, <3>9
    <3> DEFINE W1 == OnWire'
    <3>12. Apart(R, Q, posts, W1, k)
      <4> HIDE DEF R, Q, W, W1
      <4> QED
        BY <2>2, <3>1, <3>11 DEF W1
    <3> QED
      BY <1>p, <1>2, <2>1, <2>3, <2>6, <3>10, <3>12
  <2> QED
    BY <1>15, <2>1, <2>4, <2>5, <2>6 DEF Send
<1>16. CASE Receive
  <2>1. UNCHANGED <<rows, sent>>
    BY <1>16 DEF Receive, database
  <2>2. CASE HearSubscribed(Head(down).more) /\ UNCHANGED posts
    <3>1. sock \in Sockets
      BY <1>16, Constants DEF Receive, TypeInv, SocketTypes, Sockets
    <3> DEFINE q == up[sock]
               q1 == up'[sock]
               sub1 == <<Subscribe(cursor)>>
               fs == [k \in 1..Len(pending) |-> SendFrame(pending[k])]
    <3>2. Subscribe(cursor) \in F /\ fs \in Seq(F)
      BY <1>1, FrameFacts, FlushFacts DEF F, TypeInv, ClientTypes
    <3>3. q \in Seq(F) /\ sub1 \in Seq(F) /\ Len(sub1) = 1 /\ sub1[1] = Subscribe(cursor)
      BY <1>1, <3>1, <3>2, OneFrame
    <3>4. Append(q, Subscribe(cursor)) = q \o sub1
      BY <3>2, <3>3, AppendIsConcat
    <3>5. /\ \A t \in Sockets \ {sock} : up'[t] = up[t]
          /\ \/ q1 \in {q, q \o sub1} /\ pending' \in {pending, <<>>}
             \/ q1 = q \o fs /\ pending' = <<>>
      BY <1>1, <2>2, <3>1, <3>4 DEF HearSubscribed
    <3>6. EachOnce(fs) /\ SignalsOf(fs) \subseteq Q
      BY <1>1, <1>2, Flushed
    <3> HIDE DEF sub1, fs
    <3>7. EachOnce(sub1) /\ SignalsOf(sub1) = {}
      <4>1. \A x : Subscribe(x).type # "signal"
        BY DEF Subscribe
      <4> QED
        BY <3>3, <4>1 DEF EachOnce, SignalsOf
    <3>8. EachOnce(q) /\ SignalsOf(q) = W[sock] /\ SignalsOf(q) \cap Q = {}
      BY <1>2, <1>3, <3>1 DEF Apart
    <3>9. EachOnce(q \o sub1) /\ SignalsOf(q \o sub1) \subseteq SignalsOf(q)
      BY <3>3, <3>7, <3>8, FramesAdded
    <3>10. EachOnce(q \o fs) /\ SignalsOf(q \o fs) \subseteq SignalsOf(q) \cup Q
      <4>1. SignalsOf(q) \cap SignalsOf(fs) = {}
        BY <3>6, <3>8
      <4>2. EachOnce(q \o fs) /\ SignalsOf(q \o fs) \subseteq SignalsOf(q) \cup SignalsOf(fs)
        BY <3>2, <3>3, <3>6, <3>8, <4>1, FramesAdded
      <4> QED
        BY <3>6, <4>2
    <3>11. CASE q1 \in {q, q \o sub1} /\ pending' \in {pending, <<>>}
      <4>1. EachOnce(q1) /\ SignalsOf(q1) \subseteq SignalsOf(q)
        BY <3>8, <3>9, <3>11
      <4>2. \A s \in Sockets : EachOnce(up'[s]) /\ SignalsOf(up'[s]) \subseteq SignalsOf(up[s])
        BY <1>2, <3>5, <4>1
      <4> QED
        BY <1>a, <2>1, <2>2, <3>11, <4>2
    <3>12. CASE q1 = q \o fs /\ pending' = <<>>
      <4>1. \A s \in Sockets : EachOnce(up'[s])
        BY <1>2, <3>5, <3>10, <3>12
      <4> DEFINE W1 == OnWire'
      <4>2. W1[sock] \subseteq W[sock] \cup Q /\ \A t \in Sockets \ {sock} : W1[t] = W[t]
        BY <1>3, <3>1, <3>5, <3>8, <3>10, <3>12
      <4>3. Apart(R, {}, posts, W1, sent)
        <5> HIDE DEF R, Q, W, W1
        <5> QED
          BY <1>2, <3>1, <4>2, ToSocket
      <4>4. RecordedOnce' /\ Recorded(rows') = R
        BY <1>2, <2>1 DEF RecordedOnce
      <4> QED
        BY <1>p, <1>5, <2>1, <2>2, <3>12, <4>1, <4>3, <4>4
    <3> QED
      BY <3>5, <3>11, <3>12
  <2>3. CASE UNCHANGED <<pending, posts, up>>
    BY <1>b, <2>1, <2>3
  <2>4. CASE HandOff /\ UNCHANGED up
    BY <1>c, <2>1, <2>4
  <2> QED
    BY <1>16, <2>2, <2>3, <2>4 DEF Receive
<1>17. CASE \E k \in posts : PostArrives(k) \/ PostLost(k)
  <2>1. PICK k \in posts : PostArrives(k) \/ PostLost(k)
    BY <1>17
  <2>2. posts' = posts \ {k} /\ UNCHANGED <<sent, pending, up>>
    BY <2>1 DEF PostArrives, PostLost, client, wires
  <2>3. CASE UNCHANGED rows
    BY <1>a, <1>2, <2>2, <2>3
  <2>4. CASE rows' = Append(rows, Row("browser", k))
    <3>1. Apart(R \cup {k}, Q, posts \ {k}, W, sent) /\ k \notin R
      BY <1>2, FromPost
    <3>2. k \in Nat
      BY <1>1, Constants
    <3>3. RecordedOnce' /\ Recorded(rows') = R \cup {k}
      BY <1>1, <1>2, <2>4, <3>1, <3>2, BrowserRecorded
    <3>4. OnWire' = W
      BY <2>2 DEF OnWire
    <3> QED
      BY <1>p, <1>2, <2>2, <3>1, <3>3, <3>4
  <2> QED
    BY <2>1, <2>3, <2>4 DEF PostArrives, PostLost, RecordBrowser, database
<1>18. CASE Poll \/ PollServed \/ PollReturns \/ PollFails
  BY <1>b, <1>18 DEF Poll, PollServed, PollReturns, PollFails, database, wires, client
<1>19. CASE UNCHANGED vars
  BY <1>b, <1>19 DEF vars, database, wires, client, rest
<1> QED
  BY <1>6, <1>7, <1>8, <1>9, <1>10, <1>11, <1>12, <1>13, <1>14, <1>15, <1>16, <1>17, <1>18, <1>19
  DEF Next, ServerStep, SocketStep, RestStep

\* A signal of the browser is recorded once at most: whatever is queued,
\* flushed, lost with a socket, handed over to the fallback or answered late,
\* it is never in two places (transport.ts 344-348, D6; handOffToFallback,
\* handleSubscribed, send; ws.ts handleBrowserMessage; signal.ts).
THEOREM SignalsRecordedOnce == Spec => []RecordedOnce
<1>1. Init => TypeInv /\ OnceInv
  BY TypesInit, OnceInit
<1>2. TypeInv /\ OnceInv /\ [Next]_vars => (TypeInv /\ OnceInv)'
  BY TypesStep, OnceStep
<1>3. OnceInv => RecordedOnce
  BY DEF OnceInv, NoneTwice
<1> QED
  BY <1>1, <1>2, <1>3, PTL DEF Spec

===============================================================================
