------------------------- MODULE AgentSupervisorProofs -------------------------
(***************************************************************************)
(* Safety of AgentSupervisor for any sessions, capacities and bounds:      *)
(* types, the backoff, and what becomes of candidates and refusals.        *)
(***************************************************************************)
EXTENDS AgentSupervisor, SequenceTheorems, TLAPS

-----------------------------------------------------------------------------
(* Queues.                                                                 *)

\* What taking the head off a queue leaves.
LEMMA TailFacts ==
  ASSUME NEW S, NEW q \in Seq(S), q # <<>>
  PROVE  /\ Head(q) \in S /\ Head(q) = q[1] /\ Tail(q) \in Seq(S)
         /\ Len(q) \in Nat \ {0} /\ Len(Tail(q)) = Len(q) - 1
         /\ \A i \in 1..Len(Tail(q)) : Tail(q)[i] = q[i + 1]
         /\ Elems(q) = Elems(Tail(q)) \cup {Head(q)}
<1>1. /\ Head(q) \in S /\ Head(q) = q[1] /\ Tail(q) \in Seq(S)
      /\ Len(q) \in Nat \ {0} /\ Len(Tail(q)) = Len(q) - 1
      /\ \A i \in 1..Len(Tail(q)) : Tail(q)[i] = q[i + 1]
  BY HeadTailProperties, EmptySeq, LenProperties
<1>2. \A i \in 1..Len(q) : i = 1 \/ (i - 1 \in 1..Len(Tail(q)) /\ Tail(q)[i - 1] = q[i])
  BY <1>1
<1>3. \A i \in 1..Len(Tail(q)) : i + 1 \in 1..Len(q)
  BY <1>1
<1>4. Elems(q) \subseteq Elems(Tail(q)) \cup {Head(q)}
  BY <1>1, <1>2 DEF Elems
<1>5. Elems(Tail(q)) \cup {Head(q)} \subseteq Elems(q)
  BY <1>1, <1>3 DEF Elems
<1> QED
  BY <1>1, <1>4, <1>5

\* What an element at the end of a queue adds.
LEMMA AppendFacts ==
  ASSUME NEW S, NEW q \in Seq(S), NEW m \in S
  PROVE  /\ Append(q, m) \in Seq(S) /\ Len(Append(q, m)) = Len(q) + 1 /\ Len(q) \in Nat
         /\ \A i \in 1..Len(q) : Append(q, m)[i] = q[i]
         /\ Append(q, m)[Len(q) + 1] = m
         /\ Elems(Append(q, m)) = Elems(q) \cup {m}
<1>1. /\ Append(q, m) \in Seq(S) /\ Len(Append(q, m)) = Len(q) + 1 /\ Len(q) \in Nat
      /\ \A i \in 1..Len(q) : Append(q, m)[i] = q[i]
      /\ Append(q, m)[Len(q) + 1] = m
  BY AppendProperties, LenProperties
<1>2. Elems(Append(q, m)) \subseteq Elems(q) \cup {m}
  BY <1>1 DEF Elems
<1>3. Elems(q) \cup {m} \subseteq Elems(Append(q, m))
  BY <1>1 DEF Elems
<1> QED
  BY <1>1, <1>2, <1>3

\* A queue's elements are of its type.
LEMMA ElemsIn ==
  ASSUME NEW S, NEW q \in Seq(S)
  PROVE  Elems(q) \subseteq S
BY ElementOfSeq DEF Elems

-----------------------------------------------------------------------------
(* Types.                                                                  *)

\* The bounds are numbers.
LEMMA Bounds ==
  /\ InboundCap \in Nat \ {0} /\ OutboundCap \in Nat \ {0} /\ MaxConns \in Nat \ {0}
  /\ MaxTicks \in Nat /\ MaxFails \in Nat /\ MaxPushes \in Nat /\ MaxCands \in Nat
BY SupervisorAssumption

\* What TypeOK says of the channels.
ChannelTypes ==
  /\ inbound \in Seq(Inbound) /\ Len(inbound) <= InboundCap
  /\ outbound \in Seq(Outbound) /\ Len(outbound) <= OutboundCap
  /\ tasks \subseteq Outbound

\* What it says of the loop: places and numbers.
LoopPlaces ==
  /\ link \in {"connecting", "up", "backoff", "stopped", "exited"}
  /\ silent \in BOOLEAN

LoopNumbers ==
  /\ delay \in BackoffInitial..BackoffMax
  /\ conns \in 0..MaxConns /\ fails \in 0..MaxFails /\ quiet \in 0..MaxTicks

\* What it says of the session.
SessionPlaces ==
  /\ phase \in {"off", "ice", "idle", "building", "sourcing", "answering",
                "handshake", "serving"}
  /\ cur \in Sessions \cup {None} /\ approve \in BOOLEAN
  /\ peer \in {"none", "up", "gone"} /\ ended \in BOOLEAN

SessionNumbers ==
  /\ pushes \in 0..MaxPushes /\ curN \in 0..MaxPushes /\ gathered \in 0..MaxCands
  /\ due \subseteq 1..MaxPushes

LEMMA TypeParts ==
  TypeOK <=> LoopPlaces /\ LoopNumbers /\ ChannelTypes /\ SessionPlaces /\ SessionNumbers
BY Zenon DEF TypeOK, LoopPlaces, LoopNumbers, ChannelTypes, SessionPlaces, SessionNumbers

\* A session has an offer, and there is none without.
SessionShape ==
  /\ InSession => cur \in Sessions /\ curN \in 1..pushes
  /\ ~InSession => cur = None

\* The steps that touch the reconnect loop.
LoopActs == \/ Connects \/ ConnectFails \/ Retry \/ SocketEnds \/ GoesSilent \/ Elapse
            \/ Shutdown \/ SendFails \/ StreamEnds

LEMMA LoopFrame == Next => LoopActs \/ UNCHANGED loop
<1>1. ASSUME NEW s \in Sessions, BrowserOffers(s) \/ BrowserTrickles(s) PROVE UNCHANGED loop
  BY <1>1 DEF BrowserOffers, BrowserTrickles, Arrives
<1>2. Send => UNCHANGED loop
  BY DEF Send
<1>3. IceDecided => UNCHANGED loop
  BY DEF IceDecided
<1>4. IdleDrops => UNCHANGED loop
  BY DEF IdleDrops
<1>5. TakeOffer => UNCHANGED loop
  BY DEF TakeOffer
<1>6. SetupFails => UNCHANGED loop
  BY DEF SetupFails, Ends
<1>7. NeedSource => UNCHANGED loop
  BY DEF NeedSource
<1>8. BuildPeer => UNCHANGED loop
  BY DEF BuildPeer, Describe
<1>9. SourceDecided => UNCHANGED loop
  BY DEF SourceDecided, Describe
<1>10. AnswerOffer => UNCHANGED loop
  BY DEF AnswerOffer
<1>11. RefuseOffer => UNCHANGED loop
  BY DEF RefuseOffer
<1>12. Gathers => UNCHANGED loop
  BY DEF Gathers
<1>13. PeerGoes \/ ConnectionFails => UNCHANGED loop
  BY DEF PeerGoes, ConnectionFails
<1>14. RouteForeign => UNCHANGED loop
  BY DEF RouteForeign
<1>15. RouteCandidate => UNCHANGED loop
  BY DEF RouteCandidate
<1>16. RouteRejected => UNCHANGED loop
  BY DEF RouteRejected
<1>17. RouteRedelivery => UNCHANGED loop
  BY DEF RouteRedelivery
<1>18. RefuseSecond => UNCHANGED loop
  BY DEF RefuseSecond
<1>19. PeerOpens => UNCHANGED loop
  BY DEF PeerOpens
<1>20. Deadline => UNCHANGED loop
  BY DEF Deadline, Ends
<1>21. HandshakeEnds => UNCHANGED loop
  BY DEF HandshakeEnds, Ends
<1>22. SessionEnds => UNCHANGED loop
  BY DEF SessionEnds, Ends
<1>23. SessionStops => UNCHANGED loop
  BY DEF SessionStops, Ends
<1>24. ASSUME NEW m \in tasks, TaskSends(m) \/ RefusalFails(m) PROVE UNCHANGED loop
  BY <1>24 DEF TaskSends, RefusalFails
<1> QED
  BY <1>1, <1>2, <1>3, <1>4, <1>5, <1>6, <1>7, <1>8, <1>9, <1>10, <1>11, <1>12, <1>13, <1>14, <1>15, <1>16, <1>17, <1>18, <1>19, <1>20, <1>21, <1>22, <1>23, <1>24
  DEF Next, Loop, Browsers, Between, Setup, Route, Tasks, Serve, LoopActs

\* Each of them keeps the loop's numbers, the delay's range in particular.
LEMMA LoopNumbersStep ==
  ASSUME LoopNumbers, LoopActs
  PROVE  LoopNumbers'
<1> USE Bounds DEF LoopNumbers, BackoffInitial, BackoffMax
<1>1. CASE Connects
  BY <1>1 DEF Connects
<1>2. CASE ConnectFails
  BY <1>2 DEF ConnectFails
<1>3. CASE Retry
  <2>1. next_backoff(delay) \in BackoffInitial..BackoffMax
    BY DEF next_backoff
  <2> QED
    BY <1>3, <2>1 DEF Retry
<1>4. CASE SocketEnds
  BY <1>4 DEF SocketEnds
<1>5. CASE GoesSilent
  BY <1>5 DEF GoesSilent
<1>6. CASE Elapse
  BY <1>6 DEF Elapse
<1>7. CASE Shutdown
  BY <1>7 DEF Shutdown, ProcessGone
<1>8. CASE StreamEnds
  BY <1>8 DEF StreamEnds, ProcessGone
<1>9. CASE SendFails
  BY <1>9 DEF SendFails
<1> QED
  BY <1>1, <1>2, <1>3, <1>4, <1>5, <1>6, <1>7, <1>8, <1>9 DEF LoopActs

\* Its places.
LEMMA LoopPlacesStep ==
  ASSUME LoopPlaces, LoopActs
  PROVE  LoopPlaces'
<1> USE Zenon DEF LoopPlaces
<1>1. CASE Connects
  BY <1>1 DEF Connects
<1>2. CASE ConnectFails
  BY <1>2 DEF ConnectFails
<1>3. CASE Retry
  BY <1>3 DEF Retry
<1>4. CASE SocketEnds
  BY <1>4 DEF SocketEnds
<1>5. CASE GoesSilent
  BY <1>5 DEF GoesSilent
<1>6. CASE Elapse
  BY <1>6 DEF Elapse
<1>7. CASE Shutdown
  BY <1>7 DEF Shutdown, ProcessGone
<1>8. CASE StreamEnds
  BY <1>8 DEF StreamEnds, ProcessGone
<1>9. CASE SendFails
  BY <1>9 DEF SendFails
<1> QED
  BY <1>1, <1>2, <1>3, <1>4, <1>5, <1>6, <1>7, <1>8, <1>9 DEF LoopActs

\* The loop keeps its types.
LEMMA LoopStep ==
  ASSUME LoopPlaces, LoopNumbers, [Next]_vars
  PROVE  LoopPlaces' /\ LoopNumbers'
<1>1. CASE UNCHANGED loop
  <2>1. UNCHANGED <<link, delay, conns, fails, silent, quiet>>
    BY <1>1 DEF loop
  <2> QED
    BY <2>1, Zenon DEF LoopPlaces, LoopNumbers
<1>2. CASE LoopActs
  BY <1>2, LoopNumbersStep, LoopPlacesStep
<1>3. UNCHANGED vars => UNCHANGED loop
  BY DEF vars, loop
<1> QED
  BY <1>1, <1>2, <1>3, LoopFrame

-----------------------------------------------------------------------------
(* What a step does to the channels and to the session in hand.            *)

\* Nothing to either; at most a message leaves outbound.
Idles ==
  /\ UNCHANGED <<inbound, tasks, pushes, cur, curN, gathered, due>>
  /\ InSession' <=> InSession
  /\ outbound' = outbound \/ (outbound # <<>> /\ outbound' = Tail(outbound))

\* A signal that does not concern the session is taken off inbound.
Drops ==
  /\ inbound # <<>> /\ inbound' = Tail(inbound)
  /\ UNCHANGED <<outbound, tasks, pushes, phase, cur, curN, gathered, due>>
  /\ InSession => ~IsOwn(Head(inbound))

\* The session ends, perhaps over a signal or with a refusal.
Leaves ==
  /\ ~InSession' /\ cur' = None /\ curN' = 0 /\ gathered' = 0 /\ due' = {}
  /\ UNCHANGED <<tasks, pushes>>
  /\ inbound' = inbound \/ (inbound # <<>> /\ inbound' = Tail(inbound))
  /\ \/ outbound' = outbound
     \/ /\ InSession /\ Len(outbound) < OutboundCap
        /\ outbound' = Append(outbound, Answer(cur, curN, FALSE))

\* A browser's signal arrives, or finds no socket or place.
Arrival ==
  /\ pushes < MaxPushes
  /\ \E s \in Sessions :
       Arrives(Offer(s, pushes + 1)) \/ Arrives(Candidate(s, pushes + 1))

Kinds ==
  \/ Idles \/ Drops \/ Leaves \/ Arrival \/ ProcessGone
  \/ TakeOffer \/ RouteCandidate \/ RefuseSecond \/ AnswerOffer \/ Gathers
  \/ \E m \in tasks : TaskSends(m) \/ RefusalFails(m)

LEMMA LoopKind == Loop => Idles \/ ProcessGone
<1>1. Connects => Idles
  BY DEF Connects, Idles, InSession, session
<1>2. ConnectFails => Idles
  BY DEF ConnectFails, Idles, InSession, session
<1>3. Retry => Idles
  BY DEF Retry, Idles, InSession, session
<1>4. SocketEnds => Idles
  BY DEF SocketEnds, Idles, InSession, session
<1>5. GoesSilent => Idles
  BY DEF GoesSilent, Idles, InSession, session
<1>6. Elapse => Idles
  BY DEF Elapse, Idles, InSession, session
<1>7. Send => Idles
  BY DEF Send, Idles, InSession, session
<1>8. SendFails => Idles
  BY DEF SendFails, Idles, InSession, session
<1>9. Shutdown => ProcessGone
  BY DEF Shutdown
<1> QED
  BY <1>1, <1>2, <1>3, <1>4, <1>5, <1>6, <1>7, <1>8, <1>9 DEF Loop

LEMMA ResetLeaves ==
  Reset => ~InSession' /\ cur' = None /\ curN' = 0 /\ gathered' = 0 /\ due' = {}
BY DEF Reset, InSession

LEMMA EndsLeaves == Ends => Leaves
BY ResetLeaves DEF Ends, Leaves

LEMMA SetupKind == Setup => Idles \/ Leaves \/ AnswerOffer
<1>1. SetupFails => Leaves
  BY EndsLeaves DEF SetupFails
<1>2. NeedSource => Idles
  BY DEF NeedSource, Idles, InSession
<1>3. BuildPeer => Idles
  BY DEF BuildPeer, Describe, Idles, InSession
<1>4. SourceDecided => Idles
  BY DEF SourceDecided, Describe, Idles, InSession
<1>5. RefuseOffer => Leaves
  BY ResetLeaves DEF RefuseOffer, Leaves, InSession
<1> QED
  BY <1>1, <1>2, <1>3, <1>4, <1>5 DEF Setup

LEMMA BetweenKind == Between => Idles \/ Drops \/ TakeOffer
<1>1. IceDecided => Idles
  BY DEF IceDecided, Idles, InSession
<1>2. IdleDrops => Drops
  BY DEF IdleDrops, Drops, InSession, session
<1> QED
  BY <1>1, <1>2 DEF Between

LEMMA RouteKind == Route => Drops \/ Leaves \/ RouteCandidate \/ RefuseSecond
<1>1. RouteForeign => Drops
  BY DEF RouteForeign, Routes, Drops, IsOwn, session
<1>2. RouteRejected => Leaves
  BY ResetLeaves DEF RouteRejected, Routes, Leaves
<1>3. RouteRedelivery => Drops
  BY DEF RouteRedelivery, Routes, Drops, IsOwn, session
<1> QED
  BY <1>1, <1>2, <1>3 DEF Route

LEMMA ServeKind == Serve => Idles \/ Leaves \/ ProcessGone
<1>1. PeerOpens => Idles
  BY DEF PeerOpens, HandshakeWaits, Idles, InSession
<1>2. Deadline \/ HandshakeEnds \/ SessionEnds \/ SessionStops => Leaves
  BY EndsLeaves DEF Deadline, HandshakeEnds, SessionEnds, SessionStops
<1>3. StreamEnds => ProcessGone
  BY DEF StreamEnds
<1> QED
  BY <1>1, <1>2, <1>3 DEF Serve

LEMMA StepKinds == [Next]_vars => Kinds
<1>1. Browsers => Arrival
  BY DEF Browsers, BrowserOffers, BrowserTrickles, Arrival
<1>2. PeerGoes \/ ConnectionFails => Idles
  BY DEF PeerGoes, ConnectionFails, Idles, InSession
<1>3. UNCHANGED vars => Idles
  BY DEF vars, Idles, InSession, session
<1>4. Tasks => \E m \in tasks : TaskSends(m) \/ RefusalFails(m)
  BY DEF Tasks
<1> QED
  BY <1>1, <1>2, <1>3, <1>4, LoopKind, BetweenKind, SetupKind, RouteKind, ServeKind DEF Next, Kinds

-----------------------------------------------------------------------------
(* Types of the session.                                                   *)

places == <<phase, cur, approve, peer, ended>>

\* The steps that touch a place of the session.
PlaceActs ==
  \/ Connects \/ ProcessGone \/ IceDecided \/ TakeOffer \/ NeedSource \/ BuildPeer
  \/ SourceDecided \/ AnswerOffer \/ PeerGoes \/ ConnectionFails \/ PeerOpens \/ Reset

LEMMA PlaceFrame == [Next]_vars => PlaceActs \/ UNCHANGED places
<1>1. ConnectFails => UNCHANGED places
  BY DEF ConnectFails, places, session
<1>2. Retry => UNCHANGED places
  BY DEF Retry, places, session
<1>3. SocketEnds => UNCHANGED places
  BY DEF SocketEnds, places, session
<1>4. GoesSilent => UNCHANGED places
  BY DEF GoesSilent, places, session
<1>5. Elapse => UNCHANGED places
  BY DEF Elapse, places, session
<1>6. Send => UNCHANGED places
  BY DEF Send, places, session
<1>7. SendFails => UNCHANGED places
  BY DEF SendFails, places, session
<1>8. IdleDrops => UNCHANGED places
  BY DEF IdleDrops, places, session
<1>9. Gathers => UNCHANGED places
  BY DEF Gathers, places
<1>10. RouteForeign => UNCHANGED places
  BY DEF RouteForeign, places, session
<1>11. RouteCandidate => UNCHANGED places
  BY DEF RouteCandidate, places
<1>12. RouteRedelivery => UNCHANGED places
  BY DEF RouteRedelivery, places, session
<1>13. RefuseSecond => UNCHANGED places
  BY DEF RefuseSecond, places, session
<1>14. Browsers => UNCHANGED places
  BY DEF Browsers, BrowserOffers, BrowserTrickles, Arrives, places
<1>15. Tasks => UNCHANGED places
  BY DEF Tasks, TaskSends, RefusalFails, places, session
<1>16. SetupFails \/ RefuseOffer \/ RouteRejected => Reset
  BY DEF SetupFails, RefuseOffer, RouteRejected, Ends
<1>17. Deadline \/ HandshakeEnds \/ SessionEnds \/ SessionStops => Reset
  BY DEF Deadline, HandshakeEnds, SessionEnds, SessionStops, Ends
<1>18. Shutdown \/ StreamEnds => ProcessGone
  BY DEF Shutdown, StreamEnds
<1>19. UNCHANGED vars => UNCHANGED places
  BY DEF vars, session, places
<1> QED
  BY <1>1, <1>2, <1>3, <1>4, <1>5, <1>6, <1>7, <1>8, <1>9, <1>10, <1>11, <1>12, <1>13, <1>14, <1>15, <1>16, <1>17, <1>18, <1>19
  DEF Next, Loop, Between, Setup, Route, Serve, PlaceActs

LEMMA PlacesStep ==
  ASSUME ChannelTypes, SessionPlaces, [Next]_vars
  PROVE  SessionPlaces'
<1>1. CASE UNCHANGED places
  <2>1. UNCHANGED <<phase, cur, approve, peer, ended>>
    BY <1>1 DEF places
  <2> QED
    BY <2>1, Zenon DEF SessionPlaces
<1>2. CASE Connects
  BY <1>2, Zenon DEF Connects, SessionPlaces
<1>3. CASE ProcessGone
  BY <1>3, Zenon DEF ProcessGone, SessionPlaces
<1>4. CASE IceDecided
  BY <1>4, Zenon DEF IceDecided, SessionPlaces
<1>5. CASE TakeOffer
  <2>1. Head(inbound) \in Inbound
    BY <1>5, TailFacts DEF TakeOffer, ChannelTypes
  <2>2. cur' \in Sessions
    BY <1>5, <2>1 DEF TakeOffer, Inbound
  <2>3. phase' = "building" /\ UNCHANGED <<approve, peer, ended>>
    BY <1>5 DEF TakeOffer
  <2> QED
    BY <2>2, <2>3, Zenon DEF SessionPlaces
<1>6. CASE NeedSource
  BY <1>6, Zenon DEF NeedSource, SessionPlaces
<1>7. CASE BuildPeer
  <2>1. (cur \in Terminal) \in BOOLEAN
    OBVIOUS
  <2> QED
    BY <1>7, <2>1, Zenon DEF BuildPeer, Describe, SessionPlaces
<1>8. CASE SourceDecided
  BY <1>8, Zenon DEF SourceDecided, Describe, SessionPlaces
<1>9. CASE AnswerOffer
  BY <1>9, Zenon DEF AnswerOffer, SessionPlaces
<1>10. CASE PeerGoes \/ ConnectionFails
  BY <1>10, Zenon DEF PeerGoes, ConnectionFails, SessionPlaces
<1>11. CASE PeerOpens
  BY <1>11, Zenon DEF PeerOpens, SessionPlaces
<1>12. CASE Reset
  BY <1>12, Zenon DEF Reset, SessionPlaces
<1> QED
  BY <1>1, <1>2, <1>3, <1>4, <1>5, <1>6, <1>7, <1>8, <1>9, <1>10, <1>11, <1>12, PlaceFrame DEF PlaceActs

\* A session in hand has the offer it took; between sessions there is none.
LEMMA ShapeStep ==
  ASSUME ChannelTypes, SessionPlaces, SessionNumbers, SessionShape,
         \A i \in 1..Len(inbound) : inbound[i].n \in 1..pushes,
         [Next]_vars
  PROVE  SessionShape'
<1> USE Bounds
<1>1. CASE Idles
  BY <1>1 DEF Idles, SessionShape
<1>2. CASE Drops
  BY <1>2 DEF Drops, SessionShape, InSession
<1>3. CASE Leaves
  BY <1>3 DEF Leaves, SessionShape
<1>4. CASE Arrival
  <2>1. pushes' = pushes + 1 /\ UNCHANGED <<phase, cur, curN>>
    BY <1>4 DEF Arrival, Arrives
  <2> QED
    BY <2>1 DEF SessionShape, InSession, SessionNumbers
<1>5. CASE ProcessGone
  BY <1>5 DEF ProcessGone, SessionShape, InSession
<1>6. CASE TakeOffer
  <2>1. Head(inbound) \in Inbound /\ Head(inbound) = inbound[1] /\ 1 \in 1..Len(inbound)
    BY <1>6, TailFacts DEF TakeOffer, ChannelTypes
  <2>2. cur' \in Sessions /\ curN' \in 1..pushes /\ InSession' /\ pushes' = pushes
    BY <1>6, <2>1 DEF TakeOffer, Inbound, InSession
  <2> QED
    BY <2>2 DEF SessionShape
<1>7. CASE RouteCandidate
  BY <1>7 DEF RouteCandidate, SessionShape, InSession
<1>8. CASE RefuseSecond
  BY <1>8 DEF RefuseSecond, SessionShape, InSession, session
<1>9. CASE AnswerOffer
  BY <1>9 DEF AnswerOffer, SessionShape, InSession
<1>10. CASE Gathers
  BY <1>10 DEF Gathers, SessionShape, InSession
<1>11. CASE \E m \in tasks : TaskSends(m) \/ RefusalFails(m)
  BY <1>11 DEF TaskSends, RefusalFails, SessionShape, InSession, session
<1> QED
  BY <1>1, <1>2, <1>3, <1>4, <1>5, <1>6, <1>7, <1>8, <1>9, <1>10, <1>11, StepKinds DEF Kinds

\* A browser's signal has the next number.
LEMMA NewSignal ==
  ASSUME SessionNumbers, Arrival
  PROVE  \E m \in Inbound : m.n = pushes + 1 /\ Arrives(m)
<1>1. PICK s \in Sessions :
        Arrives(Offer(s, pushes + 1)) \/ Arrives(Candidate(s, pushes + 1))
  BY DEF Arrival
<1>2. pushes + 1 \in 1..MaxPushes
  BY Bounds DEF Arrival, SessionNumbers
<1>3. /\ Offer(s, pushes + 1) \in Inbound /\ Offer(s, pushes + 1).n = pushes + 1
      /\ Candidate(s, pushes + 1) \in Inbound /\ Candidate(s, pushes + 1).n = pushes + 1
  BY <1>2, Zenon DEF Offer, Candidate, Inbound
<1> QED
  BY <1>1, <1>3

\* The session's numbers stay within their bounds.
LEMMA SessionNumbersStep ==
  ASSUME ChannelTypes, SessionNumbers, [Next]_vars
  PROVE  SessionNumbers'
<1> USE Bounds
<1>1. CASE Idles
  BY <1>1 DEF Idles, SessionNumbers
<1>2. CASE Drops
  BY <1>2 DEF Drops, SessionNumbers
<1>3. CASE Leaves
  BY <1>3 DEF Leaves, SessionNumbers
<1>4. CASE Arrival
  <2>1. PICK m \in Inbound : m.n = pushes + 1 /\ Arrives(m)
    BY <1>4, NewSignal
  <2>2. pushes' = pushes + 1 /\ pushes + 1 \in 1..MaxPushes
    BY <1>4, <2>1 DEF Arrival, Arrives, SessionNumbers
  <2>3. curN' = curN /\ gathered' = gathered
    BY <2>1 DEF Arrives
  <2>4. due' \subseteq due \cup {pushes + 1}
    BY <2>1 DEF Arrives
  <2> QED
    BY <2>2, <2>3, <2>4 DEF SessionNumbers
<1>5. CASE ProcessGone
  BY <1>5 DEF ProcessGone, SessionNumbers
<1>6. CASE TakeOffer
  <2>1. Head(inbound) \in Inbound /\ Tail(inbound) \in Seq(Inbound)
    BY <1>6, TailFacts DEF TakeOffer, ChannelTypes
  <2>2. Elems(Tail(inbound)) \subseteq Inbound
    BY <2>1, ElemsIn
  <2>3. OwnIn(Tail(inbound), cur') \subseteq 1..MaxPushes
    BY <2>2 DEF OwnIn, Inbound
  <2>4. curN' \in 1..MaxPushes /\ due' = OwnIn(Tail(inbound), cur')
    BY <1>6, <2>1 DEF TakeOffer, Inbound
  <2>5. UNCHANGED <<pushes, gathered>>
    BY <1>6 DEF TakeOffer
  <2> QED
    BY <2>3, <2>4, <2>5 DEF SessionNumbers
<1>7. CASE RouteCandidate
  BY <1>7 DEF RouteCandidate, SessionNumbers
<1>8. CASE RefuseSecond
  BY <1>8 DEF RefuseSecond, SessionNumbers, session
<1>9. CASE AnswerOffer
  BY <1>9 DEF AnswerOffer, SessionNumbers
<1>10. CASE Gathers
  BY <1>10 DEF Gathers, SessionNumbers
<1>11. CASE \E m \in tasks : TaskSends(m) \/ RefusalFails(m)
  BY <1>11 DEF TaskSends, RefusalFails, SessionNumbers, session
<1> QED
  BY <1>1, <1>2, <1>3, <1>4, <1>5, <1>6, <1>7, <1>8, <1>9, <1>10, <1>11, StepKinds DEF Kinds

\* What the session in hand says of itself is a message.
LEMMA OwnMessages ==
  ASSUME SessionNumbers, SessionShape, InSession, NEW ok \in BOOLEAN
  PROVE  /\ Answer(cur, curN, ok) \in Outbound
         /\ gathered < MaxCands => Gathered(cur, curN + gathered) \in Outbound
<1> USE Bounds
<1>1. cur \in Sessions /\ curN \in 1..MaxPushes /\ curN \in 1..(MaxPushes + MaxCands)
  BY DEF SessionNumbers, SessionShape
<1>2. gathered < MaxCands => curN + gathered \in 1..(MaxPushes + MaxCands)
  BY <1>1 DEF SessionNumbers
<1> QED
  BY <1>1, <1>2, Zenon DEF Answer, Gathered, Outbound

\* The channels keep their types and capacities.
LEMMA ChannelTypesStep ==
  ASSUME ChannelTypes, SessionNumbers, SessionShape, [Next]_vars
  PROVE  ChannelTypes'
<1> USE Bounds
<1>a. ASSUME inbound # <<>>
      PROVE  /\ Tail(inbound) \in Seq(Inbound) /\ Len(Tail(inbound)) <= InboundCap
             /\ Head(inbound) \in Inbound
  BY <1>a, TailFacts DEF ChannelTypes
<1>b. ASSUME NEW m \in Outbound, Len(outbound) < OutboundCap
      PROVE  /\ Append(outbound, m) \in Seq(Outbound)
             /\ Len(Append(outbound, m)) <= OutboundCap
  BY <1>b, AppendFacts DEF ChannelTypes
<1>1. CASE Idles
  <2>1. outbound # <<>> => Tail(outbound) \in Seq(Outbound) /\ Len(Tail(outbound)) <= OutboundCap
    BY TailFacts DEF ChannelTypes
  <2> QED
    BY <1>1, <2>1 DEF Idles, ChannelTypes
<1>2. CASE Drops
  BY <1>2, <1>a DEF Drops, ChannelTypes
<1>3. CASE Leaves
  <2>1. inbound' \in Seq(Inbound) /\ Len(inbound') <= InboundCap
    BY <1>3, <1>a DEF Leaves, ChannelTypes
  <2>2. outbound' \in Seq(Outbound) /\ Len(outbound') <= OutboundCap
    <3>1. CASE outbound' = outbound
      BY <3>1 DEF ChannelTypes
    <3>2. CASE InSession /\ Len(outbound) < OutboundCap /\ outbound' = Append(outbound, Answer(cur, curN, FALSE))
      BY <3>2, <1>b, OwnMessages
    <3> QED
      BY <1>3, <3>1, <3>2 DEF Leaves
  <2> QED
    BY <1>3, <2>1, <2>2 DEF Leaves, ChannelTypes
<1>4. CASE Arrival
  <2>1. PICK m \in Inbound : Arrives(m)
    BY <1>4, NewSignal
  <2>2. Len(inbound) < InboundCap => Len(Append(inbound, m)) <= InboundCap
    BY AppendFacts DEF ChannelTypes
  <2>3. Append(inbound, m) \in Seq(Inbound)
    BY AppendFacts DEF ChannelTypes
  <2>4. inbound' \in Seq(Inbound) /\ Len(inbound') <= InboundCap
    BY <2>1, <2>2, <2>3 DEF Arrives, ChannelTypes
  <2> QED
    BY <2>1, <2>4 DEF Arrives, ChannelTypes
<1>5. CASE ProcessGone
  BY <1>5, EmptySeq DEF ProcessGone, ChannelTypes
<1>6. CASE TakeOffer
  BY <1>6, <1>a DEF TakeOffer, ChannelTypes
<1>7. CASE RouteCandidate
  BY <1>7, <1>a DEF RouteCandidate, Routes, ChannelTypes
<1>8. CASE RefuseSecond
  <2>1. inbound # <<>> /\ tasks' = tasks \cup {Answer(Head(inbound).of, Head(inbound).n, FALSE)}
    BY <1>8 DEF RefuseSecond, Routes
  <2>2. Head(inbound).of \in Sessions /\ Head(inbound).n \in 1..(MaxPushes + MaxCands)
    BY <2>1, <1>a DEF Inbound
  <2>3. Answer(Head(inbound).of, Head(inbound).n, FALSE) \in Outbound
    BY <2>2, Zenon DEF Answer, Outbound
  <2> QED
    BY <1>8, <2>1, <2>3, <1>a DEF RefuseSecond, ChannelTypes
<1>9. CASE AnswerOffer
  <2>1. InSession
    BY <1>9 DEF AnswerOffer, InSession
  <2>2. Answer(cur, curN, TRUE) \in Outbound
    BY <2>1, OwnMessages
  <2> QED
    BY <1>9, <2>2, <1>b DEF AnswerOffer, ChannelTypes
<1>10. CASE Gathers
  <2>1. InSession /\ gathered < MaxCands
    BY <1>10 DEF Gathers, InSession
  <2>2. Gathered(cur, curN + gathered) \in Outbound
    BY <2>1, OwnMessages
  <2> QED
    BY <1>10, <2>2 DEF Gathers, ChannelTypes
<1>11. CASE \E m \in tasks : TaskSends(m) \/ RefusalFails(m)
  <2>1. PICK m \in Outbound : TaskSends(m) \/ RefusalFails(m)
    BY <1>11 DEF ChannelTypes
  <2>2. CASE TaskSends(m)
    BY <2>2, <1>b DEF TaskSends, ChannelTypes
  <2>3. CASE RefusalFails(m)
    BY <2>3 DEF RefusalFails, ChannelTypes
  <2> QED
    BY <2>1, <2>2, <2>3
<1> QED
  BY <1>1, <1>2, <1>3, <1>4, <1>5, <1>6, <1>7, <1>8, <1>9, <1>10, <1>11, StepKinds DEF Kinds

-----------------------------------------------------------------------------
(* Candidates and refusals.                                                *)

\* Signals wait in the order they were sent in.
InboundOrdered ==
  /\ \A i \in 1..Len(inbound) : inbound[i].n \in 1..pushes
  /\ \A i, j \in 1..Len(inbound) : i < j => inbound[i].n < inbound[j].n

\* What waits came after the offer in hand.
OfferFirst == InSession => \A i \in 1..Len(inbound) : curN < inbound[i].n

\* What waits came after every offer that was refused.
Refused(m) == m.type = "answer" /\ ~m.approved
RefusedFirst ==
  \A m \in tasks \cup Elems(outbound) : Refused(m) =>
    m.n <= pushes /\ \A i \in 1..Len(inbound) : m.n < inbound[i].n

\* The history is what waits.
DueWaits == InSession => due = OwnIn(inbound, cur)

\* The head of an ordered queue came before its tail.
LEMMA HeadFirst ==
  ASSUME inbound \in Seq(Inbound), InboundOrdered, inbound # <<>>
  PROVE  /\ \A i \in 1..Len(Tail(inbound)) : Head(inbound).n < Tail(inbound)[i].n
         /\ \A i \in 1..Len(Tail(inbound)) : Tail(inbound)[i].n \in 1..pushes
         /\ \A i, j \in 1..Len(Tail(inbound)) :
              i < j => Tail(inbound)[i].n < Tail(inbound)[j].n
         /\ \A k : (\A i \in 1..Len(inbound) : k < inbound[i].n)
                   => \A i \in 1..Len(Tail(inbound)) : k < Tail(inbound)[i].n
         /\ Head(inbound).n \in 1..pushes
<1> DEFINE t == Tail(inbound)
<1>1. /\ Head(inbound) = inbound[1] /\ Len(inbound) \in Nat \ {0}
      /\ Len(t) = Len(inbound) - 1
      /\ \A i \in 1..Len(t) : t[i] = inbound[i + 1]
  BY TailFacts
<1>2. /\ 1 \in 1..Len(inbound)
      /\ \A i \in 1..Len(t) : i + 1 \in 1..Len(inbound) /\ 1 < i + 1
  BY <1>1
<1>3. \A i, j \in 1..Len(t) : i < j => i + 1 < j + 1
  BY <1>1
<1> HIDE DEF t
<1> QED
  BY <1>1, <1>2, <1>3 DEF InboundOrdered, t

\* Signals stay in order, numbered by what browsers have sent.
LEMMA OrderedStep ==
  ASSUME ChannelTypes, SessionNumbers, InboundOrdered, [Next]_vars
  PROVE  InboundOrdered'
<1>a. ASSUME inbound # <<>>, inbound' = Tail(inbound), pushes' = pushes
      PROVE  InboundOrdered'
  BY <1>a, HeadFirst DEF ChannelTypes, InboundOrdered
<1>b. ASSUME inbound' = inbound, pushes' = pushes PROVE InboundOrdered'
  BY <1>b DEF InboundOrdered
<1>1. CASE Idles
  BY <1>1, <1>b DEF Idles
<1>2. CASE Drops
  BY <1>2, <1>a DEF Drops
<1>3. CASE Leaves
  BY <1>3, <1>a, <1>b DEF Leaves
<1>4. CASE Arrival
  <2>1. PICK m \in Inbound : m.n = pushes + 1 /\ Arrives(m)
    BY <1>4, NewSignal DEF ChannelTypes
  <2>2. pushes' = pushes + 1 /\ pushes \in Nat
    BY <2>1 DEF Arrives, SessionNumbers
  <2>3. CASE inbound' = inbound
    BY <2>2, <2>3 DEF InboundOrdered
  <2>4. CASE inbound' = Append(inbound, m)
    <3>1. /\ Len(inbound') = Len(inbound) + 1 /\ Len(inbound) \in Nat
          /\ \A i \in 1..Len(inbound) : inbound'[i] = inbound[i]
          /\ inbound'[Len(inbound) + 1] = m
      BY <2>4, AppendFacts DEF ChannelTypes
    <3>2. \A i \in 1..Len(inbound') : i \in 1..Len(inbound) \/ i = Len(inbound) + 1
      BY <3>1
    <3>3. \A i \in 1..Len(inbound') : inbound'[i].n \in 1..pushes'
      BY <2>1, <2>2, <3>1, <3>2 DEF InboundOrdered
    <3>4. ASSUME NEW i \in 1..Len(inbound'), NEW j \in 1..Len(inbound'), i < j
          PROVE  inbound'[i].n < inbound'[j].n
      <4>1. i \in 1..Len(inbound)
        BY <3>1, <3>4
      <4>2. CASE j \in 1..Len(inbound)
        BY <3>1, <3>4, <4>1, <4>2 DEF InboundOrdered
      <4>3. CASE j = Len(inbound) + 1
        <5>1. inbound'[j].n = pushes + 1 /\ inbound'[i].n \in 1..pushes
          BY <2>1, <3>1, <4>1, <4>3 DEF InboundOrdered
        <5> QED
          BY <2>2, <5>1
      <4> QED
        BY <3>2, <4>2, <4>3
    <3> QED
      BY <3>3, <3>4 DEF InboundOrdered
  <2> QED
    BY <2>1, <2>3, <2>4 DEF Arrives
<1>5. CASE ProcessGone
  BY <1>5, EmptySeq DEF ProcessGone, InboundOrdered
<1>6. CASE TakeOffer
  BY <1>6, <1>a DEF TakeOffer
<1>7. CASE RouteCandidate
  BY <1>7, <1>a DEF RouteCandidate, Routes
<1>8. CASE RefuseSecond
  BY <1>8, <1>a DEF RefuseSecond, Routes
<1>9. CASE AnswerOffer
  BY <1>9, <1>b DEF AnswerOffer
<1>10. CASE Gathers
  BY <1>10, <1>b DEF Gathers
<1>11. CASE \E m \in tasks : TaskSends(m) \/ RefusalFails(m)
  BY <1>11, <1>b DEF TaskSends, RefusalFails
<1> QED
  BY <1>1, <1>2, <1>3, <1>4, <1>5, <1>6, <1>7, <1>8, <1>9, <1>10, <1>11, StepKinds DEF Kinds

\* How a step that is not an arrival changes inbound, and how an arrival does.
LEMMA InboundMoves ==
  ASSUME ChannelTypes, SessionNumbers, InboundOrdered, [Next]_vars,
         NEW k \in Nat, k <= pushes, \A i \in 1..Len(inbound) : k < inbound[i].n
  PROVE  \A i \in 1..Len(inbound') : inbound'[i].n > k
<1>a. inbound # <<>> => \A i \in 1..Len(Tail(inbound)) : k < Tail(inbound)[i].n
  BY HeadFirst DEF ChannelTypes
<1>b. inbound # <<>> => \A i \in 1..Len(Tail(inbound)) : Tail(inbound)[i].n \in Nat
  BY HeadFirst, Bounds DEF ChannelTypes, SessionNumbers
<1>c. \A i \in 1..Len(inbound) : inbound[i].n \in Nat
  BY Bounds DEF InboundOrdered, SessionNumbers
<1>1. CASE inbound' = inbound
  BY <1>1, <1>c
<1>2. CASE inbound # <<>> /\ inbound' = Tail(inbound)
  BY <1>2, <1>a, <1>b
<1>3. CASE Arrival
  <2>1. PICK m \in Inbound : m.n = pushes + 1 /\ Arrives(m)
    BY <1>3, NewSignal
  <2>2. CASE inbound' = Append(inbound, m)
    <3>1. /\ Len(inbound') = Len(inbound) + 1 /\ Len(inbound) \in Nat
          /\ \A i \in 1..Len(inbound) : inbound'[i] = inbound[i]
          /\ inbound'[Len(inbound) + 1] = m
      BY <2>2, AppendFacts DEF ChannelTypes
    <3>2. \A i \in 1..Len(inbound') : i \in 1..Len(inbound) \/ i = Len(inbound) + 1
      BY <3>1
    <3>3. m.n > k
      BY <2>1 DEF SessionNumbers
    <3> QED
      BY <3>1, <3>2, <3>3, <1>c
  <2> QED
    BY <2>1, <2>2, <1>1 DEF Arrives
<1>4. CASE ProcessGone
  BY <1>4, EmptySeq DEF ProcessGone
<1>5. \/ inbound' = inbound \/ (inbound # <<>> /\ inbound' = Tail(inbound))
      \/ Arrival \/ ProcessGone
  BY StepKinds DEF Kinds, Idles, Drops, Leaves, TakeOffer, RouteCandidate, RefuseSecond, Routes, AnswerOffer, Gathers, TaskSends, RefusalFails
<1> QED
  BY <1>1, <1>2, <1>3, <1>4, <1>5

\* What browsers have sent only grows.
LEMMA PushesGrow ==
  ASSUME SessionNumbers, [Next]_vars
  PROVE  pushes' \in Nat /\ pushes <= pushes'
<1> USE Bounds DEF SessionNumbers
<1>1. Arrival => pushes' = pushes + 1
  BY DEF Arrival, Arrives
<1>2. pushes' = pushes \/ Arrival
  BY StepKinds DEF Kinds, Idles, Drops, Leaves, TakeOffer, RouteCandidate, RefuseSecond, AnswerOffer, Gathers, TaskSends, RefusalFails, ProcessGone
<1> QED
  BY <1>1, <1>2

\* What waits came after the offer in hand, also when the offer is taken.
LEMMA OfferFirstStep ==
  ASSUME ChannelTypes, SessionNumbers, SessionShape, InboundOrdered, OfferFirst, [Next]_vars
  PROVE  OfferFirst'
<1>1. CASE TakeOffer
  BY <1>1, HeadFirst DEF TakeOffer, ChannelTypes, OfferFirst
<1>2. ASSUME InSession, curN' = curN PROVE OfferFirst'
  <2>1. curN \in Nat /\ curN <= pushes
    BY <1>2, Bounds DEF SessionShape, SessionNumbers
  <2>2. \A i \in 1..Len(inbound) : curN < inbound[i].n
    BY <1>2 DEF OfferFirst
  <2>3. \A i \in 1..Len(inbound') : inbound'[i].n > curN
    BY <2>1, <2>2, InboundMoves
  <2>4. \A i \in 1..Len(inbound') : inbound'[i].n \in Nat
    <3>1. InboundOrdered' /\ pushes' \in Nat
      BY OrderedStep, PushesGrow
    <3> QED
      BY <3>1 DEF InboundOrdered
  <2> QED
    BY <1>2, <2>1, <2>3, <2>4 DEF OfferFirst
<1>3. ASSUME ~InSession' PROVE OfferFirst'
  BY <1>3 DEF OfferFirst
<1>4. ~TakeOffer => (InSession /\ curN' = curN) \/ ~InSession'
  BY StepKinds DEF Kinds, Idles, Drops, Leaves, Arrival, Arrives, RouteCandidate, RefuseSecond, AnswerOffer, Gathers, TaskSends, RefusalFails, ProcessGone, InSession, session
<1> QED
  BY <1>1, <1>2, <1>3, <1>4

\* A refusal enters the channels with a number that was taken off inbound.
LEMMA RefusedFirstStep ==
  ASSUME ChannelTypes, SessionNumbers, SessionShape, InboundOrdered, OfferFirst,
         RefusedFirst, [Next]_vars
  PROVE  RefusedFirst'
<1> DEFINE Sent == tasks \cup Elems(outbound)
<1>1. ASSUME NEW m \in Sent, Refused(m)
      PROVE  m.n <= pushes' /\ \A i \in 1..Len(inbound') : m.n < inbound'[i].n
  <2>1. m \in Outbound
    BY ElemsIn DEF ChannelTypes
  <2>2. m.n \in Nat /\ m.n <= pushes /\ \A i \in 1..Len(inbound) : m.n < inbound[i].n
    BY <1>1, <2>1, Bounds DEF RefusedFirst, Outbound
  <2>3. \A i \in 1..Len(inbound') : inbound'[i].n > m.n
    BY <2>2, InboundMoves
  <2>4. InboundOrdered' /\ pushes' \in Nat /\ pushes <= pushes'
    BY OrderedStep, PushesGrow
  <2>5. \A i \in 1..Len(inbound') : inbound'[i].n \in Nat
    BY <2>4 DEF InboundOrdered
  <2> QED
    BY <2>2, <2>3, <2>4, <2>5, Bounds DEF SessionNumbers
<1>2. ASSUME NEW m \in Sent', Refused(m), m \notin Sent
      PROVE  m.n <= pushes' /\ \A i \in 1..Len(inbound') : m.n < inbound'[i].n
  <2> USE <1>2
  <2>a. outbound # <<>> => Elems(Tail(outbound)) \subseteq Elems(outbound)
    BY TailFacts DEF ChannelTypes
  <2>b. ASSUME NEW x \in Outbound PROVE Elems(Append(outbound, x)) = Elems(outbound) \cup {x}
    BY AppendFacts DEF ChannelTypes
  <2>1. CASE Idles
    BY <2>1, <2>a DEF Idles
  <2>2. CASE Drops
    BY <2>2 DEF Drops
  <2>3. CASE Leaves
    <3>1. /\ InSession /\ outbound' = Append(outbound, Answer(cur, curN, FALSE))
          /\ tasks' = tasks /\ pushes' = pushes
      BY <2>3 DEF Leaves
    <3>2. m = Answer(cur, curN, FALSE)
      BY <3>1, <2>b, OwnMessages
    <3>3. m.n = curN /\ curN \in Nat /\ curN <= pushes
      BY <3>1, <3>2, Bounds DEF Answer, SessionShape, SessionNumbers
    <3>4. \A i \in 1..Len(inbound) : curN < inbound[i].n
      BY <3>1 DEF OfferFirst
    <3>5. inbound # <<>> => \A i \in 1..Len(Tail(inbound)) : curN < Tail(inbound)[i].n
      BY <3>4, HeadFirst DEF ChannelTypes
    <3> QED
      BY <2>3, <3>1, <3>3, <3>4, <3>5 DEF Leaves
  <2>4. CASE Arrival
    BY <2>4 DEF Arrival, Arrives
  <2>5. CASE ProcessGone
    BY <2>5, EmptySeq DEF ProcessGone, Elems
  <2>6. CASE TakeOffer
    BY <2>6 DEF TakeOffer
  <2>7. CASE RouteCandidate
    BY <2>7 DEF RouteCandidate
  <2>8. CASE RefuseSecond
    <3>1. /\ inbound # <<>> /\ inbound' = Tail(inbound) /\ pushes' = pushes
          /\ m = Answer(Head(inbound).of, Head(inbound).n, FALSE)
      BY <2>8 DEF RefuseSecond, Routes
    <3>2. m.n = Head(inbound).n
      BY <3>1 DEF Answer
    <3>3. Head(inbound).n \in 1..pushes
      BY <3>1, HeadFirst DEF ChannelTypes
    <3>4. \A i \in 1..Len(Tail(inbound)) : Head(inbound).n < Tail(inbound)[i].n
      BY <3>1, HeadFirst DEF ChannelTypes
    <3>5. \A k \in 1..pushes : k <= pushes
      BY Bounds DEF SessionNumbers
    <3>6. m.n <= pushes'
      BY <3>1, <3>2, <3>3, <3>5, Zenon
    <3>7. \A i \in 1..Len(inbound') : m.n < inbound'[i].n
      BY <3>1, <3>2, <3>4, Zenon
    <3> QED
      BY <3>6, <3>7
  <2>9. CASE AnswerOffer
    <3>1. InSession /\ outbound' = Append(outbound, Answer(cur, curN, TRUE)) /\ tasks' = tasks
      BY <2>9 DEF AnswerOffer, InSession
    <3>2. m = Answer(cur, curN, TRUE)
      BY <3>1, <2>b, OwnMessages
    <3> QED
      BY <3>2 DEF Answer, Refused
  <2>10. CASE Gathers
    BY <2>10 DEF Gathers, Gathered, Refused
  <2>11. CASE \E x \in tasks : TaskSends(x) \/ RefusalFails(x)
    <3>1. PICK x \in tasks : TaskSends(x) \/ RefusalFails(x)
      BY <2>11
    <3>2. x \in Outbound
      BY DEF ChannelTypes
    <3>3. CASE TaskSends(x)
      BY <3>3, <3>2, <2>b DEF TaskSends
    <3>4. CASE RefusalFails(x)
      BY <3>4 DEF RefusalFails
    <3> QED
      BY <3>1, <3>3, <3>4
  <2> QED
    BY <2>1, <2>2, <2>3, <2>4, <2>5, <2>6, <2>7, <2>8, <2>9, <2>10, <2>11, StepKinds DEF Kinds
<1> QED
  BY <1>1, <1>2 DEF RefusedFirst

\* Taking the head off an ordered queue takes its number out of OwnIn, if it was
\* there, and no other.
LEMMA OwnInTail ==
  ASSUME inbound \in Seq(Inbound), InboundOrdered, inbound # <<>>, NEW s,
         pushes \in Nat
  PROVE  /\ Head(inbound).type = "candidate" /\ Head(inbound).of = s =>
              OwnIn(Tail(inbound), s) = OwnIn(inbound, s) \ {Head(inbound).n}
         /\ ~(Head(inbound).type = "candidate" /\ Head(inbound).of = s) =>
              OwnIn(Tail(inbound), s) = OwnIn(inbound, s)
<1> DEFINE h == Head(inbound)
           t == Tail(inbound)
<1>1. Elems(inbound) = Elems(t) \cup {h}
  BY TailFacts
<1>2. \A x \in Elems(t) : x.n # h.n
  <2>1. \A i \in 1..Len(t) : h.n < t[i].n /\ t[i].n \in 1..pushes
    BY HeadFirst
  <2>2. h.n \in 1..pushes
    BY HeadFirst
  <2>3. \A i \in 1..Len(t) : t[i].n # h.n
    BY <2>1, <2>2
  <2> QED
    BY <2>3 DEF Elems
<1> HIDE DEF h, t
<1>3. ASSUME h.type = "candidate" /\ h.of = s PROVE OwnIn(t, s) = OwnIn(inbound, s) \ {h.n}
  BY <1>1, <1>2, <1>3 DEF OwnIn
<1>4. ASSUME ~(h.type = "candidate" /\ h.of = s) PROVE OwnIn(t, s) = OwnIn(inbound, s)
  BY <1>1, <1>4 DEF OwnIn
<1> QED
  BY <1>3, <1>4 DEF h, t

\* The session's candidates wait or were given to its peer.
LEMMA DueStep ==
  ASSUME ChannelTypes, SessionNumbers, InboundOrdered, DueWaits, [Next]_vars
  PROVE  DueWaits'
<1>a. pushes \in Nat
  BY Bounds DEF SessionNumbers
<1>1. CASE Idles
  BY <1>1 DEF Idles, DueWaits
<1>2. CASE Drops
  <2>1. ASSUME InSession PROVE OwnIn(Tail(inbound), cur) = OwnIn(inbound, cur)
    BY <1>2, <1>a, <2>1, OwnInTail DEF Drops, IsOwn, ChannelTypes
  <2> QED
    BY <1>2, <2>1 DEF Drops, DueWaits, InSession
<1>3. CASE Leaves
  BY <1>3 DEF Leaves, DueWaits
<1>4. CASE Arrival
  <2>1. PICK m \in Inbound : Arrives(m)
    BY <1>4, NewSignal
  <2>2. UNCHANGED <<phase, cur>>
    BY <2>1 DEF Arrives
  <2>3. CASE inbound' = inbound
    BY <2>1, <2>2, <2>3 DEF Arrives, DueWaits, InSession
  <2>4. CASE inbound' = Append(inbound, m) /\ inbound' # inbound
    <3>1. Elems(inbound') = Elems(inbound) \cup {m}
      BY <2>4, AppendFacts DEF ChannelTypes
    <3>2. due' = IF InSession /\ IsOwn(m) THEN due \cup {m.n} ELSE due
      BY <2>1, <2>4 DEF Arrives
    <3>3. OwnIn(inbound', cur) = IF IsOwn(m) THEN OwnIn(inbound, cur) \cup {m.n}
                                ELSE OwnIn(inbound, cur)
      BY <3>1 DEF OwnIn, IsOwn
    <3> QED
      BY <2>2, <3>2, <3>3 DEF DueWaits, InSession
  <2> QED
    BY <2>1, <2>3, <2>4 DEF Arrives
<1>5. CASE ProcessGone
  BY <1>5 DEF ProcessGone, DueWaits, InSession
<1>6. CASE TakeOffer
  BY <1>6 DEF TakeOffer, DueWaits
<1>7. CASE RouteCandidate
  <2>1. inbound # <<>> /\ InSession /\ inbound' = Tail(inbound) /\ due' = due \ {Head(inbound).n}
    BY <1>7 DEF RouteCandidate, Routes, InSession
  <2>2. OwnIn(Tail(inbound), cur) = OwnIn(inbound, cur) \ {Head(inbound).n}
    BY <1>7, <1>a, <2>1, OwnInTail DEF RouteCandidate, IsOwn, ChannelTypes
  <2> QED
    BY <1>7, <2>1, <2>2 DEF RouteCandidate, DueWaits
<1>8. CASE RefuseSecond
  <2>1. OwnIn(Tail(inbound), cur) = OwnIn(inbound, cur)
    <3>1. inbound # <<>> /\ Head(inbound).type # "candidate"
      BY <1>8 DEF RefuseSecond, Routes
    <3> QED
      BY <3>1, <1>a, OwnInTail DEF ChannelTypes
  <2> QED
    BY <1>8, <2>1 DEF RefuseSecond, DueWaits, InSession, session
<1>9. CASE AnswerOffer
  BY <1>9 DEF AnswerOffer, DueWaits, InSession
<1>10. CASE Gathers
  BY <1>10 DEF Gathers, DueWaits, InSession
<1>11. CASE \E m \in tasks : TaskSends(m) \/ RefusalFails(m)
  BY <1>11 DEF TaskSends, RefusalFails, DueWaits, InSession, session
<1> QED
  BY <1>1, <1>2, <1>3, <1>4, <1>5, <1>6, <1>7, <1>8, <1>9, <1>10, <1>11, StepKinds DEF Kinds

\* A refusal that is on its way answers an older delivery than the live session's.
LEMMA RedeliveryStep ==
  ASSUME ChannelTypes, ChannelTypes', SessionNumbers, SessionShape, InboundOrdered,
         RefusedFirst, RedeliveryHarmless, [Next]_vars
  PROVE  RedeliveryHarmless'
<1> DEFINE Sent == tasks \cup Elems(outbound)
<1> SUFFICES ASSUME NEW m \in Sent', Refused(m), m.of = cur'
             PROVE  m.n < curN'
  BY DEF RedeliveryHarmless, Refused
<1>a. m \in Outbound /\ m.of # None
  <2>1. m \in Outbound
    BY ElemsIn DEF ChannelTypes
  <2> QED
    BY <2>1, SupervisorAssumption DEF Outbound, Sessions
<1>b. outbound # <<>> => Elems(Tail(outbound)) \subseteq Elems(outbound)
  BY TailFacts DEF ChannelTypes
<1>c. ASSUME NEW x \in Outbound PROVE Elems(Append(outbound, x)) = Elems(outbound) \cup {x}
  BY AppendFacts DEF ChannelTypes
<1>d. ASSUME m \in Sent, cur' = cur, curN' = curN PROVE m.n < curN'
  BY <1>d DEF RedeliveryHarmless, Refused
<1>1. CASE Idles
  BY <1>1, <1>b, <1>d DEF Idles
<1>2. CASE Drops
  BY <1>2, <1>d DEF Drops
<1>3. CASE Leaves
  BY <1>3, <1>a DEF Leaves
<1>4. CASE Arrival
  BY <1>4, <1>d DEF Arrival, Arrives
<1>5. CASE ProcessGone
  BY <1>5, <1>a DEF ProcessGone
<1>6. CASE TakeOffer
  <2>1. m \in Sent /\ inbound # <<>> /\ curN' = Head(inbound).n
    BY <1>6 DEF TakeOffer
  <2>2. Head(inbound) = inbound[1] /\ 1 \in 1..Len(inbound)
    BY <2>1, TailFacts DEF ChannelTypes
  <2> QED
    BY <2>1, <2>2 DEF RefusedFirst
<1>7. CASE RouteCandidate
  BY <1>7, <1>d DEF RouteCandidate
<1>8. CASE RefuseSecond
  <2>1. cur' = cur /\ curN' = curN /\ Head(inbound).of # cur
    BY <1>8 DEF RefuseSecond, session
  <2>2. m \in Sent \/ m = Answer(Head(inbound).of, Head(inbound).n, FALSE)
    BY <1>8 DEF RefuseSecond
  <2> QED
    BY <2>1, <2>2, <1>d DEF Answer
<1>9. CASE AnswerOffer
  <2>1. /\ InSession /\ outbound' = Append(outbound, Answer(cur, curN, TRUE))
        /\ tasks' = tasks /\ cur' = cur /\ curN' = curN
    BY <1>9 DEF AnswerOffer, InSession
  <2>2. m \in Sent \/ m = Answer(cur, curN, TRUE)
    BY <2>1, <1>c, OwnMessages
  <2> QED
    BY <2>1, <2>2, <1>d DEF Answer, Refused
<1>10. CASE Gathers
  BY <1>10, <1>d DEF Gathers, Gathered, Refused
<1>11. CASE \E x \in tasks : TaskSends(x) \/ RefusalFails(x)
  <2>1. PICK x \in tasks : TaskSends(x) \/ RefusalFails(x)
    BY <1>11
  <2>2. x \in Outbound
    BY DEF ChannelTypes
  <2>3. CASE TaskSends(x)
    BY <2>2, <2>3, <1>c, <1>d DEF TaskSends, session
  <2>4. CASE RefusalFails(x)
    BY <2>4, <1>d DEF RefusalFails, session
  <2> QED
    BY <2>1, <2>3, <2>4
<1> QED
  BY <1>1, <1>2, <1>3, <1>4, <1>5, <1>6, <1>7, <1>8, <1>9, <1>10, <1>11, StepKinds DEF Kinds

-----------------------------------------------------------------------------
(* The invariant.                                                          *)

Types == LoopPlaces /\ LoopNumbers /\ ChannelTypes /\ SessionPlaces /\ SessionNumbers

Inv ==
  /\ Types /\ SessionShape
  /\ InboundOrdered /\ OfferFirst /\ RefusedFirst /\ DueWaits /\ RedeliveryHarmless

LEMMA InitInv == Init => Inv
<1> SUFFICES ASSUME Init PROVE Inv
  OBVIOUS
<1> USE Bounds
<1>1. inbound = <<>> /\ outbound = <<>> /\ tasks = {} /\ ~InSession
  BY DEF Init, InSession
<1>2. Elems(outbound) = {} /\ Len(inbound) = 0 /\ Len(outbound) = 0
  BY <1>1, EmptySeq DEF Elems
<1>3. LoopPlaces
  BY Zenon DEF Init, LoopPlaces
<1>4. LoopNumbers
  BY DEF Init, LoopNumbers, BackoffInitial, BackoffMax
<1>5. ChannelTypes
  BY <1>1, <1>2, EmptySeq DEF ChannelTypes
<1>6. SessionPlaces
  BY Zenon DEF Init, SessionPlaces
<1>7. SessionNumbers
  BY DEF Init, SessionNumbers
<1>8. SessionShape /\ OfferFirst /\ DueWaits
  BY <1>1 DEF Init, SessionShape, OfferFirst, DueWaits
<1>9. InboundOrdered /\ RefusedFirst /\ RedeliveryHarmless
  BY <1>1, <1>2 DEF InboundOrdered, RefusedFirst, RedeliveryHarmless
<1> QED
  BY <1>3, <1>4, <1>5, <1>6, <1>7, <1>8, <1>9 DEF Inv, Types

LEMMA InvStep == Inv /\ [Next]_vars => Inv'
<1> SUFFICES ASSUME Inv, [Next]_vars PROVE Inv'
  OBVIOUS
<1>1. /\ LoopPlaces /\ LoopNumbers /\ ChannelTypes /\ SessionPlaces /\ SessionNumbers
      /\ SessionShape /\ InboundOrdered /\ OfferFirst /\ RefusedFirst /\ DueWaits
      /\ RedeliveryHarmless
  BY DEF Inv, Types
<1>2. LoopPlaces' /\ LoopNumbers'
  BY <1>1, LoopStep
<1>3. ChannelTypes'
  BY <1>1, ChannelTypesStep
<1>4. SessionPlaces' /\ SessionNumbers'
  BY <1>1, PlacesStep, SessionNumbersStep
<1>5. SessionShape'
  BY <1>1, ShapeStep DEF InboundOrdered
<1>6. InboundOrdered' /\ OfferFirst' /\ RefusedFirst'
  BY <1>1, OrderedStep, OfferFirstStep, RefusedFirstStep
<1>7. DueWaits' /\ RedeliveryHarmless'
  BY <1>1, <1>3, DueStep, RedeliveryStep
<1> QED
  BY <1>2, <1>3, <1>4, <1>5, <1>6, <1>7 DEF Inv, Types

LEMMA Invariance == Spec => []Inv
BY InitInv, InvStep, PTL DEF Spec

\* Every channel keeps within its capacity and the backoff within its range,
\* whatever sockets, browsers and sessions do (signal.rs next_backoff, main.rs
\* run_with_reconnect).
THEOREM SupervisorTypes == Spec => []TypeOK
<1>1. Inv => TypeOK
  BY TypeParts DEF Inv, Types
<1> QED
  BY <1>1, Invariance, PTL

\* No candidate of the session in hand is lost between the taking of its offer
\* and its peer, for any capacity of the channels (main.rs run_one_session,
\* route_inbound).
THEOREM CandidatesKept == Spec => []NoCandidateLost
<1>1. Inv => NoCandidateLost
  BY DEF Inv, NoCandidateLost, DueWaits, InboundOrdered
<1> QED
  BY <1>1, Invariance, PTL

\* No refusal under way answers the delivery that started the live session, nor
\* a later one (main.rs route_inbound, refuse_second_offer).
THEOREM RedeliveriesHarmless == Spec => []RedeliveryHarmless
<1>1. Inv => RedeliveryHarmless
  BY DEF Inv
<1> QED
  BY <1>1, Invariance, PTL

-----------------------------------------------------------------------------
(* The backoff.                                                            *)

\* While a socket is up the delay is the initial one.
UpIsReset == link = "up" => delay = BackoffInitial

LEMMA UpStep ==
  ASSUME UpIsReset, [Next]_vars
  PROVE  UpIsReset' /\ (link = "up" /\ link' = "backoff" => delay' = BackoffInitial)
<1>1. CASE UNCHANGED loop
  BY <1>1 DEF loop, UpIsReset
<1>2. CASE LoopActs
  <2>1. CASE Connects
    BY <2>1 DEF Connects, UpIsReset
  <2>2. CASE ConnectFails
    BY <2>2 DEF ConnectFails, UpIsReset
  <2>3. CASE Retry
    BY <2>3 DEF Retry, UpIsReset
  <2>4. CASE SocketEnds
    BY <2>4 DEF SocketEnds, UpIsReset
  <2>5. CASE GoesSilent
    BY <2>5 DEF GoesSilent, UpIsReset
  <2>6. CASE Elapse
    BY <2>6 DEF Elapse, UpIsReset
  <2>7. CASE Shutdown
    BY <2>7 DEF Shutdown, UpIsReset
  <2>8. CASE SendFails
    BY <2>8 DEF SendFails, UpIsReset
  <2>9. CASE StreamEnds
    BY <2>9 DEF StreamEnds, UpIsReset
  <2> QED
    BY <1>2, <2>1, <2>2, <2>3, <2>4, <2>5, <2>6, <2>7, <2>8, <2>9 DEF LoopActs
<1>3. UNCHANGED vars => UNCHANGED loop
  BY DEF vars, loop
<1> QED
  BY <1>1, <1>2, <1>3, LoopFrame

\* A socket that was up is retried after the initial delay, however long the
\* backoff had grown before it connected (main.rs run_with_reconnect).
THEOREM ReconnectsQuickly == Spec => QuickReconnect
<1>1. Init => UpIsReset
  BY DEF Init, UpIsReset
<1>2. UpIsReset /\ [Next]_vars => UpIsReset'
  BY UpStep
<1>3. UpIsReset /\ [Next]_vars
      => [link = "up" /\ link' = "backoff" => delay' = BackoffInitial]_vars
  BY UpStep
<1> QED
  BY <1>1, <1>2, <1>3, PTL DEF Spec, QuickReconnect

===============================================================================
