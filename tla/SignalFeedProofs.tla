--------------------------- MODULE SignalFeedProofs ---------------------------
(***************************************************************************)
(* What the tab hears over its sockets is the feed of SignalFeed, and an   *)
(* idle subscription has missed nothing, for any number of signals,        *)
(* sockets, retries, page sizes and agent frames per read, until a read    *)
(* holds the agent's answer and frames after it: their pushes overtake the *)
(* answer's.                                                               *)
(***************************************************************************)
EXTENDS SignalRelayProofs

-----------------------------------------------------------------------------
(* The signals among the frames of a socket.                               *)

SigIds(q) == {q[k].id : k \in {k \in 1..Len(q) : q[k].type = "signal"}}

Ordered(q) ==
  \A j, k \in 1..Len(q) :
    j < k /\ q[j].type = "signal" /\ q[k].type = "signal" => q[j].id < q[k].id

LEMMA SigIdsBounded ==
  ASSUME NEW n \in Nat, NEW q \in Seq(OutFrames(n))
  PROVE  SigIds(q) \subseteq 1..n
<1>1. \A k \in 1..Len(q) : q[k] \in OutFrames(n)
  BY ElementOfSeq
<1> QED
  BY <1>1 DEF SigIds, OutFrames

LEMMA NoFrames == SigIds(<<>>) = {} /\ Ordered(<<>>)
BY DEF SigIds, Ordered

\* The tab reads a frame.
LEMMA HeadHeard ==
  ASSUME NEW n \in Nat, NEW q \in Seq(OutFrames(n)), q # <<>>, Ordered(q)
  PROVE  /\ Ordered(Tail(q))
         /\ Head(q).type # "signal" => SigIds(Tail(q)) = SigIds(q)
         /\ Head(q).type = "signal" => /\ SigIds(q) = {Head(q).id} \cup SigIds(Tail(q))
                                       /\ \A i \in SigIds(Tail(q)) : Head(q).id < i
<1> DEFINE r == Tail(q)
<1>1. /\ Len(q) \in Nat \ {0} /\ Len(r) = Len(q) - 1 /\ Head(q) = q[1]
      /\ \A i \in 1..Len(r) : r[i] = q[i + 1]
  BY HeadFacts
<1> HIDE DEF r
<1>2. \A i \in 1..Len(r) : i + 1 \in 1..Len(q) /\ 1 < i + 1
  BY <1>1
<1>3. 1 \in 1..Len(q) /\ \A i \in 1..Len(q) : i # 1 => i - 1 \in 1..Len(r) /\ r[i - 1] = q[i]
  BY <1>1
<1>4. Ordered(r)
  <2> SUFFICES ASSUME NEW j \in 1..Len(r), NEW k \in 1..Len(r), j < k,
                      r[j].type = "signal", r[k].type = "signal"
               PROVE  r[j].id < r[k].id
    BY DEF Ordered
  <2>1. j + 1 < k + 1
    BY <1>1
  <2> QED
    BY <1>1, <1>2, <2>1 DEF Ordered
<1>5. SigIds(r) \subseteq SigIds(q)
  BY <1>1, <1>2 DEF SigIds
<1>6. SigIds(q) \subseteq SigIds(r) \cup (IF q[1].type = "signal" THEN {q[1].id} ELSE {})
  BY <1>1, <1>3 DEF SigIds
<1>7. q[1].type = "signal" => q[1].id \in SigIds(q)
  BY <1>3 DEF SigIds
<1>8. q[1].type = "signal" => \A i \in SigIds(r) : q[1].id < i
  BY <1>1, <1>2, <1>3 DEF SigIds, Ordered
<1> QED
  BY <1>1, <1>4, <1>5, <1>6, <1>7, <1>8 DEF r

\* Frames follow those on the socket.
LEMMA Follow ==
  ASSUME NEW F, NEW q \in Seq(F), NEW fs \in Seq(F)
  PROVE  LET r == q \o fs
         IN  /\ Len(q) \in Nat /\ Len(r) \in Nat
             /\ \A i \in 1..Len(r) : \/ i \in 1..Len(q) /\ r[i] = q[i]
                                     \/ i - Len(q) \in 1..Len(fs) /\ r[i] = fs[i - Len(q)] /\ Len(q) < i
             /\ \A i \in 1..Len(q) : i \in 1..Len(r) /\ r[i] = q[i]
             /\ \A i \in 1..Len(fs) : Len(q) + i \in 1..Len(r) /\ r[Len(q) + i] = fs[i]
<1> DEFINE r == q \o fs
<1>1. /\ Len(q) \in Nat /\ Len(fs) \in Nat /\ Len(r) = Len(q) + Len(fs)
      /\ \A i \in 1..Len(r) : r[i] = IF i <= Len(q) THEN q[i] ELSE fs[i - Len(q)]
  BY LenProperties, ConcatProperties
<1> HIDE DEF r
<1>2. ASSUME NEW i \in 1..Len(r)
      PROVE  \/ i \in 1..Len(q) /\ r[i] = q[i]
             \/ i - Len(q) \in 1..Len(fs) /\ r[i] = fs[i - Len(q)] /\ Len(q) < i
  BY <1>1
<1>3. ASSUME NEW i \in 1..Len(fs)
      PROVE  Len(q) + i \in 1..Len(r) /\ r[Len(q) + i] = fs[i]
  <2>1. Len(q) + i \in 1..Len(r) /\ ~(Len(q) + i <= Len(q)) /\ (Len(q) + i) - Len(q) = i
    BY <1>1
  <2> QED
    BY <1>1, <2>1
<1>4. \A i \in 1..Len(q) : i \in 1..Len(r) /\ r[i] = q[i]
  BY <1>1
<1> QED
  BY <1>1, <1>2, <1>3, <1>4 DEF r

LEMMA SigIdsConcat ==
  ASSUME NEW F, NEW q \in Seq(F), NEW fs \in Seq(F)
  PROVE  SigIds(q \o fs) = SigIds(q) \cup SigIds(fs)
<1> DEFINE r == q \o fs
<1>1. /\ \A i \in 1..Len(r) : \/ i \in 1..Len(q) /\ r[i] = q[i]
                              \/ i - Len(q) \in 1..Len(fs) /\ r[i] = fs[i - Len(q)]
      /\ \A i \in 1..Len(q) : i \in 1..Len(r) /\ r[i] = q[i]
      /\ \A i \in 1..Len(fs) : Len(q) + i \in 1..Len(r) /\ r[Len(q) + i] = fs[i]
  BY Follow
<1> HIDE DEF r
<1>2. SigIds(r) \subseteq SigIds(q) \cup SigIds(fs)
  <2> SUFFICES ASSUME NEW i \in 1..Len(r), r[i].type = "signal"
               PROVE  r[i].id \in SigIds(q) \/ r[i].id \in SigIds(fs)
    BY DEF SigIds
  <2>1. CASE i \in 1..Len(q) /\ r[i] = q[i]
    BY <2>1 DEF SigIds
  <2>2. CASE i - Len(q) \in 1..Len(fs) /\ r[i] = fs[i - Len(q)]
    BY <2>2 DEF SigIds
  <2> QED
    BY <1>1, <2>1, <2>2
<1>3. SigIds(q) \subseteq SigIds(r)
  <2> SUFFICES ASSUME NEW i \in 1..Len(q), q[i].type = "signal" PROVE q[i].id \in SigIds(r)
    BY DEF SigIds
  <2>1. i \in 1..Len(r) /\ r[i] = q[i]
    BY <1>1
  <2> QED
    BY <2>1 DEF SigIds
<1>4. SigIds(fs) \subseteq SigIds(r)
  <2> SUFFICES ASSUME NEW i \in 1..Len(fs), fs[i].type = "signal" PROVE fs[i].id \in SigIds(r)
    BY DEF SigIds
  <2>1. Len(q) + i \in 1..Len(r) /\ r[Len(q) + i] = fs[i]
    BY <1>1
  <2> QED
    BY <2>1 DEF SigIds
<1> QED
  BY <1>2, <1>3, <1>4 DEF r

LEMMA FramesFollow ==
  ASSUME NEW F, NEW q \in Seq(F), NEW fs \in Seq(F), Ordered(q), Ordered(fs),
         \A i \in SigIds(q) : \A j \in SigIds(fs) : i < j
  PROVE  SigIds(q \o fs) = SigIds(q) \cup SigIds(fs) /\ Ordered(q \o fs)
<1> DEFINE r == q \o fs
<1>1. /\ Len(q) \in Nat /\ Len(r) \in Nat
      /\ \A i \in 1..Len(r) : \/ i \in 1..Len(q) /\ r[i] = q[i]
                              \/ i - Len(q) \in 1..Len(fs) /\ r[i] = fs[i - Len(q)] /\ Len(q) < i
  BY Follow
<1> HIDE DEF r
<1>2. Ordered(r)
  <2> SUFFICES ASSUME NEW j \in 1..Len(r), NEW k \in 1..Len(r), j < k,
                      r[j].type = "signal", r[k].type = "signal"
               PROVE  r[j].id < r[k].id
    BY DEF Ordered
  <2>1. CASE k \in 1..Len(q) /\ r[k] = q[k]
    <3>1. j \in 1..Len(q) /\ r[j] = q[j]
      BY <1>1, <2>1
    <3> QED
      BY <2>1, <3>1 DEF Ordered
  <2>2. CASE j - Len(q) \in 1..Len(fs) /\ r[j] = fs[j - Len(q)] /\ Len(q) < j
    <3>1. ~(k \in 1..Len(q)) /\ j - Len(q) < k - Len(q)
      BY <1>1, <2>2
    <3>2. k - Len(q) \in 1..Len(fs) /\ r[k] = fs[k - Len(q)]
      BY <1>1, <3>1
    <3> QED
      BY <2>2, <3>1, <3>2 DEF Ordered
  <2>3. CASE /\ j \in 1..Len(q) /\ r[j] = q[j]
             /\ k - Len(q) \in 1..Len(fs) /\ r[k] = fs[k - Len(q)]
    <3>1. r[j].id \in SigIds(q) /\ r[k].id \in SigIds(fs)
      BY <2>3 DEF SigIds
    <3> QED
      BY <3>1
  <2> QED
    BY <1>1, <2>1, <2>2, <2>3
<1> QED
  BY <1>2, SigIdsConcat DEF r

\* A single frame, and a page.
LEMMA OneFollows ==
  ASSUME NEW f
  PROVE  /\ SigIds(<<f>>) = IF f.type = "signal" THEN {f.id} ELSE {}
         /\ Ordered(<<f>>)
<1>1. Len(<<f>>) = 1 /\ <<f>>[1] = f
  OBVIOUS
<1> QED
  BY <1>1 DEF SigIds, Ordered

LEMMA PageFollows ==
  ASSUME NEW n \in Nat, NEW ids \in Seq(1..n), Ascending(ids)
  PROVE  SigIds(Signals(ids)) = Ids(ids) /\ Ordered(Signals(ids))
<1> DEFINE q == Signals(ids)
<1>1. /\ Len(q) = Len(ids) /\ \A k \in 1..Len(ids) : q[k] = Signal(ids[k])
      /\ \A k \in 1..Len(ids) : ids[k] \in 1..n
  BY SignalsFacts, ElementOfSeq
<1> HIDE DEF q
<1>2. \A k \in 1..Len(ids) : q[k].type = "signal" /\ q[k].id = ids[k]
  <2>1. \A i : Signal(i).type = "signal" /\ Signal(i).id = i
    BY DEF Signal
  <2> QED
    BY <1>1, <2>1
<1>3. SigIds(q) = Ids(ids)
  BY <1>1, <1>2 DEF SigIds, Ids
<1>4. Ordered(q)
  BY <1>1, <1>2 DEF Ordered, Ascending
<1> QED
  BY <1>3, <1>4 DEF q

-----------------------------------------------------------------------------
(* Where the feed stands: log is what is recorded, of which the oldest     *)
(* gone have expired; D is on its way to the tab, which has heard up to c; *)
(* B waits for the replay to end, of which S were sent by a page.          *)

\* No signal of the agent strictly between c and top is missing.
Covers(log, gone, D, c, top) ==
  \A r \in (c + 1)..(top - 1) : log[r].from = "agent" => r <= gone \/ r \in D

\* What is on its way is news, and nothing is left out before it.
Ahead(log, gone, D, c) == \A i \in D : c < i /\ Covers(log, gone, D, c, i)

\* Nothing is left out at all.
Complete(log, gone, D, c) == Covers(log, gone, D, c, Len(log) + 1)

\* What waits has not expired, and was sent by a page or follows what was.
Held(gone, B, S, D, c) ==
  \A i \in B : gone < i /\ (i \in S \/ (c < i /\ \A j \in D : j < i))

\* What lies behind the cursor was heard.
Behind(log, gone, h, c) ==
  \A r \in 1..c : log[r].from = "agent" => r <= gone \/ \E k \in 1..Len(h) : h[k] = r

LastIn(q) == IF q = <<>> THEN 0 ELSE q[Len(q)]

DataInv ==
  /\ cursor = LastIn(heard)
  /\ Ordered(down)
  /\ Ahead(rows, expired, SigIds(down), cursor)
  /\ Listening /\ sub = "live" => Complete(rows, expired, SigIds(down), cursor)
  /\ Held(expired, SigIds(buf), seen, SigIds(down), cursor)
  /\ sub # "replaying" => SigIds(buf) = {}
  /\ Behind(rows, expired, heard, cursor)

LEMMA DataTypes ==
  ASSUME TypeInv
  PROVE  /\ rows \in Seq(Rows) /\ Len(rows) \in Nat /\ expired \in 0..Len(rows)
         /\ cursor \in 0..Len(rows) /\ heard \in Seq(1..Len(rows)) /\ seen \subseteq 1..Len(rows)
         /\ down \in Seq(OutFrames(Len(rows))) /\ buf \in Seq(OutFrames(Len(rows)))
         /\ SigIds(down) \subseteq 1..Len(rows) /\ SigIds(buf) \subseteq 1..Len(rows)
<1>1. /\ rows \in Seq(Rows) /\ Len(rows) \in Nat /\ expired \in 0..Len(rows)
      /\ cursor \in 0..Len(rows) /\ heard \in Seq(1..Len(rows)) /\ seen \subseteq 1..Len(rows)
      /\ down \in Seq(OutFrames(Len(rows))) /\ buf \in Seq(OutFrames(Len(rows)))
  BY LenProperties DEF TypeInv, DatabaseTypes, ClientTypes, HistoryTypes, SubTypes, WireTypes
<1> QED
  BY <1>1, SigIdsBounded

\* A step that records nothing and delivers nothing: frames without a signal
\* may come and go, and what is on its way is lost only with the subscription.
LEMMA DataKept ==
  ASSUME TypeInv, DataInv, UNCHANGED <<rows, expired, cursor, heard>>,
         Ordered(down'), SigIds(down') \in {SigIds(down), {}},
         SigIds(buf') = {} \/ (SigIds(buf') = SigIds(buf) /\ UNCHANGED <<seen, sub>>),
         Listening' /\ sub' = "live" =>
           Listening /\ sub = "live" /\ SigIds(down') = SigIds(down)
  PROVE  DataInv'
<1>1. Ahead(rows, expired, SigIds(down'), cursor)
  BY DEF DataInv, Ahead
<1>2. Held(expired, SigIds(buf'), seen', SigIds(down'), cursor)
  BY DEF DataInv, Held
<1>3. Listening' /\ sub' = "live" => Complete(rows, expired, SigIds(down'), cursor)
  BY DEF DataInv
<1> QED
  BY <1>1, <1>2, <1>3 DEF DataInv

\* Time: the oldest signal expires, which no push still waits for.
LEMMA DataExpires ==
  ASSUME TypeInv, DataInv, Expire
  PROVE  DataInv'
<1>1. expired' = expired + 1 /\ UNCHANGED <<rows, down, buf, seen, sub, cursor, heard, link, sock, reg>>
  BY DEF Expire, server, wires, client, history
<1>2. \A i \in SigIds(buf) : i # expired + 1
  BY DEF Expire, SigIds
<1>3. /\ expired \in Nat /\ cursor \in Nat /\ Len(rows) \in Nat
      /\ SigIds(down) \subseteq 1..Len(rows) /\ SigIds(buf) \subseteq 1..Len(rows)
  BY DataTypes
<1>4. \A D, c, top : c \in Nat /\ top \in Nat /\ Covers(rows, expired, D, c, top)
                       => Covers(rows, expired + 1, D, c, top)
  <2> SUFFICES ASSUME NEW D, NEW c \in Nat, NEW top \in Nat, Covers(rows, expired, D, c, top),
                      NEW r \in (c + 1)..(top - 1), rows[r].from = "agent"
               PROVE  r <= expired + 1 \/ r \in D
    BY DEF Covers
  <2>1. r <= expired \/ r \in D
    BY DEF Covers
  <2> QED
    BY <1>3, <2>1
<1>5. Ahead(rows, expired + 1, SigIds(down), cursor)
  <2>1. \A i \in SigIds(down) : i \in Nat
    BY <1>3
  <2> QED
    BY <1>3, <1>4, <2>1 DEF DataInv, Ahead
<1>6. Listening /\ sub = "live" => Complete(rows, expired + 1, SigIds(down), cursor)
  BY <1>3, <1>4 DEF DataInv, Complete
<1>7. Held(expired + 1, SigIds(buf), seen, SigIds(down), cursor)
  <2> SUFFICES ASSUME NEW i \in SigIds(buf) PROVE expired + 1 < i
    BY DEF DataInv, Held
  <2>1. expired < i /\ i # expired + 1 /\ i \in Nat
    BY <1>2, <1>3 DEF DataInv, Held
  <2> QED
    BY <1>3, <2>1
<1>8. Behind(rows, expired + 1, heard, cursor)
  <2> SUFFICES ASSUME NEW r \in 1..cursor, rows[r].from = "agent",
                      ~\E k \in 1..Len(heard) : heard[k] = r
               PROVE  r <= expired + 1
    BY DEF Behind
  <2>1. r <= expired
    BY DEF DataInv, Behind
  <2> QED
    BY <1>3, <2>1
<1>9. Listening' = Listening
  BY <1>1 DEF Listening
<1> QED
  BY <1>1, <1>5, <1>6, <1>7, <1>8, <1>9 DEF DataInv

\* The tab hears a signal.
LEMMA DataHeard ==
  ASSUME TypeInv, DataInv, Receive, Head(down).type = "signal"
  PROVE  /\ DataInv'
         /\ Head(down).id \in (cursor + 1)..Len(rows)
         /\ Covers(rows, expired, {}, cursor, Head(down).id)
<1> DEFINE i == Head(down).id
           D == SigIds(down)
           E == SigIds(Tail(down))
<1>1. /\ down # <<>> /\ down' = Tail(down) /\ cursor' = i /\ heard' = Append(heard, i)
      /\ UNCHANGED <<rows, expired, buf, seen, sub, link, sock, reg>>
  BY DEF Receive, database, server
<1>2. /\ Len(rows) \in Nat /\ expired \in Nat /\ cursor \in Nat /\ heard \in Seq(1..Len(rows))
      /\ D \subseteq 1..Len(rows) /\ SigIds(buf) \subseteq 1..Len(rows)
      /\ down \in Seq(OutFrames(Len(rows)))
  BY DataTypes
<1>3. Ordered(Tail(down)) /\ D = {i} \cup E /\ \A j \in E : i < j
  BY <1>1, <1>2, HeadHeard DEF DataInv
<1> HIDE DEF i, D, E
<1>4. Ahead(rows, expired, D, cursor) /\ Held(expired, SigIds(buf), seen, D, cursor)
      /\ Behind(rows, expired, heard, cursor)
      /\ (Listening /\ sub = "live" => Complete(rows, expired, D, cursor))
  BY DEF DataInv, D
<1>5. i \in 1..Len(rows) /\ cursor < i /\ Covers(rows, expired, D, cursor, i)
  BY <1>2, <1>3, <1>4 DEF Ahead
<1>6. Covers(rows, expired, {}, cursor, i)
  <2> SUFFICES ASSUME NEW r \in (cursor + 1)..(i - 1), rows[r].from = "agent" PROVE r <= expired
    BY DEF Covers
  <2>1. r <= expired \/ r \in D
    BY <1>5 DEF Covers
  <2>2. r # i /\ ~(i < r)
    BY <1>2, <1>5
  <2> QED
    BY <1>3, <2>1, <2>2
<1>7. ASSUME NEW top \in Nat, Covers(rows, expired, D, cursor, top)
      PROVE  Covers(rows, expired, E, i, top)
  <2> SUFFICES ASSUME NEW r \in (i + 1)..(top - 1), rows[r].from = "agent"
               PROVE  r <= expired \/ r \in E
    BY DEF Covers
  <2>1. r \in (cursor + 1)..(top - 1) /\ r # i
    BY <1>2, <1>5
  <2> QED
    BY <1>3, <1>7, <2>1 DEF Covers
<1>8. Ahead(rows, expired, E, i)
  <2>1. \A j \in E : j \in Nat
    BY <1>2, <1>3
  <2> QED
    BY <1>3, <1>4, <1>7, <2>1 DEF Ahead
<1>9. Listening /\ sub = "live" => Complete(rows, expired, E, i)
  BY <1>2, <1>4, <1>7 DEF Complete
<1>10. Held(expired, SigIds(buf), seen, E, i)
  BY <1>3, <1>4 DEF Held
<1>11. /\ Len(heard') = Len(heard) + 1 /\ Len(heard) \in Nat /\ heard'[Len(heard) + 1] = i
       /\ \A k \in 1..Len(heard) : heard'[k] = heard[k]
       /\ heard' # <<>>
  <2> DEFINE S == 1..Len(rows)
  <2>1. heard \in Seq(S) /\ i \in S
    BY <1>2, <1>5
  <2> HIDE DEF S
  <2> QED
    BY <1>1, <2>1, AppendProperties, LenProperties
<1>12. LastIn(heard') = i
  BY <1>11 DEF LastIn
<1>13. Behind(rows, expired, heard', i)
  <2> SUFFICES ASSUME NEW r \in 1..i, rows[r].from = "agent", ~(r <= expired)
               PROVE  \E k \in 1..Len(heard') : heard'[k] = r
    BY DEF Behind
  <2>1. CASE r <= cursor
    <3>1. PICK k \in 1..Len(heard) : heard[k] = r
      BY <1>2, <1>4, <2>1 DEF Behind
    <3> QED
      BY <1>11, <3>1
  <2>2. CASE ~(r <= cursor)
    <3>1. r = i
      BY <1>2, <1>5, <1>6, <2>2 DEF Covers
    <3>2. Len(heard) + 1 \in 1..Len(heard')
      BY <1>11
    <3> QED
      BY <1>11, <3>1, <3>2
  <2> QED
    BY <2>1, <2>2
<1>14. Listening' = Listening
  BY <1>1 DEF Listening
<1>15. DataInv'
  BY <1>1, <1>3, <1>8, <1>9, <1>10, <1>12, <1>13, <1>14 DEF DataInv, E
<1> QED
  BY <1>2, <1>5, <1>6, <1>15 DEF i

\* A signal is recorded: it is pushed, waits for the replay, or, if it is the
\* browser's or nobody listens, reaches nobody.
LEMMA DataRecorded ==
  ASSUME TypeInv, DataInv, NEW who, NEW x, Row(who, x) \in Rows,
         rows' = Append(rows, Row(who, x)),
         UNCHANGED <<expired, cursor, heard, seen, sub, link, sock, reg>>,
         \/ /\ down' = down \o <<Signal(Len(rows) + 1)>> /\ UNCHANGED buf
            /\ Listening /\ sub = "live"
         \/ /\ buf' = buf \o <<Signal(Len(rows) + 1)>> /\ UNCHANGED down
            /\ sub = "replaying"
         \/ /\ UNCHANGED <<down, buf>>
            /\ who # "agent" \/ ~(Listening /\ sub = "live")
  PROVE  DataInv'
<1> DEFINE n == Len(rows)
           D == SigIds(down)
           B == SigIds(buf)
           f == Signal(n + 1)
<1>1. /\ n \in Nat /\ expired \in 0..n /\ cursor \in 0..n /\ rows \in Seq(Rows)
      /\ D \subseteq 1..n /\ B \subseteq 1..n
      /\ down \in Seq(OutFrames(n)) /\ buf \in Seq(OutFrames(n))
  BY DataTypes
<1>2. /\ Len(rows') = n + 1 /\ rows'[n + 1] = Row(who, x) /\ \A i \in 1..n : rows'[i] = rows[i]
  BY <1>1, AppendProperties
<1>3. /\ down \in Seq(OutFrames(n + 1)) /\ buf \in Seq(OutFrames(n + 1))
      /\ <<f>> \in Seq(OutFrames(n + 1)) /\ SigIds(<<f>>) = {n + 1} /\ Ordered(<<f>>)
  <2>1. n + 1 \in Nat /\ n <= n + 1 /\ n + 1 \in 1..(n + 1)
    BY <1>1
  <2>2. f \in OutFrames(n + 1) /\ f.type = "signal" /\ f.id = n + 1
    BY <2>1, FrameFacts
  <2>3. down \in Seq(OutFrames(n + 1)) /\ buf \in Seq(OutFrames(n + 1))
    BY <1>1, <2>1, Grown
  <2> HIDE DEF f
  <2> QED
    BY <2>2, <2>3, OneFrame, OneFollows
<1>4. Row(who, x).from = who
  BY DEF Row
<1>5. /\ Ordered(down) /\ Ahead(rows, expired, D, cursor) /\ Held(expired, B, seen, D, cursor)
      /\ Behind(rows, expired, heard, cursor) /\ cursor = LastIn(heard)
      /\ Listening /\ sub = "live" => Complete(rows, expired, D, cursor)
  BY DEF DataInv
<1> HIDE DEF n, D, B, f
<1>6. ASSUME NEW S, NEW top \in 1..(n + 1), Covers(rows, expired, S, cursor, top)
      PROVE  Covers(rows', expired, S, cursor, top)
  <2> SUFFICES ASSUME NEW r \in (cursor + 1)..(top - 1), rows'[r].from = "agent"
               PROVE  r <= expired \/ r \in S
    BY DEF Covers
  <2>1. r \in 1..n
    BY <1>1
  <2> QED
    BY <1>2, <1>6, <2>1 DEF Covers
<1>7. Ahead(rows', expired, D, cursor)
  <2>1. \A i \in D : i \in 1..(n + 1)
    BY <1>1
  <2> QED
    BY <1>5, <1>6, <2>1 DEF Ahead
<1>8. Behind(rows', expired, heard, cursor)
  <2>1. \A r \in 1..cursor : r \in 1..n
    BY <1>1
  <2> QED
    BY <1>2, <1>5, <2>1 DEF Behind
<1>9. Listening' = Listening
  BY DEF Listening
\* Pushed.
<1>10. CASE down' = down \o <<f>> /\ UNCHANGED buf /\ Listening /\ sub = "live"
  <2>1. SigIds(down') = D \cup {n + 1} /\ Ordered(down')
    <3> DEFINE one == <<f>>
               F == OutFrames(n + 1)
    <3>1. \A i \in SigIds(down) : \A j \in SigIds(one) : i < j
      <4>1. \A i \in 1..n : i < n + 1
        BY <1>1
      <4> QED
        BY <1>1, <1>3, <4>1 DEF D
    <3>2. /\ down \in Seq(F) /\ one \in Seq(F) /\ Ordered(down) /\ Ordered(one)
          /\ down' = down \o one
      BY <1>3, <1>5, <1>10
    <3> HIDE DEF one, F
    <3>3. SigIds(down') = SigIds(down) \cup SigIds(one) /\ Ordered(down')
      BY <3>1, <3>2, FramesFollow
    <3> QED
      BY <1>3, <3>3 DEF one, D
  <2>2. Covers(rows, expired, D, cursor, n + 1)
    BY <1>5, <1>10 DEF Complete, n
  <2>3. Covers(rows', expired, D, cursor, n + 1)
    BY <1>1, <1>6, <2>2
  <2>4. \A top : Covers(rows', expired, D, cursor, top) => Covers(rows', expired, D \cup {n + 1}, cursor, top)
    BY DEF Covers
  <2>5. Ahead(rows', expired, D \cup {n + 1}, cursor)
    <3>1. cursor < n + 1
      BY <1>1
    <3> QED
      BY <1>7, <2>3, <2>4, <3>1 DEF Ahead
  <2>6. Complete(rows', expired, D \cup {n + 1}, cursor)
    <3> SUFFICES ASSUME NEW r \in (cursor + 1)..((n + 2) - 1), rows'[r].from = "agent"
                 PROVE  r <= expired \/ r \in D \cup {n + 1}
      <4>1. Len(rows') + 1 = n + 2
        BY <1>1, <1>2
      <4> QED
        BY <4>1 DEF Complete, Covers
    <3>1. CASE r = n + 1
      BY <3>1
    <3>2. CASE r # n + 1
      <4>1. r \in (cursor + 1)..((n + 1) - 1)
        BY <1>1, <1>2, <3>2
      <4> QED
        BY <2>3, <4>1 DEF Covers
    <3> QED
      BY <3>1, <3>2
  <2>7. Held(expired, B, seen, D \cup {n + 1}, cursor)
    <3>1. B = {}
      BY <1>10 DEF DataInv, B
    <3> QED
      BY <3>1 DEF Held
  <2> QED
    BY <1>5, <1>8, <1>10, <2>1, <2>5, <2>6, <2>7 DEF DataInv, B
\* Kept for the end of the replay.
<1>11. CASE buf' = buf \o <<f>> /\ UNCHANGED down /\ sub = "replaying"
  <2>1. SigIds(buf') = B \cup {n + 1}
    <3> DEFINE one == <<f>>
               F == OutFrames(n + 1)
    <3>1. buf \in Seq(F) /\ one \in Seq(F) /\ buf' = buf \o one
      BY <1>3, <1>11
    <3> HIDE DEF one, F
    <3>2. SigIds(buf') = SigIds(buf) \cup SigIds(one)
      BY <3>1, SigIdsConcat
    <3> QED
      BY <1>3, <3>2 DEF one, B
  <2>2. Held(expired, B \cup {n + 1}, seen, D, cursor)
    <3>1. expired < n + 1 /\ cursor < n + 1 /\ \A j \in D : j < n + 1
      BY <1>1
    <3> QED
      BY <1>5, <3>1 DEF Held
  <2> QED
    BY <1>5, <1>7, <1>8, <1>9, <1>11, <2>1, <2>2 DEF DataInv, D
\* Nobody is told.
<1>12. CASE UNCHANGED <<down, buf>> /\ (who # "agent" \/ ~(Listening /\ sub = "live"))
  <2>1. Listening /\ sub = "live" => Complete(rows', expired, D, cursor)
    <3> SUFFICES ASSUME Listening, sub = "live",
                        NEW r \in (cursor + 1)..((n + 2) - 1), rows'[r].from = "agent"
                 PROVE  r <= expired \/ r \in D
      <4>1. Len(rows') + 1 = n + 2
        BY <1>1, <1>2
      <4> QED
        BY <4>1 DEF Complete, Covers
    <3>1. r # n + 1
      BY <1>2, <1>4, <1>12
    <3>2. r \in (cursor + 1)..((n + 1) - 1) /\ r \in 1..n
      BY <1>1, <1>2, <3>1
    <3>3. Covers(rows, expired, D, cursor, n + 1)
      BY <1>5 DEF Complete, n
    <3> QED
      BY <1>2, <3>2, <3>3 DEF Covers
  <2> QED
    BY <1>5, <1>7, <1>8, <1>9, <1>12, <2>1 DEF DataInv, D, B
<1> QED
  BY <1>10, <1>11, <1>12 DEF f, n

\* A page of the replay, asked for by a tab to which nothing is on its way.
LEMMA DataReplayed ==
  ASSUME TypeInv, DataInv, Listening, down = <<>>, Replay(cursor),
         UNCHANGED <<rows, expired, cursor, heard, link, sock, reg>>
  PROVE  DataInv'
<1> DEFINE n == Len(rows)
           B == SigIds(buf)
           lo == Before(cursor)
           ids == Page(cursor, PageSize)
           D == Ids(ids)
<1>1. /\ n \in Nat /\ expired \in 0..n /\ cursor \in 0..n /\ rows \in Seq(Rows)
      /\ reaped \in 0..expired /\ B \subseteq 1..n
      /\ down \in Seq(OutFrames(n)) /\ buf \in Seq(OutFrames(n))
  BY DataTypes DEF TypeInv, DatabaseTypes
<1>2. /\ lo \in 0..n /\ cursor <= lo /\ expired <= lo /\ (lo = expired \/ lo = cursor)
      /\ ids \in Seq(1..n) /\ Len(ids) = (IF PageSize < n - lo THEN PageSize ELSE n - lo)
      /\ \A k \in 1..Len(ids) : ids[k] = lo + k
  BY <1>1, PageFacts, Constants
<1>3. Len(ids) \in Nat
  BY <1>2, LenProperties
<1>4. PICK late \in Drained(ids) :
        \/ /\ n - lo > PageSize /\ sub' = "replaying" /\ buf' = buf
           /\ seen' = seen \cup Ids(ids) \cup {}
           /\ down' = down \o Signals(ids) \o <<Subscribed(TRUE)>>
        \/ /\ ~(n - lo > PageSize) /\ sub' = "live" /\ buf' = <<>>
           /\ down' = down \o Signals(ids) \o late \o <<Subscribed(FALSE)>>
  BY DEF Replay
<1>5. Held(expired, B, seen, {}, cursor) /\ Behind(rows, expired, heard, cursor) /\ cursor = LastIn(heard)
  BY NoFrames DEF DataInv
<1> HIDE DEF n, B, lo, ids
<1>6. D = {lo + k : k \in 1..Len(ids)}
  BY <1>2 DEF Ids
<1>7. SigIds(Signals(ids)) = D /\ Ordered(Signals(ids)) /\ Signals(ids) \in Seq(OutFrames(n))
  <2>1. Ascending(ids)
    BY <1>1, <1>2, <1>3 DEF Ascending
  <2> QED
    BY <1>1, <1>2, <2>1, PageFollows, SignalsFacts
<1> HIDE DEF D
<1>8. ASSUME NEW top \in Nat, top <= lo + Len(ids) + 1 PROVE Covers(rows, expired, D, cursor, top)
  <2> SUFFICES ASSUME NEW r \in (cursor + 1)..(top - 1)
               PROVE  r <= expired \/ r \in D
    BY DEF Covers
  <2>1. CASE r <= lo
    BY <1>1, <1>2, <2>1
  <2>2. CASE ~(r <= lo)
    <3>1. r - lo \in 1..Len(ids) /\ lo + (r - lo) = r
      BY <1>1, <1>2, <1>3, <1>8, <2>2
    <3> QED
      BY <1>6, <3>1
  <2> QED
    BY <2>1, <2>2
<1>9. Ahead(rows, expired, D, cursor)
  <2> SUFFICES ASSUME NEW k \in 1..Len(ids)
               PROVE  cursor < lo + k /\ Covers(rows, expired, D, cursor, lo + k)
    BY <1>6 DEF Ahead
  <2>1. lo + k \in Nat /\ lo + k <= lo + Len(ids) + 1 /\ cursor < lo + k
    BY <1>1, <1>2, <1>3
  <2> QED
    BY <1>8, <2>1
<1>10. \A i \in B : expired < i /\ (i \in seen \cup D \/ lo + Len(ids) < i)
  <2> SUFFICES ASSUME NEW i \in B, ~(i \in seen) PROVE i \in D \/ lo + Len(ids) < i
    BY <1>5 DEF Held
  <2>1. expired < i /\ cursor < i /\ i \in 1..n
    BY <1>1, <1>5 DEF Held
  <2>2. CASE i <= lo + Len(ids)
    <3>1. i - lo \in 1..Len(ids) /\ lo + (i - lo) = i
      BY <1>1, <1>2, <1>3, <2>1, <2>2
    <3> QED
      BY <1>6, <3>1
  <2> QED
    BY <1>1, <1>2, <1>3, <2>1, <2>2
<1>11. \A m \in BOOLEAN : /\ <<Subscribed(m)>> \in Seq(OutFrames(n))
                          /\ SigIds(<<Subscribed(m)>>) = {} /\ Ordered(<<Subscribed(m)>>)
  BY <1>1, FrameFacts, OneFrame, OneFollows
<1>12. <<>> \o Signals(ids) = Signals(ids)
  BY <1>7, ConcatEmptySeq
<1>13. Listening' = Listening
  BY DEF Listening
\* More follows.
<1>14. CASE /\ sub' = "replaying" /\ buf' = buf /\ seen' = seen \cup Ids(ids) \cup {}
            /\ down' = down \o Signals(ids) \o <<Subscribed(TRUE)>>
  <2> DEFINE last == <<Subscribed(TRUE)>>
  <2>1. last \in Seq(OutFrames(n)) /\ SigIds(last) = {} /\ Ordered(last)
    BY <1>11
  <2>2. down' = Signals(ids) \o last
    BY <1>12, <1>14
  <2> HIDE DEF last
  <2>3. SigIds(down') = D /\ Ordered(down')
    <3>1. SigIds(down') = SigIds(Signals(ids)) \cup SigIds(last) /\ Ordered(down')
      BY <1>7, <2>1, <2>2, FramesFollow
    <3> QED
      BY <1>7, <2>1, <3>1
  <2>4. Held(expired, B, seen', D, cursor)
    <3> SUFFICES ASSUME NEW i \in B, ~(i \in seen')
                 PROVE  expired < i /\ cursor < i /\ \A j \in D : j < i
      BY <1>5 DEF Held
    <3>1. expired < i /\ lo + Len(ids) < i /\ i \in 1..n
      BY <1>1, <1>10, <1>14 DEF D
    <3> QED
      BY <1>1, <1>2, <1>3, <1>6, <3>1
  <2> QED
    BY <1>5, <1>9, <1>14, <2>3, <2>4 DEF DataInv, B
\* The last page: of what waited, every signal is on it or was sent before.
<1>15. CASE /\ ~(n - lo > PageSize) /\ sub' = "live" /\ buf' = <<>>
            /\ down' = down \o Signals(ids) \o late \o <<Subscribed(FALSE)>>
  <2> DEFINE last == <<Subscribed(FALSE)>>
  <2>1. last \in Seq(OutFrames(n)) /\ SigIds(last) = {} /\ Ordered(last)
    BY <1>11
  <2>2. down' = Signals(ids) \o late \o last
    BY <1>12, <1>15
  <2> HIDE DEF last
  <2>3. lo + Len(ids) = n
    BY <1>1, <1>2, <1>15, Constants
  <2>4. B \subseteq seen \cup D
    BY <1>1, <1>10, <2>3
  <2>5. /\ late \in Seq(OutFrames(n))
        /\ \A k \in 1..Len(late) : \E j \in 1..Len(buf) :
             late[k] = buf[j] /\ (buf[j].type # "signal" \/ buf[j].id \notin seen \cup Ids(ids))
    BY <1>1, DrainedFacts
  <2>6. \A k \in 1..Len(late) : late[k].type # "signal"
    BY <2>4, <2>5 DEF B, SigIds, D
  <2>7. SigIds(late) = {} /\ Ordered(late)
    BY <2>6 DEF SigIds, Ordered
  <2>8. /\ Signals(ids) \o late \in Seq(OutFrames(n))
        /\ SigIds(Signals(ids) \o late) = D /\ Ordered(Signals(ids) \o late)
    <3> DEFINE page == Signals(ids)
    <3>1. page \in Seq(OutFrames(n)) /\ SigIds(page) = D /\ Ordered(page)
      BY <1>7
    <3> HIDE DEF page
    <3>2. page \o late \in Seq(OutFrames(n))
      BY <2>5, <3>1, ConcatProperties
    <3>3. SigIds(page \o late) = SigIds(page) \cup SigIds(late) /\ Ordered(page \o late)
      BY <2>5, <2>7, <3>1, FramesFollow
    <3> QED
      BY <2>7, <3>1, <3>2, <3>3 DEF page
  <2>9. SigIds(down') = D /\ Ordered(down')
    <3> DEFINE q == Signals(ids) \o late
    <3>1. q \in Seq(OutFrames(n)) /\ SigIds(q) = D /\ Ordered(q) /\ down' = q \o last
      BY <2>2, <2>8
    <3> HIDE DEF q
    <3>2. SigIds(down') = SigIds(q) \cup SigIds(last) /\ Ordered(down')
      BY <2>1, <3>1, FramesFollow
    <3> QED
      BY <2>1, <3>1, <3>2
  <2>10. Complete(rows, expired, D, cursor)
    BY <1>1, <1>8, <2>3 DEF Complete, n
  <2>11. Held(expired, SigIds(buf'), seen', D, cursor)
    BY <1>15, NoFrames DEF Held
  <2> QED
    BY <1>5, <1>9, <1>15, <2>9, <2>10, <2>11, NoFrames DEF DataInv
<1> QED
  BY <1>4, <1>14, <1>15

-----------------------------------------------------------------------------
(* What is on the wires of a subscription: it is asked for, or a page is   *)
(* on its way that asks for the next, or it is live.                       *)

SignalFrames == {f \in OutFrame : f.type = "signal"}
PushFrames   == {f \in OutFrame : f.type # "subscribed"}
LiveFrames   == {f \in OutFrame : f.type = "subscribed" => f.more = FALSE}
SentFrames   == {f \in InFrame : f.type = "signal"}

Asked == up[sock] = <<Subscribe(cursor)>> /\ down = <<>>

Paged == up[sock] = <<>> /\ \E q \in Seq(SignalFrames) : down = Append(q, Subscribed(TRUE))

Flowing == up[sock] \in Seq(SentFrames) /\ down \in Seq(LiveFrames)

ShapeInv ==
  /\ buf \in Seq(PushFrames)
  /\ link # "open" => down = <<>>
  /\ Listening /\ sub = "none" => awaiting /\ Asked
  /\ Listening /\ sub = "replaying" => awaiting /\ (Asked \/ Paged)
  /\ Listening /\ sub = "live" => Flowing

LEMMA Relisted ==
  ASSUME NEW S, NEW T, NEW q \in Seq(S), \A k \in 1..Len(q) : q[k] \in T
  PROVE  q \in Seq(T)
<1>1. q \in [1..Len(q) -> S] /\ Len(q) \in Nat
  BY LenProperties
<1>2. q \in [1..Len(q) -> T]
  BY <1>1
<1> QED
  BY <1>1, <1>2, Listed

LEMMA KindsOfFrames ==
  /\ SignalFrames \subseteq PushFrames /\ PushFrames \subseteq LiveFrames
  /\ Seq(SignalFrames) \subseteq Seq(PushFrames) /\ Seq(PushFrames) \subseteq Seq(LiveFrames)
  /\ \A i \in Nat : Signal(i) \in SignalFrames
  /\ Terminated \in PushFrames /\ Subscribed(FALSE) \in LiveFrames
  /\ \A k \in Nat : SendFrame(k) \in SentFrames
<1>1. SignalFrames \subseteq PushFrames /\ PushFrames \subseteq LiveFrames
  BY DEF SignalFrames, PushFrames, LiveFrames
<1>2. 0 \in Nat /\ TRUE \in BOOLEAN /\ FALSE \in BOOLEAN
  OBVIOUS
<1>3. \A i \in Nat : Signal(i) \in OutFrame /\ Signal(i).type = "signal"
  BY <1>2, Zenon DEF Signal, OutFrame
<1>4. /\ Terminated \in OutFrame /\ Terminated.type = "error"
      /\ Subscribed(FALSE) \in OutFrame /\ Subscribed(FALSE).more = FALSE
  BY <1>2, Zenon DEF Terminated, Subscribed, OutFrame
<1>5. \A k \in Nat : SendFrame(k) \in InFrame /\ SendFrame(k).type = "signal"
  BY DEF SendFrame, InFrame
<1>6. \A i \in Nat : Signal(i) \in SignalFrames
  BY <1>3, Zenon DEF SignalFrames
<1>7. Terminated \in PushFrames
  BY <1>4 DEF PushFrames
<1>8. Subscribed(FALSE) \in LiveFrames
  BY <1>4, Zenon DEF LiveFrames
<1>9. \A k \in Nat : SendFrame(k) \in SentFrames
  BY <1>5, Zenon DEF SentFrames
<1> QED
  BY <1>1, <1>6, <1>7, <1>8, <1>9, SeqMonotonic

\* A push leaves the shape as it is.
LEMMA ShapePushed ==
  ASSUME ShapeInv, NEW f \in PushFrames, NEW s, Push(<<f>>, s),
         UNCHANGED <<link, sock, reg, sub, awaiting, cursor>>,
         Listening => \/ up'[sock] = up[sock]
                      \/ sub = "live" /\ up'[sock] \in Seq(SentFrames)
  PROVE  ShapeInv'
<1>1. <<f>> \in Seq(PushFrames) /\ <<f>> \in Seq(LiveFrames)
  BY KindsOfFrames, OneFrame
<1>2. Listening' = Listening
  BY DEF Listening
<1>3. buf' \in Seq(PushFrames)
  <2>1. buf \in Seq(PushFrames)
    BY DEF ShapeInv
  <2>2. buf \o <<f>> \in Seq(PushFrames)
    BY <1>1, <2>1, ConcatProperties
  <2> QED
    BY <2>1, <2>2 DEF Push
<1>4. CASE down' = down
  BY <1>2, <1>3, <1>4 DEF ShapeInv, Asked, Paged, Flowing
<1>5. CASE Listening /\ sub = "live" /\ down' = down \o <<f>>
  <2>1. link = "open" /\ down \in Seq(LiveFrames) /\ up'[sock] \in Seq(SentFrames)
    BY <1>5 DEF ShapeInv, Flowing, Listening
  <2>2. down' \in Seq(LiveFrames)
    BY <1>1, <1>5, <2>1, ConcatProperties
  <2> QED
    BY <1>2, <1>3, <1>5, <2>1, <2>2 DEF ShapeInv, Flowing
<1> QED
  BY <1>4, <1>5 DEF Push

\* A page is sent to a tab that asked.
LEMMA ShapeReplayed ==
  ASSUME TypeInv, ShapeInv, Listening, Asked, awaiting, NEW after \in 0..Len(rows), Replay(after),
         up'[sock] = <<>>, UNCHANGED <<link, sock, reg, awaiting, cursor>>
  PROVE  ShapeInv'
<1> DEFINE ids == Page(after, PageSize)
           n == Len(rows)
<1>1. /\ rows \in Seq(Rows) /\ n \in Nat /\ expired \in 0..n /\ reaped \in 0..expired
      /\ buf \in Seq(OutFrames(n))
  BY DataTypes DEF TypeInv, DatabaseTypes
<1>2. ids \in Seq(1..n)
  BY <1>1, PageFacts, Constants
<1>3. PICK late \in Drained(ids) :
        \/ /\ sub' = "replaying" /\ buf' = buf
           /\ down' = down \o Signals(ids) \o <<Subscribed(TRUE)>>
        \/ /\ sub' = "live" /\ buf' = <<>>
           /\ down' = down \o Signals(ids) \o late \o <<Subscribed(FALSE)>>
  BY DEF Replay
<1> HIDE DEF ids, n
<1>4. Signals(ids) \in Seq(SignalFrames) /\ Signals(ids) \in Seq(LiveFrames)
  <2>1. /\ Signals(ids) \in Seq(OutFrames(n)) /\ Len(Signals(ids)) = Len(ids)
        /\ \A k \in 1..Len(ids) : Signals(ids)[k] = Signal(ids[k]) /\ ids[k] \in 1..n
    BY <1>1, <1>2, SignalsFacts, ElementOfSeq
  <2>2. 1..n \subseteq Nat
    BY <1>1
  <2>3. \A k \in 1..Len(Signals(ids)) : Signals(ids)[k] \in SignalFrames
    BY <2>1, <2>2, KindsOfFrames
  <2>4. Signals(ids) \in Seq(SignalFrames)
    BY <2>1, <2>3, Relisted
  <2> QED
    BY <2>4, KindsOfFrames
<1>5. <<>> \o Signals(ids) = Signals(ids) /\ down = <<>>
  BY <1>4, ConcatEmptySeq DEF Asked
<1>6. Listening' = Listening /\ link = "open" /\ buf \in Seq(PushFrames)
  BY DEF Listening, ShapeInv
<1>7. CASE /\ sub' = "replaying" /\ buf' = buf
           /\ down' = down \o Signals(ids) \o <<Subscribed(TRUE)>>
  <2>1. down' = Append(Signals(ids), Subscribed(TRUE))
    <3> DEFINE S == SignalFrames \cup {Subscribed(TRUE)}
    <3>1. Signals(ids) \in Seq(S) /\ Subscribed(TRUE) \in S
      BY <1>4, SeqMonotonic
    <3> HIDE DEF S
    <3>2. Append(Signals(ids), Subscribed(TRUE)) = Signals(ids) \o <<Subscribed(TRUE)>>
      BY <3>1, AppendIsConcat
    <3> QED
      BY <1>5, <1>7, <3>2
  <2>2. Paged'
    BY <1>4, <2>1 DEF Paged
  <2> QED
    BY <1>6, <1>7, <2>2 DEF ShapeInv
<1>8. CASE /\ sub' = "live" /\ buf' = <<>>
           /\ down' = down \o Signals(ids) \o late \o <<Subscribed(FALSE)>>
  <2>1. /\ late \in Seq(OutFrames(n))
        /\ \A k \in 1..Len(late) : \E j \in 1..Len(buf) : late[k] = buf[j]
    BY <1>1, DrainedFacts
  <2>2. \A k \in 1..Len(late) : late[k] \in LiveFrames
    BY <1>6, <2>1, ElementOfSeq, KindsOfFrames
  <2>3. late \in Seq(LiveFrames)
    BY <2>1, <2>2, Relisted
  <2>4. <<Subscribed(FALSE)>> \in Seq(LiveFrames)
    BY KindsOfFrames, OneFrame
  <2>5. Signals(ids) \o late \in Seq(LiveFrames)
    BY <1>4, <2>3, ConcatProperties
  <2>6. down' \in Seq(LiveFrames)
    BY <1>5, <1>8, <2>4, <2>5, ConcatProperties
  <2>7. up'[sock] \in Seq(SentFrames) /\ <<>> \in Seq(PushFrames)
    OBVIOUS
  <2> QED
    BY <1>6, <1>8, <2>6, <2>7 DEF ShapeInv, Flowing
<1> QED
  BY <1>3, <1>7, <1>8

\* A read that lets no push overtake the answer's takes one frame of the agent
\* and pushes it.
LEMMA AgentPush ==
  ASSUME TypeInv, ReadAgent, ~overtaken'
  PROVE  \/ UNCHANGED <<rows, down, buf>>
         \/ /\ \E x \in 1..MaxAgent : rows' = Append(rows, Row("agent", x))
            /\ Push(<<Signal(Len(rows) + 1)>>, 0)
<1> DEFINE n == Len(rows)
           ids(k) == (n + 1)..(n + k)
<1>1. PICK k \in 1..Burst :
        /\ k <= Len(agentOut)
        /\ \/ UNCHANGED <<rows, down, buf>>
           \/ /\ rows' = rows \o [i \in 1..k |-> Row("agent", agentOut[i])]
              /\ \E answers \in Increasing({i \in ids(k) : IsAnswer(i)}),
                    others \in Increasing({i \in ids(k) : ~IsAnswer(i)}) :
                   Push(Signals(others \o answers), 0)
        /\ overtaken' = (overtaken \/ k > 1)
  <2> DEFINE Pushed(k) ==
        \/ UNCHANGED <<rows, down, buf>>
        \/ /\ rows' = rows \o [i \in 1..k |-> Row("agent", agentOut[i])]
           /\ \E answers \in Increasing({i \in ids(k) : IsAnswer(i)}),
                 others \in Increasing({i \in ids(k) : ~IsAnswer(i)}) :
                Push(Signals(others \o answers), 0)
  <2>1. PICK k \in 1..Burst :
          k <= Len(agentOut) /\ Pushed(k) /\ overtaken' = (overtaken \/ k > 1)
    BY Zenon DEF ReadAgent
  <2> QED
    BY <2>1, Zenon
<1>k. ~(k > 1)
  BY <1>1, Zenon
<1>2. k = 1 /\ n \in Nat /\ agentOut \in Seq(1..MaxAgent) /\ rows \in Seq(Rows)
  BY <1>k, DataTypes, Constants DEF TypeInv, AgentTypes
<1>3. agentOut[1] \in 1..MaxAgent
  <2> DEFINE S == 1..MaxAgent
  <2>1. agentOut \in Seq(S) /\ 1 \in 1..Len(agentOut)
    BY <1>1, <1>2, LenProperties
  <2> HIDE DEF S
  <2>2. agentOut[1] \in S
    BY <2>1, ElementOfSeq
  <2> QED
    BY <2>2 DEF S
<1>4. CASE /\ rows' = rows \o [i \in 1..k |-> Row("agent", agentOut[i])]
           /\ \E answers \in Increasing({i \in ids(k) : IsAnswer(i)}),
                 others \in Increasing({i \in ids(k) : ~IsAnswer(i)}) :
                Push(Signals(others \o answers), 0)
  <2>1. rows' = Append(rows, Row("agent", agentOut[1]))
    <3> DEFINE row == Row("agent", agentOut[1])
    <3>1. [i \in 1..k |-> Row("agent", agentOut[i])] = <<row>>
      BY <1>2
    <3>2. row \in Rows
      BY <1>3, Constants DEF Row, Rows
    <3> HIDE DEF row
    <3> QED
      BY <1>2, <1>4, <3>1, <3>2, AppendIsConcat DEF row
  <2>2. ids(k) = {n + 1}
    BY <1>2
  <2> HIDE DEF n, ids
  <2>3. PICK answers \in Increasing({i \in {n + 1} : IsAnswer(i)}),
             others \in Increasing({i \in {n + 1} : ~IsAnswer(i)}) :
               Push(Signals(others \o answers), 0)
    BY <1>4, <2>2
  <2>4. ASSUME NEW f \in Increasing({}) PROVE f = <<>>
    <3>1. IsFiniteSet({})
      BY FS_EmptySet
    <3>2. f \in Seq({})
      BY <2>4, <3>1, IncreasingFacts
    <3> QED
      BY <3>2, EmptySeq, ElementOfSeq
  <2>5. ASSUME NEW x, NEW f \in Increasing({x}) PROVE f = <<x>>
    <3>1. Cardinality({x}) = 1
      BY FS_Singleton
    <3>2. f \in [1..1 -> {x}]
      BY <2>5, <3>1 DEF Increasing
    <3> QED
      BY <3>2
  <2>6. others \o answers = <<n + 1>>
    <3>1. CASE IsAnswer(n + 1)
      <4>1. {i \in {n + 1} : IsAnswer(i)} = {n + 1} /\ {i \in {n + 1} : ~IsAnswer(i)} = {}
        BY <3>1
      <4>2. answers = <<n + 1>> /\ others = <<>>
        BY <2>4, <2>5, <4>1
      <4> QED
        BY <4>2
    <3>2. CASE ~IsAnswer(n + 1)
      <4>1. {i \in {n + 1} : ~IsAnswer(i)} = {n + 1} /\ {i \in {n + 1} : IsAnswer(i)} = {}
        BY <3>2
      <4>2. others = <<n + 1>> /\ answers = <<>>
        BY <2>4, <2>5, <4>1
      <4> QED
        BY <4>2
    <3> QED
      BY <3>1, <3>2
  <2>7. Signals(<<n + 1>>) = <<Signal(n + 1)>>
    BY DEF Signals
  <2> QED
    BY <1>3, <2>1, <2>3, <2>6, <2>7 DEF n
<1> QED
  BY <1>1, <1>4

-----------------------------------------------------------------------------
(* The invariants hold at every step.                                      *)

\* The server reads a frame of the current socket: the request for a page, or,
\* once live, a signal.
LEMMA ReadsOwn ==
  ASSUME TypeInv, ShapeInv, Listening, up[sock] # <<>>
  PROVE  \/ /\ sub \in {"none", "replaying"} /\ awaiting /\ Asked
            /\ Head(up[sock]) = Subscribe(cursor) /\ Tail(up[sock]) = <<>>
         \/ /\ sub = "live" /\ Head(up[sock]).type = "signal"
            /\ Tail(up[sock]) \in Seq(SentFrames)
<1>1. CASE sub = "live"
  <2>1. up[sock] \in Seq(SentFrames)
    BY <1>1 DEF ShapeInv, Flowing
  <2>2. Head(up[sock]) \in SentFrames /\ Tail(up[sock]) \in Seq(SentFrames)
    BY <2>1, HeadFacts
  <2> QED
    BY <1>1, <2>2 DEF SentFrames
<1>2. CASE sub # "live"
  <2>1. sub \in {"none", "replaying"} /\ awaiting /\ Asked
    BY <1>2 DEF ShapeInv, Paged, TypeInv, SubTypes
  <2>2. up[sock] = <<Subscribe(cursor)>>
    BY <2>1 DEF Asked
  <2>3. Head(up[sock]) = Subscribe(cursor) /\ Tail(up[sock]) = <<>>
    BY <2>2
  <2> QED
    BY <2>1, <2>3
<1> QED
  BY <1>1, <1>2

\* What a frame of a browser's socket does.
LEMMA BrowserReads ==
  ASSUME TypeInv, ShapeInv, NEW s \in Sockets, ReadBrowser(s)
  PROVE  /\ UNCHANGED <<expired, cursor, heard, link, sock, reg, awaiting>>
         /\ \/ /\ Listening /\ Asked /\ awaiting /\ Replay(cursor)
               /\ UNCHANGED rows /\ up'[sock] = <<>>
            \/ /\ \/ UNCHANGED <<rows, sub, seen, buf, down>>
                  \/ /\ \E x \in 1..MaxSent : rows' = Append(rows, Row("browser", x))
                     /\ Push(<<Signal(Len(rows) + 1)>>, s) /\ UNCHANGED <<sub, seen>>
                  \/ Push(<<Terminated>>, 0) /\ UNCHANGED <<rows, sub, seen>>
               /\ Listening => \/ up'[sock] = up[sock]
                               \/ sub = "live" /\ up'[sock] \in Seq(SentFrames)
<1> DEFINE f == Head(up[s])
<1>1. /\ UNCHANGED <<expired, cursor, heard, link, sock, reg, awaiting>>
      /\ s \in reg /\ up[s] # <<>> /\ up' = [up EXCEPT ![s] = Tail(up[s])]
  BY DEF ReadBrowser, RecordBrowser, database, client, history
<1>2. \/ /\ f.type = "subscribe" /\ UNCHANGED rows
         /\ IF Listening /\ s = sock THEN Replay(f.arg) ELSE UNCHANGED <<sub, seen, buf, down>>
      \/ /\ f.type = "signal" /\ rows' = Append(rows, Row("browser", f.arg))
         /\ Push(<<Signal(Len(rows) + 1)>>, s) /\ UNCHANGED <<sub, seen>>
      \/ /\ f.type = "signal" /\ UNCHANGED <<rows, sub, seen, buf>>
         /\ down' = IF Listening /\ s = sock THEN Append(down, Terminated) ELSE down
  BY DEF ReadBrowser, RecordBrowser, database
<1>3. /\ up \in [Sockets -> Seq(InFrames(Len(rows)))] /\ (f.type = "signal" => f.arg \in 1..MaxSent)
      /\ sock \in Nat /\ (Listening => sock \in Sockets /\ sock # 0)
  BY <1>1, UpHead, Constants DEF TypeInv, WireTypes, SocketTypes, Listening, Sockets
<1>4. CASE Listening /\ s = sock
  <2>1. up'[sock] = Tail(up[sock])
    BY <1>1, <1>3, <1>4
  <2>2. CASE /\ sub \in {"none", "replaying"} /\ awaiting /\ Asked
             /\ f = Subscribe(cursor) /\ Tail(up[sock]) = <<>>
    <3>1. f.type = "subscribe" /\ f.arg = cursor
      BY <2>2 DEF Subscribe
    <3> QED
      BY <1>1, <1>2, <1>4, <2>1, <2>2, <3>1
  <2>3. CASE sub = "live" /\ f.type = "signal" /\ Tail(up[sock]) \in Seq(SentFrames)
    <3>1. CASE UNCHANGED <<rows, sub, seen, buf>> /\ down' = Append(down, Terminated)
      <4>1. down \in Seq(LiveFrames) /\ Terminated \in LiveFrames
        BY <1>4, <2>3, KindsOfFrames DEF ShapeInv, Flowing
      <4>2. down' = down \o <<Terminated>>
        BY <3>1, <4>1, AppendIsConcat
      <4>3. Push(<<Terminated>>, 0)
        BY <1>3, <1>4, <2>3, <3>1, <4>2 DEF Push
      <4> QED
        BY <1>1, <2>1, <2>3, <3>1, <4>3
    <3> QED
      BY <1>1, <1>2, <1>3, <1>4, <2>1, <2>3, <3>1
  <2> QED
    BY <1>1, <1>4, <2>2, <2>3, ReadsOwn
<1>5. CASE ~(Listening /\ s = sock)
  <2>1. Listening => up'[sock] = up[sock]
    BY <1>1, <1>3, <1>5
  <2> QED
    BY <1>1, <1>2, <1>3, <1>5, <2>1
<1> QED
  BY <1>4, <1>5

\* The tab reads a frame: a signal, the last of a page that asks for the next,
\* or of the replay that lets the queue go.
LEMMA ShapeReceived ==
  ASSUME TypeInv, ShapeInv, Receive
  PROVE  ShapeInv'
<1> DEFINE f == Head(down)
<1>1. link = "open" /\ down # <<>> /\ UNCHANGED <<sub, buf, sock, reg>>
  BY DEF Receive, server
<1>2. buf' \in Seq(PushFrames)
  BY <1>1 DEF ShapeInv
<1>3. /\ f.type = "signal" => /\ down' = Tail(down) /\ UNCHANGED <<link, awaiting, up>>
      /\ f.type = "subscribed" => /\ down' = Tail(down) /\ UNCHANGED <<link, cursor>>
                                  /\ HearSubscribed(f.more)
      /\ f.type = "error" => link' = "handed" /\ down' = <<>>
      /\ f.type \in {"signal", "subscribed", "error"}
  BY DEF Receive, HandOff
<1>4. CASE f.type = "error"
  BY <1>2, <1>3, <1>4 DEF ShapeInv, Listening
<1>5. link' = "open" => (Listening' <=> Listening)
  BY <1>1 DEF Listening
<1>6. CASE f.type # "error" /\ ~Listening
  BY <1>1, <1>2, <1>3, <1>5, <1>6 DEF ShapeInv
<1>7. CASE f.type # "error" /\ Listening /\ sub = "live"
  <2>1. up[sock] \in Seq(SentFrames) /\ down \in Seq(LiveFrames)
    BY <1>7 DEF ShapeInv, Flowing
  <2>2. f \in LiveFrames /\ Tail(down) \in Seq(LiveFrames)
    BY <1>1, <2>1, HeadFacts
  <2>3. f.type = "subscribed" => f.more = FALSE
    BY <2>2 DEF LiveFrames
  <2>4. up'[sock] \in Seq(SentFrames)
    <3>1. CASE f.type = "signal"
      BY <1>3, <2>1, <3>1
    <3>2. CASE f.type = "subscribed"
      <4> DEFINE fs == [k \in 1..Len(pending) |-> SendFrame(pending[k])]
      <4>1. sock \in Sockets /\ up \in [Sockets -> Seq(InFrames(Len(rows)))]
            /\ sock \in reg /\ pending \in Seq(1..MaxSent)
        BY <1>7, Constants DEF TypeInv, WireTypes, SocketTypes, ClientTypes, Listening, Sockets
      <4>2. up'[sock] = up[sock] \o fs
        BY <1>3, <2>3, <3>2, <4>1 DEF HearSubscribed
      <4>3. /\ fs \in Seq(InFrames(0)) /\ Len(fs) = Len(pending)
            /\ \A k \in 1..Len(pending) : fs[k] = SendFrame(pending[k]) /\ pending[k] \in 1..MaxSent
        BY <4>1, FlushFacts, ElementOfSeq
      <4> HIDE DEF fs
      <4>4. \A k \in 1..Len(fs) : fs[k] \in SentFrames
        BY <4>3, KindsOfFrames, Constants
      <4>5. fs \in Seq(SentFrames)
        BY <4>3, <4>4, Relisted
      <4> QED
        BY <2>1, <4>2, <4>5, ConcatProperties
    <3> QED
      BY <1>3, <1>7, <3>1, <3>2
  <2> QED
    BY <1>1, <1>2, <1>3, <1>7, <2>2, <2>4 DEF ShapeInv, Flowing
<1>8. CASE f.type # "error" /\ Listening /\ sub # "live"
  <2>1. sub = "replaying" /\ awaiting /\ Paged
    BY <1>1, <1>8 DEF ShapeInv, Asked, TypeInv, SubTypes
  <2>2. PICK q \in Seq(SignalFrames) : down = Append(q, Subscribed(TRUE))
    BY <2>1 DEF Paged
  <2>3. /\ f = IF q = <<>> THEN Subscribed(TRUE) ELSE Head(q)
        /\ Tail(down) = IF q = <<>> THEN <<>> ELSE Append(Tail(q), Subscribed(TRUE))
    BY <2>2, HeadTailAppend
  <2>4. CASE q = <<>>
    <3>1. f.type = "subscribed" /\ f.more = TRUE /\ down' = <<>>
      <4>1. Subscribed(TRUE).type = "subscribed" /\ Subscribed(TRUE).more = TRUE
        BY Zenon DEF Subscribed
      <4>2. f = Subscribed(TRUE) /\ Tail(down) = <<>>
        BY <2>3, <2>4
      <4>3. f.type = "subscribed"
        BY <4>1, <4>2
      <4>4. f.more = TRUE
        BY <4>1, <4>2, Zenon
      <4> QED
        BY <1>3, <4>2, <4>3, <4>4
    <3>2. /\ sock \in Sockets /\ up \in [Sockets -> Seq(InFrames(Len(rows)))] /\ sock \in reg
          /\ up[sock] = <<>>
      BY <1>8, <2>1, Constants DEF TypeInv, WireTypes, SocketTypes, Listening, Sockets, Paged
    <3>3. awaiting' = TRUE /\ up'[sock] = Append(up[sock], Subscribe(cursor)) /\ UNCHANGED cursor
      BY <1>3, <3>1, <3>2 DEF HearSubscribed
    <3>4. Asked'
      BY <1>1, <3>1, <3>2, <3>3 DEF Asked
    <3> QED
      BY <1>1, <1>2, <1>3, <2>1, <3>1, <3>3, <3>4 DEF ShapeInv
  <2>5. CASE q # <<>>
    <3>1. Head(q) \in SignalFrames /\ Tail(q) \in Seq(SignalFrames)
      BY <2>5, HeadFacts
    <3>2. f.type = "signal"
      BY <2>3, <2>5, <3>1 DEF SignalFrames
    <3>3. Paged'
      BY <1>1, <1>3, <2>1, <2>3, <2>5, <3>1, <3>2 DEF Paged
    <3> QED
      BY <1>1, <1>2, <1>3, <2>1, <3>2, <3>3 DEF ShapeInv
  <2> QED
    BY <2>4, <2>5
<1> QED
  BY <1>4, <1>6, <1>7, <1>8

\* Once a push has overtaken the answer's, it has.
LEMMA OvertakenStays == [Next]_vars /\ overtaken => overtaken'
<1> SUFFICES ASSUME [Next]_vars, overtaken PROVE overtaken'
  OBVIOUS
<1>1. overtaken' = overtaken \/ ReadAgent
  BY DEF Next, ServerStep, ReadBrowser, DropSocket, AgentClosed, DeleteSession,
            Expire, Cleanup, Restart, AgentStep, AgentDrops, AgentConnects, AgentSends,
            SocketStep, MintSucceeds, MintFails, MintRefused, SocketOpens, Disconnect,
            TimerFires, Send, Receive, Close, RestStep, PostArrives, PostLost, Poll, PollServed,
            PollReturns, PollFails, history, vars
<1>2. CASE ReadAgent
  <2>1. PICK k \in 1..Burst : overtaken' = (overtaken \/ k > 1)
    BY <1>2, Zenon DEF ReadAgent
  <2> QED
    BY <2>1, Zenon
<1> QED
  BY <1>1, <1>2, Zenon

LEMMA ShapeStep ==
  ASSUME TypeInv, ShapeInv, [Next]_vars, ~overtaken'
  PROVE  ShapeInv'
<1> DEFINE Same == UNCHANGED <<link, sock, reg, sub, awaiting, cursor>>
           Goal == ShapeInv'
<1> SUFFICES Goal
  OBVIOUS
<1>1. Len(rows) \in Nat /\ Len(rows) + 1 \in Nat /\ cursor \in 0..Len(rows)
  BY DataTypes
<1>2. Signal(Len(rows) + 1) \in PushFrames /\ Terminated \in PushFrames /\ <<>> \in Seq(PushFrames)
  BY <1>1, KindsOfFrames
<1>3. sock \in 0..MaxSockets /\ (link = "open" => sock \in Sockets)
  BY Constants DEF TypeInv, SocketTypes, Sockets
<1>a. CASE Same /\ UNCHANGED <<down, buf>> /\ (Listening => up'[sock] = up[sock])
  <2>1. Listening' = Listening
    BY <1>a DEF Listening
  <2> QED
    BY <1>a, <2>1 DEF ShapeInv, Asked, Paged, Flowing
<1>b. ASSUME Same, UNCHANGED up, NEW g \in PushFrames, Push(<<g>>, 0) PROVE Goal
  BY <1>b, ShapePushed
<1>c. CASE UNCHANGED <<sock, reg, sub, buf>> /\ link' # "open" /\ down' = <<>>
  BY <1>c DEF ShapeInv, Listening
<1>4. ASSUME NEW s \in Sockets, ReadBrowser(s) PROVE Goal
  <2>1. UNCHANGED <<link, sock, reg, awaiting, cursor>>
    BY <1>4, BrowserReads
  <2>2. CASE Listening /\ Asked /\ awaiting /\ Replay(cursor) /\ up'[sock] = <<>>
    BY <1>1, <2>1, <2>2, ShapeReplayed
  <2>3. CASE /\ \/ UNCHANGED <<rows, sub, seen, buf, down>>
                \/ Push(<<Signal(Len(rows) + 1)>>, s) /\ UNCHANGED <<sub, seen>>
                \/ Push(<<Terminated>>, 0) /\ UNCHANGED <<rows, sub, seen>>
             /\ Listening => \/ up'[sock] = up[sock]
                             \/ sub = "live" /\ up'[sock] \in Seq(SentFrames)
    <3>1. CASE UNCHANGED <<sub, buf, down>>
      <4>1. CASE Listening => up'[sock] = up[sock]
        BY <1>a, <2>1, <3>1, <4>1
      <4>2. CASE Listening /\ sub = "live" /\ up'[sock] \in Seq(SentFrames)
        BY <2>1, <3>1, <4>2 DEF ShapeInv, Flowing, Listening
      <4> QED
        BY <2>3, <4>1, <4>2
    <3>2. CASE Push(<<Signal(Len(rows) + 1)>>, s) /\ UNCHANGED <<sub, seen>>
      BY <1>2, <2>1, <2>3, <3>2, ShapePushed
    <3>3. CASE Push(<<Terminated>>, 0) /\ UNCHANGED <<rows, sub, seen>>
      BY <1>2, <2>1, <2>3, <3>3, ShapePushed
    <3> QED
      BY <2>3, <3>1, <3>2, <3>3
  <2> HIDE DEF Goal, Same
  <2> QED
    BY <1>4, <2>2, <2>3, BrowserReads
<1>5. ASSUME NEW s \in Sockets, DropSocket(s) PROVE Goal
  <2>1. /\ reg' = reg \ {s} /\ up' = [up EXCEPT ![s] = <<>>]
        /\ UNCHANGED <<down, link, sock, awaiting, cursor>>
        /\ IF s = sock THEN sub' = "none" /\ buf' = <<>> ELSE UNCHANGED <<sub, buf>>
    BY <1>5 DEF DropSocket, client
  <2>2. CASE s = sock
    BY <1>2, <2>1, <2>2 DEF ShapeInv, Listening
  <2>3. CASE s # sock
    <3>1. Listening' = Listening /\ UNCHANGED <<sub, buf>>
      BY <2>1, <2>3 DEF Listening
    <3>2. Listening => up'[sock] = up[sock]
      BY <1>3, <2>1, <2>3 DEF Listening, TypeInv, WireTypes
    <3> QED
      BY <2>1, <3>1, <3>2 DEF ShapeInv, Asked, Paged, Flowing
  <2> QED
    BY <2>2, <2>3
<1>6. CASE ReadAgent
  <2>1. Same /\ UNCHANGED up
    BY <1>6 DEF ReadAgent, client
  <2>2. UNCHANGED <<down, buf>> \/ Push(<<Signal(Len(rows) + 1)>>, 0)
    BY <1>6, AgentPush
  <2> QED
    BY <1>a, <1>b, <1>2, <2>1, <2>2
<1>7. CASE AgentClosed \/ DeleteSession
  <2>1. Same /\ UNCHANGED up /\ (UNCHANGED <<down, buf>> \/ Push(<<Terminated>>, 0))
    BY <1>7 DEF AgentClosed, DeleteSession, Terminate, client
  <2> QED
    BY <1>a, <1>b, <1>2, <2>1
<1>8. CASE Expire \/ Cleanup \/ AgentStep
  BY <1>8, <1>a DEF Expire, Cleanup, AgentStep, AgentDrops, AgentConnects, AgentSends, server,
              wires, client
<1>9. CASE Restart
  BY <1>2, <1>9 DEF Restart, client, ShapeInv, Listening
<1>10. CASE MintSucceeds \/ TimerFires
  <2>1. down = <<>>
    BY <1>10 DEF MintSucceeds, TimerFires, ShapeInv
  <2> QED
    BY <1>10, <2>1 DEF MintSucceeds, TimerFires, server, wires, ShapeInv, Listening
<1>11. CASE MintFails \/ MintRefused
  <2>1. down = <<>> /\ link' # "open" /\ UNCHANGED <<sock, reg, sub, buf, down>>
    BY <1>11 DEF MintFails, MintRefused, ScheduleReconnect, HandOff, ShapeInv, server, wires
  <2> QED
    BY <1>c, <2>1
<1>12. CASE Disconnect \/ Close
  BY <1>12, <1>c DEF Disconnect, Close, ScheduleReconnect, HandOff, server
<1>13. CASE SocketOpens
  <2>1. /\ link' = "open" /\ awaiting' = TRUE /\ sub' = "none" /\ buf' = <<>> /\ down' = <<>>
        /\ up' = [up EXCEPT ![sock] = <<Subscribe(cursor)>>] /\ UNCHANGED <<sock, cursor>>
    BY <1>13 DEF SocketOpens
  <2>2. sock \in Sockets /\ up \in [Sockets -> Seq(InFrames(Len(rows)))]
    BY <1>13, Constants DEF SocketOpens, TypeInv, SocketTypes, WireTypes, Sockets
  <2> QED
    BY <1>2, <2>1, <2>2 DEF ShapeInv, Asked
<1>14. CASE Send
  <2>1. Same /\ UNCHANGED <<down, buf>>
    BY <1>14 DEF Send, server
  <2>2. CASE up' = up
    BY <1>a, <2>1, <2>2
  <2>3. CASE /\ link = "open" /\ ~awaiting
             /\ up' = [up EXCEPT ![sock] = IF sock \in reg THEN Append(@, SendFrame(sent')) ELSE @]
    <3>1. CASE ~Listening
      BY <1>a, <2>1, <3>1
    <3>2. CASE Listening
      <4>1. sub = "live" /\ up[sock] \in Seq(SentFrames)
        BY <2>3, <3>2 DEF ShapeInv, Flowing, TypeInv, SubTypes
      <4>2. sent' \in Nat
        BY <1>14 DEF Send, TypeInv, ClientTypes
      <4>3. Append(up[sock], SendFrame(sent')) \in Seq(SentFrames)
        BY <4>1, <4>2, KindsOfFrames, AppendProperties
      <4>4. up'[sock] = Append(up[sock], SendFrame(sent'))
        BY <1>3, <2>3, <3>2 DEF Listening, TypeInv, WireTypes
      <4> QED
        BY <2>1, <3>2, <4>1, <4>3, <4>4 DEF ShapeInv, Flowing, Listening
    <3> QED
      BY <3>1, <3>2
  <2> QED
    BY <1>14, <2>2, <2>3 DEF Send
<1>15. CASE Receive
  BY <1>15, ShapeReceived
<1>16. CASE RestStep
  BY <1>16, <1>a DEF RestStep, PostArrives, PostLost, Poll, PollServed, PollReturns, PollFails,
              server, wires, client
<1>17. CASE UNCHANGED vars
  BY <1>17, <1>a DEF vars, server, wires, client
<1> HIDE DEF Goal
<1> QED
  BY <1>4, <1>5, <1>6, <1>7, <1>8, <1>9, <1>10, <1>11, <1>12, <1>13, <1>14, <1>15, <1>16, <1>17
  DEF Next, ServerStep, SocketStep

\* The end of the session is pushed: no signal moves.
LEMMA DataTold ==
  ASSUME TypeInv, DataInv, Push(<<Terminated>>, 0),
         UNCHANGED <<rows, expired, cursor, heard, seen, sub, link, sock, reg>>
  PROVE  DataInv'
<1> DEFINE F == OutFrames(Len(rows))
           last == <<Terminated>>
<1>1. Len(rows) \in Nat /\ down \in Seq(F) /\ buf \in Seq(F)
  BY DataTypes
<1>2. last \in Seq(F) /\ SigIds(last) = {} /\ Ordered(last)
  <2>1. Terminated \in F /\ Terminated.type = "error"
    BY <1>1, FrameFacts
  <2> HIDE DEF F
  <2> QED
    BY <2>1, OneFrame, OneFollows
<1>3. Listening' = Listening
  BY DEF Listening
<1> HIDE DEF F, last
<1>4. down' \in {down, down \o last} /\ buf' \in {buf, buf \o last}
  BY DEF Push, last
<1>5. SigIds(down \o last) = SigIds(down) /\ Ordered(down \o last)
  <2>1. SigIds(down \o last) = SigIds(down) \cup SigIds(last) /\ Ordered(down \o last)
    BY <1>1, <1>2, FramesFollow DEF DataInv, F
  <2> QED
    BY <1>2, <2>1
<1>6. SigIds(buf \o last) = SigIds(buf)
  <2>1. SigIds(buf \o last) = SigIds(buf) \cup SigIds(last)
    BY <1>1, <1>2, SigIdsConcat DEF F
  <2> QED
    BY <1>2, <2>1
<1>7. Ordered(down') /\ SigIds(down') = SigIds(down) /\ SigIds(buf') = SigIds(buf)
  BY <1>4, <1>5, <1>6 DEF DataInv
<1> QED
  BY <1>3, <1>7, DataKept

\* A signal is recorded and pushed.
LEMMA DataPushed ==
  ASSUME TypeInv, DataInv, NEW who \in {"browser", "agent"}, NEW x \in Nat, NEW s,
         rows' = Append(rows, Row(who, x)), Push(<<Signal(Len(rows) + 1)>>, s),
         who = "agent" => s = 0,
         UNCHANGED <<expired, cursor, heard, seen, sub, link, sock, reg>>
  PROVE  DataInv'
<1>1. Row(who, x) \in Rows
  BY DEF Row, Rows
<1>2. Listening => sock # 0
  BY DEF TypeInv, SocketTypes, Listening
<1>3. who # "agent" \/ ~Listening \/ sock # s
  BY <1>2
<1>4. CASE Listening /\ sock # s /\ sub = "live"
  <2>1. down' = down \o <<Signal(Len(rows) + 1)>> /\ UNCHANGED buf
    BY <1>4 DEF Push
  <2> QED
    BY <1>1, <1>4, <2>1, DataRecorded
<1>5. CASE Listening /\ sock # s /\ sub = "replaying"
  <2>1. buf' = buf \o <<Signal(Len(rows) + 1)>> /\ UNCHANGED down
    BY <1>5 DEF Push
  <2> QED
    BY <1>1, <1>5, <2>1, DataRecorded
<1>6. CASE ~(Listening /\ sock # s /\ sub \in {"live", "replaying"})
  <2>1. UNCHANGED <<down, buf>>
    BY <1>6 DEF Push
  <2>2. who # "agent" \/ ~(Listening /\ sub = "live")
    BY <1>3, <1>6
  <2> QED
    BY <1>1, <2>1, <2>2, DataRecorded
<1> QED
  BY <1>4, <1>5, <1>6

LEMMA DataStep ==
  ASSUME TypeInv, ShapeInv, DataInv, [Next]_vars, ~overtaken'
  PROVE  DataInv'
<1> DEFINE Feeds == <<expired, cursor, heard>>
           Same == UNCHANGED <<rows, expired, cursor, heard>>
           Goal == DataInv'
<1> SUFFICES Goal
  OBVIOUS
<1>1. \A k \in 1..MaxSent : k \in Nat
  BY Constants
<1>2. \A k \in 1..MaxAgent : k \in Nat
  BY Constants
<1>3. Ordered(down) /\ SigIds(<<>>) = {} /\ Ordered(<<>>)
  BY NoFrames DEF DataInv
<1>a. CASE Same /\ UNCHANGED <<down, buf, seen, sub, link, sock, reg>>
  <2>1. Listening' = Listening
    BY <1>a DEF Listening
  <2> QED
    BY <1>a, <1>3, <2>1, DataKept
\* The subscription is over.
<1>b. CASE Same /\ down' \in {down, <<>>} /\ ~Listening' /\ (UNCHANGED <<buf, seen, sub>> \/ buf' = <<>>)
  BY <1>b, <1>3, DataKept
<1>4. ASSUME NEW s \in Sockets, ReadBrowser(s) PROVE Goal
  <2>1. UNCHANGED <<expired, cursor, heard, link, sock, reg>>
    BY <1>4, BrowserReads
  <2>2. CASE Listening /\ Asked /\ Replay(cursor) /\ UNCHANGED rows
    BY <2>1, <2>2, DataReplayed DEF Asked
  <2>3. CASE UNCHANGED <<rows, sub, seen, buf, down>>
    BY <1>a, <2>1, <2>3
  <2>4. CASE /\ \E x \in 1..MaxSent : rows' = Append(rows, Row("browser", x))
             /\ Push(<<Signal(Len(rows) + 1)>>, s) /\ UNCHANGED <<sub, seen>>
    BY <1>1, <2>1, <2>4, DataPushed
  <2>5. CASE Push(<<Terminated>>, 0) /\ UNCHANGED <<rows, sub, seen>>
    BY <2>1, <2>5, DataTold
  <2> HIDE DEF Goal
  <2> QED
    BY <1>4, <2>2, <2>3, <2>4, <2>5, BrowserReads
<1>5. ASSUME NEW s \in Sockets, DropSocket(s) PROVE Goal
  <2>1. /\ Same /\ reg' = reg \ {s} /\ UNCHANGED <<down, link, sock>>
        /\ IF s = sock THEN sub' = "none" /\ buf' = <<>> ELSE UNCHANGED <<sub, seen, buf>>
    BY <1>5 DEF DropSocket, database, client, history
  <2>2. CASE s = sock
    BY <1>b, <2>1, <2>2 DEF Listening
  <2>3. CASE s # sock
    <3>1. Listening' = Listening
      BY <2>1, <2>3 DEF Listening
    <3> QED
      BY <1>3, <2>1, <2>3, <3>1, DataKept
  <2> QED
    BY <2>2, <2>3
<1>6. CASE ReadAgent
  <2>1. UNCHANGED <<expired, cursor, heard, seen, sub, link, sock, reg>>
    BY <1>6 DEF ReadAgent, client, history
  <2>2. CASE UNCHANGED <<rows, down, buf>>
    BY <1>a, <2>1, <2>2
  <2>3. CASE /\ \E x \in 1..MaxAgent : rows' = Append(rows, Row("agent", x))
             /\ Push(<<Signal(Len(rows) + 1)>>, 0)
    BY <1>2, <2>1, <2>3, DataPushed
  <2> QED
    BY <1>6, <2>2, <2>3, AgentPush
<1>7. CASE AgentClosed \/ DeleteSession
  <2>1. /\ Same /\ UNCHANGED <<seen, sub, link, sock, reg>>
        /\ UNCHANGED <<down, buf>> \/ Push(<<Terminated>>, 0)
    BY <1>7 DEF AgentClosed, DeleteSession, Terminate, client, history
  <2> QED
    BY <1>a, <2>1, DataTold
<1>8. CASE Expire
  BY <1>8, DataExpires
<1>9. CASE Cleanup \/ AgentStep
  BY <1>9, <1>a DEF Cleanup, AgentStep, AgentDrops, AgentConnects, AgentSends, database, server,
              wires, client, history
<1>10. CASE Restart
  BY <1>10, <1>b DEF Restart, database, client, history, Listening
<1>11. CASE MintSucceeds \/ TimerFires \/ MintFails \/ MintRefused \/ Disconnect \/ Close
  <2>1. Same /\ UNCHANGED <<buf, seen, sub>> /\ down' \in {down, <<>>} /\ link' # "open"
    BY <1>11 DEF MintSucceeds, TimerFires, MintFails, MintRefused, Disconnect, Close,
                ScheduleReconnect, HandOff, database, server, wires, history
  <2> QED
    BY <1>b, <2>1 DEF Listening
<1>12. CASE SocketOpens
  <2>1. Same /\ sub' = "none" /\ buf' = <<>> /\ down' = <<>>
    BY <1>12 DEF SocketOpens, database, history
  <2> QED
    BY <1>3, <2>1, DataKept
<1>13. CASE Send
  <2>1. Same /\ UNCHANGED <<down, buf, seen, sub, link, sock, reg>>
    BY <1>13 DEF Send, database, server, history
  <2> QED
    BY <1>a, <2>1
<1>14. CASE Receive
  <2>1. CASE Head(down).type = "signal"
    BY <1>14, <2>1, DataHeard
  <2>2. CASE Head(down).type = "subscribed"
    <3>1. /\ Same /\ down # <<>> /\ down' = Tail(down)
          /\ UNCHANGED <<buf, seen, sub, link, sock, reg>>
      BY <1>14, <2>2 DEF Receive, database, server
    <3>2. Len(rows) \in Nat /\ down \in Seq(OutFrames(Len(rows)))
      BY DataTypes
    <3>3. Ordered(down') /\ SigIds(down') = SigIds(down)
      BY <1>3, <2>2, <3>1, <3>2, HeadHeard
    <3>4. Listening' = Listening
      BY <3>1 DEF Listening
    <3> QED
      BY <3>1, <3>3, <3>4, DataKept
  <2>3. CASE Head(down).type = "error"
    <3>1. /\ Same /\ down' = <<>> /\ link' = "handed" /\ UNCHANGED <<buf, seen, sub>>
      BY <1>14, <2>3 DEF Receive, HandOff, database, server
    <3> QED
      BY <1>b, <3>1 DEF Listening
  <2> QED
    BY <1>14, <2>1, <2>2, <2>3 DEF Receive
<1>15. CASE \E k \in posts : PostArrives(k)
  <2>1. PICK k \in posts : PostArrives(k)
    BY <1>15
  <2>2. /\ UNCHANGED <<expired, cursor, heard, down, buf, seen, sub, link, sock, reg>>
        /\ UNCHANGED rows \/ rows' = Append(rows, Row("browser", k))
    BY <2>1 DEF PostArrives, RecordBrowser, database, server, wires, client, history
  <2>3. CASE UNCHANGED rows
    BY <1>a, <2>2, <2>3
  <2>4. CASE rows' = Append(rows, Row("browser", k))
    <3>1. k \in Nat
      BY Constants DEF TypeInv, RestTypes
    <3>2. Row("browser", k) \in Rows
      BY <3>1 DEF Row, Rows
    <3> QED
      BY <2>2, <2>4, <3>2, DataRecorded
  <2> QED
    BY <2>2, <2>3, <2>4
<1>16. CASE RestStep /\ ~\E k \in posts : PostArrives(k)
  <2>1. Same /\ UNCHANGED <<down, buf, seen, sub, link, sock, reg>>
    BY <1>16 DEF RestStep, PostLost, Poll, PollServed, PollReturns, PollFails, database, server,
                wires, client, history
  <2> QED
    BY <1>a, <2>1
<1>17. CASE UNCHANGED vars
  BY <1>17, <1>a DEF vars, database, server, wires, client, history
<1> HIDE DEF Goal
<1> QED
  BY <1>4, <1>5, <1>6, <1>7, <1>8, <1>9, <1>10, <1>11, <1>12, <1>13, <1>14, <1>15, <1>16, <1>17
  DEF Next, ServerStep, SocketStep

-----------------------------------------------------------------------------
(* The theorems.                                                           *)

FeedInv == TypeInv /\ (~overtaken => ShapeInv /\ DataInv)

LEMMA FeedInit == Init => FeedInv
<1> SUFFICES ASSUME Init PROVE FeedInv
  OBVIOUS
<1>1. rows = <<>> /\ down = <<>> /\ buf = <<>> /\ heard = <<>> /\ cursor = 0 /\ ~Listening /\ sub = "none"
  BY DEF Init, Listening
<1>2. ShapeInv
  BY <1>1 DEF ShapeInv
<1>3. DataInv
  BY <1>1, NoFrames DEF DataInv, LastIn, Ahead, Held, Behind
<1> QED
  BY <1>2, <1>3, TypesInit DEF FeedInv

LEMMA FeedStep == FeedInv /\ [Next]_vars => FeedInv'
<1> SUFFICES ASSUME FeedInv, [Next]_vars PROVE FeedInv'
  OBVIOUS
<1>1. TypeInv /\ TypeInv'
  BY TypesStep DEF FeedInv
<1>2. ASSUME ~overtaken' PROVE ShapeInv' /\ DataInv'
  <2>1. ShapeInv /\ DataInv
    BY <1>2, OvertakenStays DEF FeedInv
  <2> QED
    BY <1>1, <1>2, <2>1, ShapeStep, DataStep
<1> QED
  BY <1>1, <1>2, Zenon DEF FeedInv

\* An idle subscription has missed nothing: with the replay acknowledged and
\* nothing on its way, every signal of the agent was heard or had expired,
\* whatever pages, pushes, reconnects and restarts came between (ws.ts
\* handleBrowserSubscribe, drainBuffered; transport.ts handleSubscribed), until
\* a read of the server holds the answer and frames after it.
THEOREM SubscriptionCatchesUp == Spec => []CaughtUp
<1>2. FeedInv => CaughtUp
  <2> SUFFICES ASSUME TypeInv, ShapeInv, DataInv, Listening, sub = "live", down = <<>>,
                      NEW i \in 1..Len(rows), rows[i].from = "agent", ~(i <= expired)
               PROVE  \E k \in 1..Len(heard) : heard[k] = i
    BY DEF CaughtUp, FeedInv
  <2>1. cursor \in 0..Len(rows) /\ Len(rows) \in Nat
    BY DataTypes
  <2>2. Covers(rows, expired, {}, cursor, Len(rows) + 1)
    BY NoFrames DEF DataInv, Complete
  <2>3. ~(i \in (cursor + 1)..((Len(rows) + 1) - 1))
    BY <2>2 DEF Covers
  <2>4. i \in 1..cursor
    BY <2>1, <2>3
  <2> QED
    BY <2>4 DEF DataInv, Behind
<1> QED
  BY <1>2, FeedInit, FeedStep, PTL DEF Spec

-----------------------------------------------------------------------------
(* The refinement.                                                         *)

\* What a step does to what the feed is made of.
LEMMA FeedLog ==
  ASSUME TypeInv, ShapeInv, [Next]_vars, ~overtaken'
  PROVE  \/ UNCHANGED <<rows, expired, heard>>
         \/ \E who \in {"browser", "agent"}, x \in Nat :
              rows' = Append(rows, Row(who, x)) /\ UNCHANGED <<expired, heard>>
         \/ Expire
         \/ Receive /\ Head(down).type = "signal"
<1> DEFINE Same == UNCHANGED <<rows, expired, heard>>
           Recorded1 == \E who \in {"browser", "agent"}, x \in Nat :
                          rows' = Append(rows, Row(who, x)) /\ UNCHANGED <<expired, heard>>
           Goal == Same \/ Recorded1 \/ Expire \/ (Receive /\ Head(down).type = "signal")
<1> SUFFICES Goal
  OBVIOUS
<1>1. \A k \in 1..MaxSent : k \in Nat
  BY Constants
<1>2. \A k \in 1..MaxAgent : k \in Nat
  BY Constants
<1>3. \A k \in posts : k \in Nat
  BY Constants DEF TypeInv, RestTypes
<1>4. ASSUME NEW s \in Sockets, ReadBrowser(s) PROVE Goal
  <2>1. UNCHANGED <<expired, heard>>
    BY <1>4, BrowserReads
  <2>2. UNCHANGED rows \/ \E x \in 1..MaxSent : rows' = Append(rows, Row("browser", x))
    BY <1>4, BrowserReads
  <2> QED
    BY <1>1, <2>1, <2>2
<1>5. CASE ReadAgent
  <2>1. UNCHANGED <<expired, heard>>
    BY <1>5 DEF ReadAgent, history
  <2>2. UNCHANGED rows \/ \E x \in 1..MaxAgent : rows' = Append(rows, Row("agent", x))
    BY <1>5, AgentPush
  <2> QED
    BY <1>2, <2>1, <2>2
<1>6. ASSUME NEW k \in posts, PostArrives(k) PROVE Goal
  <2>1. UNCHANGED <<expired, heard>>
    BY <1>6 DEF PostArrives, RecordBrowser, database, history
  <2>2. UNCHANGED rows \/ rows' = Append(rows, Row("browser", k))
    BY <1>6 DEF PostArrives, RecordBrowser, database
  <2> QED
    BY <1>3, <2>1, <2>2
<1>7. CASE Receive
  <2>1. UNCHANGED <<rows, expired>> /\ (Head(down).type # "signal" => UNCHANGED heard)
    BY <1>7 DEF Receive, database
  <2> QED
    BY <1>7, <2>1
<1>8. CASE \E s \in Sockets : DropSocket(s)
  BY <1>8 DEF DropSocket, database, history
<1>9. CASE AgentClosed \/ DeleteSession \/ Cleanup \/ Restart
  BY <1>9 DEF AgentClosed, DeleteSession, Cleanup, Restart, database, history
<1>10. CASE AgentStep
  BY <1>10 DEF AgentStep, AgentDrops, AgentConnects, AgentSends, database, history
<1>11. CASE MintSucceeds \/ MintFails \/ MintRefused \/ SocketOpens \/ Disconnect
  BY <1>11 DEF MintSucceeds, MintFails, MintRefused, SocketOpens, Disconnect, database, history
<1>12. CASE TimerFires \/ Send \/ Close
  BY <1>12 DEF TimerFires, Send, Close, database, history
<1>13. CASE (\E k \in posts : PostLost(k)) \/ Poll \/ PollServed \/ PollReturns \/ PollFails
  BY <1>13 DEF PostLost, Poll, PollServed, PollReturns, PollFails, database, history
<1>14. CASE UNCHANGED vars
  BY <1>14 DEF vars, database, history
<1>15. CASE Expire
  BY <1>15
<1> HIDE DEF Goal
<1> QED
  BY <1>4, <1>5, <1>6, <1>7, <1>8, <1>9, <1>10, <1>11, <1>12, <1>13, <1>14, <1>15
  DEF Next, ServerStep, SocketStep, RestStep

\* The recorder of each row, and a row more.
LEMMA LogGrows ==
  ASSUME NEW q \in Seq(Rows), NEW r \in Rows
  PROVE  LET Of(s) == [i \in 1..Len(s) |-> s[i].from]
         IN  Of(Append(q, r)) = Append(Of(q), r.from)
<1> DEFINE Of(s) == [i \in 1..Len(s) |-> s[i].from]
           p == Append(q, r)
<1>1. /\ Len(q) \in Nat /\ Len(p) = Len(q) + 1 /\ p[Len(q) + 1] = r
      /\ \A i \in 1..Len(q) : p[i] = q[i]
  BY AppendProperties, LenProperties
<1>2. Of(q) \in Seq({"browser", "agent"}) /\ Len(Of(q)) = Len(q)
  <2>1. \A i \in 1..Len(q) : q[i] \in Rows
    BY ElementOfSeq
  <2>2. \A i \in 1..Len(q) : q[i].from \in {"browser", "agent"}
    BY <2>1 DEF Rows
  <2> QED
    BY <1>1, <2>2, Listed
<1>3. Of(p) \in Seq({"browser", "agent"}) /\ Len(Of(p)) = Len(p)
  <2>1. \A i \in 1..Len(p) : p[i] \in Rows
    BY ElementOfSeq, AppendProperties
  <2>2. \A i \in 1..Len(p) : p[i].from \in {"browser", "agent"}
    BY <2>1 DEF Rows
  <2> QED
    BY <1>1, <2>2, Listed
<1>4. r.from \in {"browser", "agent"}
  BY DEF Rows
<1> DEFINE a == Append(Of(q), r.from)
<1>5. /\ a \in Seq({"browser", "agent"}) /\ Len(a) = Len(q) + 1 /\ a[Len(q) + 1] = r.from
      /\ \A i \in 1..Len(q) : a[i] = q[i].from
  BY <1>1, <1>2, <1>4, AppendProperties
<1>6. \A i \in 1..Len(p) : Of(p)[i] = a[i]
  BY <1>1, <1>5
<1> QED
  BY <1>1, <1>3, <1>5, <1>6, SeqEqual

\* While no push has overtaken the answer's, a step of the relay or of the
\* transport is a step of the feed.
LEMMA FeedMoves ==
  ASSUME TypeInv, ShapeInv, DataInv, [Next]_vars, ~overtaken, ~overtaken'
  PROVE  Feed!Next \/ UNCHANGED Feed!feedVars
<1> DEFINE log == [i \in 1..Len(rows) |-> rows[i].from]
           Log == IF overtaken THEN <<>> ELSE log
           Gone == IF overtaken THEN 0 ELSE expired
           Got == IF overtaken THEN <<>> ELSE heard
           Intact == ~overtaken
           Goal == Feed!Next \/ UNCHANGED Feed!feedVars
<1> SUFFICES Goal
  OBVIOUS
<1>1. /\ Log = log /\ Log' = log' /\ Gone = expired /\ Gone' = expired'
      /\ Got = heard /\ Got' = heard'
  OBVIOUS
<1>2. Intact /\ UNCHANGED Intact
  BY Zenon
<1>3. /\ rows \in Seq(Rows) /\ Len(rows) \in Nat /\ expired \in 0..Len(rows)
      /\ cursor = LastIn(heard)
  BY DataTypes DEF DataInv
<1>4. Len(log) = Len(rows) /\ \A i \in 1..Len(rows) : log[i] = rows[i].from
  <2>1. \A i \in 1..Len(rows) : rows[i] \in Rows
    BY <1>3, ElementOfSeq
  <2>2. \A i \in 1..Len(rows) : rows[i].from \in {"browser", "agent"}
    BY <2>1 DEF Rows
  <2> QED
    BY <1>3, <2>2, Listed
<1>5. UNCHANGED rows => UNCHANGED log
  OBVIOUS
<1>6. CASE UNCHANGED <<rows, expired, heard>>
  <2>1. UNCHANGED <<Log, Gone, Got, Intact>>
    <3>1. UNCHANGED <<Log, Gone, Got>>
      BY <1>1, <1>5, <1>6, Zenon
    <3> QED
      BY <1>2, <3>1, Zenon
  <2> QED
    BY <2>1, Zenon DEF Feed!feedVars
<1>7. CASE \E who \in {"browser", "agent"}, x \in Nat :
             rows' = Append(rows, Row(who, x)) /\ UNCHANGED <<expired, heard>>
  <2>1. PICK who \in {"browser", "agent"}, x \in Nat :
               rows' = Append(rows, Row(who, x)) /\ UNCHANGED <<expired, heard>>
    BY <1>7
  <2>2. Row(who, x) \in Rows /\ Row(who, x).from = who
    BY DEF Row, Rows
  <2>3. log' = Append(log, who)
    BY <1>3, <2>1, <2>2, LogGrows
  <2> HIDE DEF log
  <2>4. Log' = Append(Log, who) /\ UNCHANGED <<Gone, Got>>
    BY <1>1, <2>1, <2>3
  <2>5. Feed!Record
    BY <1>2, <2>4, Zenon DEF Feed!Record, log
  <2> QED
    BY <1>2, <2>5, Zenon DEF Feed!Next
<1>8. CASE Expire
  <2>1. UNCHANGED <<rows, heard>> /\ expired' = expired + 1 /\ expired < Len(rows)
    BY <1>8 DEF Expire, history
  <2>2. expired' \in (expired + 1)..Len(log)
    BY <1>3, <1>4, <2>1
  <2>3. UNCHANGED <<Log, Got>> /\ Gone' \in (Gone + 1)..Len(Log)
    BY <1>1, <1>5, <2>1, <2>2, Zenon
  <2>4. Feed!Expire
    BY <1>2, <2>3, Zenon DEF Feed!Expire
  <2> QED
    BY <1>2, <2>4, Zenon DEF Feed!Next
<1>9. CASE Receive /\ Head(down).type = "signal"
  <2> DEFINE i == Head(down).id
  <2>1. i \in (cursor + 1)..Len(rows) /\ Covers(rows, expired, {}, cursor, i)
    BY <1>9, DataHeard
  <2>2. UNCHANGED <<rows, expired>> /\ heard' = Append(heard, i)
    BY <1>9 DEF Receive, database
  <2>3. Feed!LastGot = cursor
    BY <1>1, <1>3 DEF Feed!LastGot, LastIn
  <2> HIDE DEF i
  <2>4. \A j \in (cursor + 1)..(i - 1) : log[j] = "agent" => j <= expired
    <3> SUFFICES ASSUME NEW j \in (cursor + 1)..(i - 1), log[j] = "agent" PROVE j <= expired
      OBVIOUS
    <3>1. cursor \in Nat /\ j \in 1..Len(rows)
      BY <1>3, <2>1, DataTypes
    <3> QED
      BY <1>4, <2>1, <3>1 DEF Covers
  <2> HIDE DEF log, Log, Gone, Got, Intact
  <2>5. /\ i \in (Feed!LastGot + 1)..Len(Log)
        /\ \A j \in (Feed!LastGot + 1)..(i - 1) : Log[j] = "agent" => j <= Gone
    BY <1>1, <1>4, <2>1, <2>3, <2>4
  <2>6. UNCHANGED <<Log, Gone>> /\ Got' = Append(Got, i)
    BY <1>1, <1>5, <2>2, Zenon
  <2>7. Feed!Hear
    BY <1>2, <2>5, <2>6, Zenon DEF Feed!Hear, log, Log, Gone, Got, Intact
  <2> QED
    BY <1>2, <2>7, Zenon DEF Feed!Next, Intact
<1> HIDE DEF Goal
<1> QED
  BY <1>6, <1>7, <1>8, <1>9, FeedLog

\* The recorded signals, what expired and what the tab hears are a feed: every
\* step of the relay and of the transport is a step of SignalFeed or moves
\* none of them (ws.ts handleBrowserSubscribe, drainBuffered, pushToBrowser;
\* transport.ts handleFrame, handleSubscribed; transport.ts 344-347), until a
\* read of the server holds the answer and frames after it.
THEOREM FeedImplemented == Spec => ImplementsFeed
<1>1. Init => Feed!Init
  <2> SUFFICES ASSUME Init PROVE Feed!Init
    OBVIOUS
  <2> DEFINE log == [i \in 1..Len(rows) |-> rows[i].from]
             Log == IF overtaken THEN <<>> ELSE log
             Gone == IF overtaken THEN 0 ELSE expired
             Got == IF overtaken THEN <<>> ELSE heard
  <2>1. rows = <<>> /\ expired = 0 /\ heard = <<>>
    BY DEF Init
  <2>2. log = <<>>
    <3>1. log \in Seq({"browser", "agent"}) /\ Len(log) = 0
      BY <2>1, Listed
    <3> QED
      BY <3>1, EmptySeq
  <2>3. ~overtaken = TRUE
    BY Zenon DEF Init
  <2>4. Log = <<>> /\ Gone = 0 /\ Got = <<>>
    BY <2>1, <2>2
  <2> QED
    BY <2>3, <2>4, Zenon DEF Feed!Init
<1>2. FeedInv /\ [Next]_vars => [Feed!Next]_(Feed!feedVars)
  <2> SUFFICES ASSUME FeedInv, [Next]_vars PROVE Feed!Next \/ UNCHANGED Feed!feedVars
    OBVIOUS
  <2> DEFINE Log == IF overtaken THEN <<>> ELSE [i \in 1..Len(rows) |-> rows[i].from]
             Gone == IF overtaken THEN 0 ELSE expired
             Got == IF overtaken THEN <<>> ELSE heard
  <2>1. CASE overtaken
    <3>1. overtaken'
      BY <2>1, OvertakenStays
    <3>2. (~overtaken)' = ~overtaken
      BY <2>1, <3>1, Zenon
    <3>3. UNCHANGED <<Log, Gone, Got>>
      BY <2>1, <3>1
    <3> QED
      BY <3>2, <3>3, Zenon DEF Feed!feedVars
  <2>2. CASE ~overtaken /\ overtaken'
    <3>1. ~overtaken /\ (~overtaken)' = FALSE
      BY <2>2, Zenon
    <3>2. Log' = <<>> /\ Gone' = 0 /\ Got' = <<>>
      BY <2>2
    <3>3. Feed!Void
      BY <3>1, <3>2, Zenon DEF Feed!Void
    <3> QED
      BY <3>1, <3>3, Zenon DEF Feed!Next
  <2>3. CASE ~overtaken /\ ~overtaken'
    BY <2>3, FeedMoves DEF FeedInv
  <2> QED
    BY <2>1, <2>2, <2>3, Zenon
<1> QED
  BY <1>1, <1>2, FeedInit, FeedStep, PTL DEF Spec, ImplementsFeed, Feed!Spec

===============================================================================
