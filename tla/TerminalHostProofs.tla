-------------------------- MODULE TerminalHostProofs --------------------------
(***************************************************************************)
(* The multiplexer implements TerminalHost, for every number of terminals  *)
(* and shells, every cap, every channel capacity and every number of       *)
(* worker threads.                                                         *)
(***************************************************************************)
EXTENDS PtyManagerProofs

-----------------------------------------------------------------------------
(* Only terminals the browser has asked for are spoken of.                 *)

Asked ==
  /\ \A i \in 1..Len(inbox) : client[inbox[i].term] # "new"
  /\ disp.at \in Busy => client[disp.term] # "new"

\* No terminal becomes new again, and what is queued for the dispatcher is
\* about terminals that are not.
LEMMA QueueAsked ==
  ASSUME TypeOK, Asked, [Next]_vars
  PROVE  /\ \A t \in Terms : client[t] # "new" => client'[t] # "new"
         /\ \A i \in 1..Len(inbox') : client'[inbox'[i].term] # "new"
<1> DEFINE Newer == \A t \in Terms : client[t] # "new" => client'[t] # "new"
           Goal == Newer /\ \A i \in 1..Len(inbox') : client'[inbox'[i].term] # "new"
<1> SUFFICES Goal
  OBVIOUS
<1>1. /\ Len(inbox) \in Nat /\ DOMAIN client = Terms
      /\ \A i \in 1..Len(inbox) : inbox[i].term \in Terms
  BY QueueLooks DEF TypeOK
<1>a. ASSUME inbox' = inbox, Newer PROVE Goal
  BY <1>1, <1>a DEF Asked
<1>b. ASSUME NEW t \in Terms, NEW k \in {"create", "data", "close"},
             inbox' = Append(inbox, Frame(k, t)), client'[t] # "new", Newer
      PROVE  Goal
  <2>1. /\ Len(inbox') = Len(inbox) + 1 /\ inbox'[Len(inbox) + 1].term = t
        /\ \A i \in 1..Len(inbox) : inbox'[i] = inbox[i]
    BY <1>b, QueueLooks
  <2> QED
    BY <1>1, <1>b, <2>1 DEF Asked
<1>2. ASSUME NEW t \in Terms, CreateSession(t) \/ CloseTab(t) PROVE Goal
  <2>1. /\ \E k \in {"create", "data", "close"} : inbox' = Append(inbox, Frame(k, t))
        /\ \E v \in {"open", "closed"} : client' = [client EXCEPT ![t] = v]
    BY <1>2 DEF CreateSession, CloseTab, Send
  <2>2. client'[t] # "new" /\ Newer
    BY <1>1, <2>1
  <2> QED
    BY <1>b, <2>1, <2>2
<1>3. ASSUME NEW t \in Terms, ResendCreate(t) \/ Write(t) PROVE Goal
  <2>1. /\ \E k \in {"create", "data", "close"} : inbox' = Append(inbox, Frame(k, t))
        /\ client' = client /\ client[t] # "new"
    BY <1>3 DEF ResendCreate, Write, Send
  <2> QED
    BY <1>b, <2>1
<1>4. CASE ClientReceive
  BY <1>4, <1>a DEF ClientReceive
<1>5. CASE ChannelCloses
  BY <1>5, <1>a DEF ChannelCloses, clientVars
<1>6. CASE Dispatch
  <2>1. /\ client' = client /\ Len(inbox') = Len(inbox) - 1
        /\ \A i \in 1..Len(inbox') : inbox'[i] = inbox[i + 1]
    BY <1>6, DispatchDoes, QueueLooks
  <2>2. \A i \in 1..Len(inbox') : i + 1 \in 1..Len(inbox)
    BY <1>1, <2>1
  <2> QED
    BY <2>1, <2>2 DEF Asked
<1>7. CASE DispatcherStep /\ ~Dispatch
  BY <1>7, <1>a DEF DispatcherStep, SpawnAtCap, SpawnFails, SpawnPresent, SpawnForks, Fork,
                    SpawnInserts, Resend, SendDone, SendFails, CloseReaps, DispatcherEnds, clientVars
<1>8. CASE \E p \in Pids : ShellStep(p)
  BY <1>8, <1>a DEF ShellStep, ShellDetaches, ShellExits, WriterWrites, WriterEnds, PumpRemoves, PumpReaps, clientVars
<1>9. CASE WireCloses \/ EndSession \/ EndAbruptly
  BY <1>9, <1>a DEF WireCloses, EndSession, EndAbruptly, clientVars
<1>10. CASE Return
  <2>1. PICK n \in 0..Len(inbox) : inbox' = SubSeq(inbox, 1, n)
    BY <1>10 DEF Return
  <2>2. Len(inbox') = n /\ \A i \in 1..n : inbox'[i] = inbox[i]
    BY <1>1, <2>1, SubSeqProperties DEF TypeOK
  <2>3. client' = client
    BY <1>10 DEF Return, clientVars
  <2> QED
    BY <1>1, <2>2, <2>3 DEF Asked
<1>11. CASE UNCHANGED vars
  BY <1>11, <1>a DEF vars, clientVars
<1> HIDE DEF Goal
<1> QED
  BY <1>2, <1>3, <1>4, <1>5, <1>6, <1>7, <1>8, <1>9, <1>10, <1>11 DEF Next, ClientStep, SessionStep

LEMMA AskedStep ==
  ASSUME TypeOK, Asked, [Next]_vars
  PROVE  Asked'
<1>1. /\ \A t \in Terms : client[t] # "new" => client'[t] # "new"
      /\ \A i \in 1..Len(inbox') : client'[inbox'[i].term] # "new"
  BY QueueAsked
<1>2. disp.at \in Busy => disp.term \in Terms /\ client[disp.term] # "new"
  BY DEF TypeOK, Busy, Asked
<1>3. disp'.at \in Busy =>
        \/ disp.at \in Busy /\ disp'.term = disp.term
        \/ disp'.term \in Terms /\ client[disp'.term] # "new"
  <2>1. CASE UNCHANGED core \/ HandsFree
    BY <2>1 DEF core, HandsFree
  <2>2. CASE Dispatch
    <3>1. Head(inbox) = inbox[1] /\ Len(inbox) \in Nat /\ Len(inbox) > 0 /\ Head(inbox).term \in Terms
      BY <2>2, DispatchDoes, QueueLooks
    <3>2. client[Head(inbox).term] # "new"
      BY <3>1 DEF Asked
    <3>3. disp'.at \in Busy => disp'.term = Head(inbox).term
      BY <2>2, DispatchDoes DEF Busy
    <3> QED
      BY <3>1, <3>2, <3>3
  <2>3. CASE \E p \in Pids : SpawnForks(p)
    BY <2>3, ForkDoes DEF Busy
  <2>4. CASE SpawnInserts
    BY <2>4, InsertDoes DEF Busy
  <2>5. CASE CloseReaps
    BY <2>5, CloseReapsDoes DEF Busy
  <2>6. CASE EndSession
    BY <2>6, EndSessionDoes
  <2>7. CASE \E p \in Pids : Leaves(p) \/ PumpRemoves(p) \/ PumpReaps(p)
    BY <2>7 DEF Leaves, ShellDetaches, ShellExits, PumpRemoves, PumpReaps
  <2> QED
    BY <2>1, <2>2, <2>3, <2>4, <2>5, <2>6, <2>7, CoreSteps
<1> QED
  BY <1>1, <1>2, <1>3 DEF Asked

-----------------------------------------------------------------------------
(* What the browser can tell of a terminal, without the queue.             *)

HostInv == IInv /\ RefusalInv /\ Asked

Standing(t) ==
  IF \E p \in Pids : termOf[p] = t THEN "started"
  ELSE IF t \in refused THEN "refused"
  ELSE IF client[t] # "new" THEN "asked"
  ELSE "unused"

FateInv == Served => \A t \in Terms : Fate(t) = Standing(t)

\* A terminal that is not decided is being asked for exactly when the browser
\* has created it: no fate is lost, and none is asked for by nobody.
LEMMA FateFollows == HostInv => FateInv
<1> SUFFICES ASSUME HostInv, Served, NEW t \in Terms PROVE Fate(t) = Standing(t)
  BY DEF FateInv
<1> DEFINE creating == disp.at = "spawn" /\ disp.kind = "create" /\ disp.term = t
           queued == \E i \in 1..Len(inbox) : inbox[i] = Frame("create", t)
<1>1. CASE (\E p \in Pids : termOf[p] = t) \/ t \in refused
  BY <1>1 DEF Fate, Standing
<1>2. CASE ~((\E p \in Pids : termOf[p] = t) \/ t \in refused)
  <2>1. creating \/ queued => client[t] # "new"
    BY DEF HostInv, Asked, Busy, Frame
  <2>2. client[t] # "new" => creating \/ queued
    <3> SUFFICES ASSUME client[t] # "new", ~creating PROVE queued
      OBVIOUS
    <3>1. PICK i \in 1..Len(inbox) : inbox[i].kind = "create" /\ inbox[i].term = t
      BY <1>2 DEF HostInv, RefusalInv, Answering, Decided, Creating, Queued, Served
    <3>2. inbox[i] \in InFrame
      BY ElementOfSeq DEF HostInv, IInv, TypeOK
    <3> QED
      BY <3>1, <3>2 DEF InFrame, Frame
  <2> QED
    BY <1>2, <2>1, <2>2 DEF Fate, Standing
<1> QED
  BY <1>1, <1>2

-----------------------------------------------------------------------------
(* The steps the abstract host sees.                                       *)

\* Nothing a terminal's fate or its live shell depends on changes.
Still == Running' = Running /\ UNCHANGED <<termOf, refused>>

Quiet == Still /\ \A t \in Terms : client'[t] = "new" <=> client[t] = "new"

Asks(t) ==
  /\ Still
  /\ client[t] = "new" /\ client'[t] # "new"
  /\ \A s \in Terms \ {t} : client'[s] = client[s]

Refuses ==
  /\ disp.at = "spawn"
  /\ Running' = Running
  /\ UNCHANGED <<termOf, client>>
  /\ refused' = refused \cup {disp.term}

LEMMA HostSteps ==
  ASSUME TypeOK, [Next]_vars
  PROVE  \/ Quiet
         \/ \E t \in Terms : Asks(t)
         \/ Refuses
         \/ \E p \in Pids : SpawnForks(p)
         \/ \E p \in Running : Leaves(p)
<1>1. DOMAIN client = Terms
  BY DEF TypeOK
<1>a. ASSUME UNCHANGED <<client, shell, termOf, refused>> PROVE Quiet
  BY <1>a DEF Quiet, Still, Running
<1>2. ASSUME NEW t \in Terms, CreateSession(t) PROVE Asks(t)
  BY <1>1, <1>2 DEF CreateSession, Asks, Still, Running, shellVars
<1>3. ASSUME NEW t \in Terms, ResendCreate(t) \/ Write(t) PROVE Quiet
  BY <1>3, <1>a DEF ResendCreate, Write, shellVars
<1>4. ASSUME NEW t \in Terms, CloseTab(t) PROVE Quiet
  BY <1>1, <1>4 DEF CloseTab, Quiet, Still, Running, shellVars
<1>5. CASE ClientReceive
  <2>1. /\ UNCHANGED <<shell, termOf, refused>>
        /\ \A t \in Terms : client'[t] = client[t] \/ (client'[t] = "exited" /\ client[t] = "open")
    BY <1>5 DEF ClientReceive, shellVars
  <2> QED
    BY <2>1 DEF Quiet, Still, Running
<1>6. CASE ChannelCloses
  BY <1>6, <1>a DEF ChannelCloses, clientVars, shellVars
<1>7. CASE SpawnAtCap \/ SpawnFails
  <2>1. disp.at = "spawn" /\ UNCHANGED <<client, shell, termOf>> /\ SpawnRefused
    BY <1>7 DEF SpawnAtCap, SpawnFails, clientVars, shellVars
  <2>2. refused' = refused \cup {disp.term} \/ refused' = refused
    BY <2>1 DEF SpawnRefused
  <2>3. Running' = Running
    BY <2>1 DEF Running
  <2> QED
    BY <1>a, <2>1, <2>2, <2>3 DEF Refuses
<1>8. CASE Dispatch \/ SpawnPresent \/ SpawnInserts \/ Resend \/ SendDone \/ SendFails \/ DispatcherEnds
  BY <1>8, <1>a DEF Dispatch, SpawnPresent, SpawnInserts, Resend, SendDone, SendFails, DispatcherEnds,
                    clientVars, shellVars
<1>b. ASSUME NEW q \in Pids, shell[q] = "exited",
             \A o \in Pids : shell'[o] = IF o = q THEN "reaped" ELSE shell[o]
      PROVE  Running' = Running
  BY <1>b DEF Running
<1>9. CASE CloseReaps
  <2>1. Running' = Running /\ UNCHANGED <<client, termOf>>
    BY <1>9, <1>b, CloseReapsDoes
  <2>2. UNCHANGED refused
    BY <1>9 DEF CloseReaps
  <2> QED
    BY <2>1, <2>2 DEF Quiet, Still
<1>10. ASSUME NEW p \in Pids, PumpReaps(p) PROVE Quiet
  <2>1. Running' = Running /\ UNCHANGED <<client, termOf>>
    BY <1>10, <1>b, PumpReapsDoes
  <2>2. UNCHANGED refused
    BY <1>10 DEF PumpReaps
  <2> QED
    BY <2>1, <2>2 DEF Quiet, Still
<1>11. ASSUME NEW p \in Pids, WriterWrites(p) \/ WriterEnds(p) \/ PumpRemoves(p) PROVE Quiet
  BY <1>11, <1>a DEF WriterWrites, WriterEnds, PumpRemoves, clientVars, shellVars
<1>12. CASE SessionStep
  BY <1>12, <1>a DEF SessionStep, WireCloses, EndSession, Return, EndAbruptly, clientVars, shellVars
<1>14. ASSUME NEW p \in Pids, Leaves(p) PROVE Quiet \/ p \in Running
  <2>1. /\ shell'[p] # "running" /\ \A o \in Pids \ {p} : shell'[o] = shell[o]
        /\ UNCHANGED <<client, termOf>>
    BY <1>14, LeavesDoes
  <2>2. UNCHANGED refused
    BY <1>14 DEF Leaves, ShellDetaches, ShellExits
  <2>3. shell[p] # "running" => Running' = Running
    BY <2>1 DEF Running
  <2> QED
    BY <2>1, <2>2, <2>3 DEF Quiet, Still, Running
<1>13. CASE UNCHANGED vars
  BY <1>13, <1>a DEF vars, clientVars, shellVars
<1> QED
  BY <1>2, <1>3, <1>4, <1>5, <1>6, <1>7, <1>8, <1>9, <1>10, <1>11, <1>12, <1>13, <1>14
  DEF Next, ClientStep, DispatcherStep, ShellStep, Leaves

-----------------------------------------------------------------------------
(* The mapping, and what each abstract step is in terms of it.             *)

MFate == [t \in Terms |-> IF Served THEN Fate(t) ELSE "over"]
Shells(t) == {p \in Running : termOf[p] = t}
MLive == [t \in Terms |-> IF Served THEN Shells(t) ELSE {}]

\* Served steps as the browser sees them, in terms of the standing of each
\* terminal rather than of the mapped functions.
LEMMA MapKeeps ==
  ASSUME Served, Served', FateInv, FateInv',
         \A t \in Terms : Standing(t)' = Standing(t), \A t \in Terms : Shells(t)' = Shells(t)
  PROVE  UNCHANGED <<MFate, MLive>>
<1>1. \A t \in Terms : Fate(t)' = Fate(t)
  BY DEF FateInv
<1> QED
  BY <1>1 DEF MFate, MLive

LEMMA MapFate ==
  ASSUME Served, Served', FateInv, FateInv', NEW t \in Terms, NEW v,
         Standing(t)' = v, \A s \in Terms \ {t} : Standing(s)' = Standing(s)
  PROVE  MFate[t] = Standing(t) /\ MFate' = [MFate EXCEPT ![t] = v]
<1>1. \A s \in Terms : MFate[s] = Standing(s)
  BY DEF FateInv, MFate
<1>2. MFate' = [s \in Terms |-> Standing(s)']
  BY DEF FateInv, MFate
<1>3. DOMAIN MFate = Terms
  BY DEF MFate
<1>4. MFate' = [s \in Terms |-> IF s = t THEN v ELSE MFate[s]]
  BY <1>1, <1>2
<1> QED
  BY <1>1, <1>3, <1>4

LEMMA MapLive ==
  ASSUME Served, Served', NEW t \in Terms, NEW v,
         Shells(t)' = v, \A s \in Terms \ {t} : Shells(s)' = Shells(s)
  PROVE  MLive[t] = Shells(t) /\ MLive' = [MLive EXCEPT ![t] = v]
<1>1. \A s \in Terms : MLive[s] = Shells(s)
  BY DEF MLive
<1>2. MLive' = [s \in Terms |-> Shells(s)']
  BY DEF MLive
<1>3. DOMAIN MLive = Terms
  BY DEF MLive
<1>4. MLive' = [s \in Terms |-> IF s = t THEN v ELSE MLive[s]]
  BY <1>1, <1>2
<1> QED
  BY <1>1, <1>3, <1>4

HostStep == Host!Next \/ UNCHANGED Host!hostVars

\* The abstract variables are the mapped ones.
LEMMA Stutters ==
  ASSUME UNCHANGED <<MFate, MLive, Served>>
  PROVE  HostStep
  BY DEF HostStep, Host!hostVars, MFate, MLive, Shells

LEMMA HostAsks ==
  ASSUME NEW t \in Terms, MFate[t] = "unused", MFate' = [MFate EXCEPT ![t] = "asked"],
         UNCHANGED <<MLive, Served>>
  PROVE  HostStep
  BY DEF HostStep, Host!Next, Host!Ask, MFate, MLive, Shells

LEMMA HostRefuses ==
  ASSUME NEW t \in Terms, MFate[t] = "asked", MFate' = [MFate EXCEPT ![t] = "refused"],
         UNCHANGED <<MLive, Served>>
  PROVE  HostStep
  BY DEF HostStep, Host!Next, Host!Refuse, MFate, MLive, Shells

LEMMA HostStarts ==
  ASSUME NEW t \in Terms, NEW p \in Pids, MFate[t] \in {"asked", "refused", "started"},
         MLive[t] = {}, Cardinality({s \in Terms : MLive[s] # {}}) < MaxSessions,
         MFate' = [MFate EXCEPT ![t] = "started"], MLive' = [MLive EXCEPT ![t] = {p}],
         UNCHANGED Served
  PROVE  HostStep
  BY DEF HostStep, Host!Next, Host!Start, Host!Occupied, Host!Cardinality, Cardinality, MFate, MLive, Shells

LEMMA HostEnds ==
  ASSUME NEW t \in Terms, MLive[t] # {}, MLive' = [MLive EXCEPT ![t] = {}], UNCHANGED <<MFate, Served>>
  PROVE  HostStep
  BY DEF HostStep, Host!Next, Host!End, MFate, MLive, Shells

LEMMA HostIsOver ==
  ASSUME Served, ~Served'
  PROVE  HostStep
<1>1. /\ MFate' = [t \in Terms |-> "over"]
      /\ MLive' = [t \in Terms |-> {}]
  BY DEF MFate, MLive
<1> QED
  BY <1>1 DEF HostStep, Host!Next, Host!Over, MFate, MLive, Shells

-----------------------------------------------------------------------------
(* Every step of the multiplexer is a step of the host or none.            *)

\* A fork starts a shell for a terminal that has none, below the cap.
LEMMA ForkStarts ==
  ASSUME HostInv, FateInv, FateInv', Served, Served', NEW p \in Pids, SpawnForks(p)
  PROVE  HostStep
<1>0. PICK t \in Terms : t = disp.term
  BY ForkDoes DEF HostInv, IInv
<1>1. /\ disp.at = "spawn" /\ t = disp.term /\ sessions[t] = None
      /\ Cardinality(Slots) < MaxSessions
      /\ shell[p] = "none"
      /\ \A o \in Pids : shell'[o] = IF o = p THEN "running" ELSE shell[o]
      /\ \A o \in Pids : termOf'[o] = IF o = p THEN t ELSE termOf[o]
      /\ UNCHANGED client
  BY <1>0, ForkDoes DEF HostInv, IInv
<1>2. UNCHANGED refused
  BY DEF SpawnForks, Fork
<1>3. termOf[p] = None /\ None \notin Terms /\ None \notin Pids
  BY <1>1, PtyAssumption DEF HostInv, RefusalInv, Named
<1>4. \A s \in Terms : Shells(s) # {} => s \in Slots
  <2> SUFFICES ASSUME NEW s \in Terms, NEW q \in Running, termOf[q] = s PROVE s \in Slots
    BY DEF Shells
  <2>1. PICK r \in Terms : sessions[r] = q
    BY <1>1 DEF HostInv, IInv, RunningAccounted, InMap, Served
  <2>2. q # None /\ r = s
    BY <1>3, <2>1 DEF HostInv, IInv, Known, Running
  <2> QED
    BY <2>1, <2>2 DEF Slots
<1>5. Shells(t) = {}
  BY <1>1, <1>4 DEF Slots
<1>6. \A s \in Terms \ {t} : Shells(s)' = Shells(s)
  BY <1>1, <1>3 DEF Shells, Running
<1>7. Shells(t)' = {p}
  <2>1. \A o \in Pids : o # p => ~(shell'[o] = "running" /\ termOf'[o] = t)
    BY <1>1, <1>5 DEF Shells, Running
  <2> QED
    BY <1>1, <2>1 DEF Shells, Running
<1>8. Standing(t)' = "started" /\ \A s \in Terms \ {t} : Standing(s)' = Standing(s)
  BY <1>1, <1>2, <1>3 DEF Standing
<1>9. Standing(t) \in {"asked", "refused", "started"}
  BY <1>1 DEF Standing, HostInv, Asked, Busy
<1>10. Cardinality({s \in Terms : MLive[s] # {}}) < MaxSessions
  <2> DEFINE O == {s \in Terms : MLive[s] # {}}
  <2>1. O \subseteq Slots
    BY <1>4 DEF MLive
  <2>2. IsFiniteSet(Slots) /\ MaxSessions \in Nat
    BY PtyAssumption, FS_Subset DEF Slots
  <2> HIDE DEF O
  <2>3. Cardinality(O) <= Cardinality(Slots) /\ Cardinality(O) \in Nat /\ Cardinality(Slots) \in Nat
    BY <2>1, <2>2, FS_Subset, FS_CardinalityType
  <2>4. Cardinality(O) < MaxSessions
    BY <1>1, <2>2, <2>3
  <2> QED
    BY <2>4 DEF O
<1>11. MFate[t] = Standing(t) /\ MFate' = [MFate EXCEPT ![t] = "started"]
  BY <1>1, <1>8, MapFate
<1>12. MLive[t] = {} /\ MLive' = [MLive EXCEPT ![t] = {p}]
  BY <1>1, <1>5, <1>6, <1>7, MapLive
<1> QED
  BY <1>1, <1>9, <1>10, <1>11, <1>12, HostStarts

\* A shell that leaves its terminal was the only one on it.
LEMMA ExitEnds ==
  ASSUME HostInv, FateInv, FateInv', Served, Served', NEW p \in Running, Leaves(p)
  PROVE  HostStep
<1>1. /\ p \in Pids /\ shell[p] = "running" /\ shell'[p] # "running"
      /\ \A o \in Pids \ {p} : shell'[o] = shell[o]
      /\ UNCHANGED <<client, termOf>>
  BY LeavesDoes DEF HostInv, IInv, Running
<1>2. UNCHANGED refused
  BY DEF Leaves, ShellDetaches, ShellExits
<1>3. termOf[p] \in Terms
  <2>1. CASE InMap(p)
    <3>1. PICK r \in Terms : sessions[r] = p
      BY <2>1 DEF InMap
    <3> QED
      BY <1>1, <3>1, PtyAssumption DEF HostInv, IInv, Known
  <2>2. CASE disp.at \in {"insert", "closing"} /\ disp.pid = p
    BY <2>2 DEF HostInv, IInv, Known, TypeOK
  <2> QED
    BY <1>1, <2>1, <2>2 DEF HostInv, IInv, RunningAccounted, Served
<1>0. PICK t \in Terms : t = termOf[p]
  BY <1>3
<1>4. \A q \in Running : termOf[q] = t => q = p
  BY <1>0, <1>1, OneShellFollows DEF HostInv, OneShellPerTerminal, Served
<1>5. Shells(t) = {p} /\ Shells(t)' = {}
  BY <1>0, <1>1, <1>4 DEF Shells, Running
<1>6. \A s \in Terms \ {t} : Shells(s)' = Shells(s)
  BY <1>0, <1>1 DEF Shells, Running
<1>7. \A s \in Terms : Standing(s)' = Standing(s)
  BY <1>1, <1>2 DEF Standing
<1>8. UNCHANGED MFate
  BY <1>7 DEF MFate, FateInv
<1>9. MLive[t] = {p} /\ MLive' = [MLive EXCEPT ![t] = {}]
  BY <1>5, <1>6, MapLive
<1> QED
  BY <1>8, <1>9, HostEnds

LEMMA HostStepped ==
  ASSUME HostInv, FateInv, FateInv', [Next]_vars
  PROVE  HostStep
<1>1. TypeOK
  BY DEF HostInv, IInv
<1>2. CASE ~Served
  <2>1. ~Served'
    BY <1>1, <1>2, Monotone DEF Served
  <2>2. UNCHANGED <<MFate, MLive>>
    BY <1>2, <2>1 DEF MFate, MLive
  <2>3. UNCHANGED Served
    BY <1>2, <2>1 DEF Served
  <2> QED
    BY <2>2, <2>3, Stutters
<1>3. CASE Served /\ ~Served'
  BY <1>3, HostIsOver
<1>4. CASE Served /\ Served'
  <2>1. CASE Quiet
    <3>1. \A t \in Terms : Standing(t)' = Standing(t) /\ Shells(t)' = Shells(t)
      BY <2>1 DEF Quiet, Still, Standing, Shells
    <3> QED
      BY <1>4, <3>1, MapKeeps, Stutters
  <2>2. ASSUME NEW t \in Terms, Asks(t) PROVE HostStep
    <3>1. /\ \A s \in Terms : Shells(s)' = Shells(s)
          /\ \A s \in Terms \ {t} : Standing(s)' = Standing(s)
      BY <2>2 DEF Asks, Still, Standing, Shells
    <3>2. UNCHANGED MLive
      BY <1>4, <3>1 DEF MLive
    <3>3. CASE (\E p \in Pids : termOf[p] = t) \/ t \in refused
      <4>1. Standing(t)' = Standing(t)
        BY <2>2, <3>3 DEF Asks, Still, Standing
      <4> QED
        BY <1>4, <3>1, <4>1, MapKeeps, Stutters
    <3>4. CASE ~((\E p \in Pids : termOf[p] = t) \/ t \in refused)
      <4>1. Standing(t) = "unused" /\ Standing(t)' = "asked"
        BY <2>2, <3>4 DEF Asks, Still, Standing
      <4> QED
        BY <1>4, <3>1, <3>2, <4>1, MapFate, HostAsks
    <3> QED
      BY <3>3, <3>4
  <2>3. CASE Refuses
    <3>0. disp.term \in Terms /\ client[disp.term] # "new"
      BY <1>1, <2>3 DEF Refuses, TypeOK, HostInv, Asked, Busy
    <3>1. PICK t \in Terms : t = disp.term /\ client[t] # "new"
      BY <3>0
    <3>2. /\ \A s \in Terms : Shells(s)' = Shells(s)
          /\ \A s \in Terms \ {t} : Standing(s)' = Standing(s)
      BY <2>3, <3>1 DEF Refuses, Standing, Shells
    <3>3. UNCHANGED MLive
      BY <1>4, <3>2 DEF MLive
    <3>4. CASE (\E p \in Pids : termOf[p] = t) \/ t \in refused
      <4>1. Standing(t)' = Standing(t)
        BY <2>3, <3>1, <3>4 DEF Refuses, Standing
      <4> QED
        BY <1>4, <3>2, <4>1, MapKeeps, Stutters
    <3>5. CASE ~((\E p \in Pids : termOf[p] = t) \/ t \in refused)
      <4>1. Standing(t) = "asked" /\ Standing(t)' = "refused"
        BY <2>3, <3>1, <3>5 DEF Refuses, Standing
      <4> QED
        BY <1>4, <3>1, <3>2, <3>3, <4>1, MapFate, HostRefuses
    <3> QED
      BY <3>4, <3>5
  <2> QED
    BY <1>1, <1>4, <2>1, <2>2, <2>3, HostSteps, ForkStarts, ExitEnds
<1> QED
  BY <1>2, <1>3, <1>4

LEMMA HostInit == Init => HostInv /\ Host!Init
<1> SUFFICES ASSUME Init PROVE HostInv /\ Host!Init
  OBVIOUS
<1>1. /\ \A t \in Terms : client[t] = "new"
      /\ inbox = <<>> /\ disp.at = "idle"
      /\ \A p \in Pids : termOf[p] = None /\ shell[p] = "none"
      /\ refused = {} /\ phase = "running" /\ wire = "open"
      /\ None \notin Terms
  BY PtyAssumption DEF Init, Idle
<1>2. HostInv
  BY <1>1, InductiveInit DEF HostInv, RefusalInv, Named, Busy, Asked
<1>3. Served /\ Running = {}
  BY <1>1 DEF Served, Running
<1>4. \A t \in Terms : Fate(t) = "unused"
  BY <1>1, <1>2, <1>3, FateFollows DEF FateInv, Standing
<1> QED
  BY <1>2, <1>3, <1>4 DEF Host!Init

(* The multiplexer implements TerminalHost: although the dispatcher checks, *)
(* forks and inserts in separate steps, pumps and closes remove first and  *)
(* wait afterwards, and frames queue up in between (main.rs spawn_session, *)
(* close_session, dispatch, the pump task), a browser that is served sees  *)
(* each create decided at once, no shell started for a terminal that has   *)
(* one or beyond the cap, and a terminal left bare when its shell exits or *)
(* gives it up.                                                            *)
THEOREM HostImplemented == Spec => ImplementsHost
<1>1. HostInv /\ [Next]_vars => HostInv'
  BY InductiveStep, RefusalStep, AskedStep DEF HostInv, IInv
<1>2. HostInv /\ FateInv /\ FateInv' /\ [Next]_vars => [Host!Next]_Host!hostVars
  BY HostStepped DEF HostStep
<1> QED
  BY HostInit, FateFollows, <1>1, <1>2, PTL DEF Spec, ImplementsHost, Host!Spec

===============================================================================
