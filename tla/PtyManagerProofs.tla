--------------------------- MODULE PtyManagerProofs ---------------------------
(***************************************************************************)
(* Proofs about PtyManager, for every number of terminals and shells, every *)
(* cap, every channel capacity and every number of worker threads.         *)
(***************************************************************************)
EXTENDS PtyManager, FiniteSetTheorems, SequenceTheorems, TLAPS

(* A shell leaves its terminal, by exiting or by giving it up.             *)
Leaves(p) == ShellDetaches(p) \/ ShellExits(p)

(* The types of what a Tail, an Append or a prefix of a frame queue holds.  *)
LEMMA QueueFacts ==
  ASSUME NEW S, NEW q \in Seq(S), q # <<>>
  PROVE  /\ Head(q) \in S
         /\ Head(q) = q[1]
         /\ Tail(q) \in Seq(S)
         /\ Len(q) \in Nat \ {0}
         /\ Len(Tail(q)) = Len(q) - 1
         /\ \A i \in 1..Len(Tail(q)) : Tail(q)[i] = q[i + 1]
  BY HeadTailProperties, EmptySeq, LenProperties

(* What is handed to the wire keeps the type of the frame queue.            *)
LEMMA EmitType ==
  ASSUME frames \in Seq(OutFrame), NEW k \in {"exit", "error"}, NEW t \in Terms,
         Emit(Frame(k, t))
  PROVE  frames' \in Seq(OutFrame)
<1>1. Frame(k, t) \in OutFrame
  BY DEF Frame, OutFrame
<1>2. Append(frames, Frame(k, t)) \in Seq(OutFrame)
  BY <1>1
<1> QED
  BY <1>2 DEF Emit

(* A refused spawn leaves the dispatcher idle and types intact.             *)
LEMMA RefusedType ==
  ASSUME TypeOK, disp.at = "spawn", SpawnRefused
  PROVE  /\ frames' \in Seq(OutFrame)
         /\ refused' \subseteq Terms
         /\ disp' = Idle
<1>1. disp.term \in Terms /\ frames \in Seq(OutFrame) /\ refused \subseteq Terms
  BY DEF TypeOK
<1>2. CASE disp.kind = "create"
  BY <1>1, <1>2, EmitType DEF SpawnRefused
<1>3. CASE disp.kind # "create"
  BY <1>1, <1>3 DEF SpawnRefused
<1> QED
  BY <1>2, <1>3 DEF SpawnRefused

(* A frame the browser sends joins a queue of frames.                      *)
LEMMA SendType ==
  ASSUME inbox \in Seq(InFrame), NEW k \in {"create", "data", "close"}, NEW t \in Terms, Send(k, t)
  PROVE  inbox' \in Seq(InFrame)
<1>1. Frame(k, t) \in InFrame
  BY DEF Frame, InFrame
<1> QED
  BY <1>1 DEF Send

(* What TypeOK says of the pump tasks.                                     *)
PumpType ==
  /\ pump \in [Pids -> [at : {"none", "reading", "waiting", "done"}, on : Pids \cup {None}]]
  /\ \A o \in Pids : pump[o].at = "waiting" => pump[o].on \in Pids

(* A pump that ends leaves the others as they are.                         *)
LEMMA PumpDone ==
  ASSUME PumpType, NEW p \in Pids, pump[p].at # "none", pump' = [pump EXCEPT ![p].at = "done"]
  PROVE  PumpType' /\ \A o \in Pids : pump'[o].at # "none" => pump[o].at # "none"
<1>1. pump'[p] = [pump[p] EXCEPT !.at = "done"]
  BY DEF PumpType
<1>2. pump'[p] = [at |-> "done", on |-> pump[p].on] /\ pump[p].on \in Pids \cup {None}
  BY <1>1 DEF PumpType
<1>3. \A o \in Pids : o # p => pump'[o] = pump[o]
  BY DEF PumpType
<1>4. DOMAIN pump' = Pids /\ pump' = [o \in Pids |-> pump'[o]]
  BY DEF PumpType
<1>5. \A o \in Pids : pump'[o] \in [at : {"none", "reading", "waiting", "done"}, on : Pids \cup {None}]
  BY <1>2, <1>3 DEF PumpType
<1> QED
  BY <1>2, <1>3, <1>4, <1>5 DEF PumpType

LEMMA InitType == Init => TypeOK
  BY PtyAssumption DEF Init, TypeOK, Idle

(* Every step of the multiplexer keeps the types: one case per action.     *)
LEMMA TypeStep == TypeOK /\ [Next]_vars => TypeOK'
<1> SUFFICES ASSUME TypeOK, [Next]_vars PROVE TypeOK'
  OBVIOUS
<1> USE PtyAssumption
<1>1. ASSUME NEW t \in Terms, CreateSession(t) PROVE TypeOK'
  <2>1. inbox' \in Seq(InFrame)
    BY <1>1, SendType DEF TypeOK, CreateSession
  <2> QED
    BY <1>1, <2>1, SMTT(40) DEF TypeOK, CreateSession, shellVars
<1>2. ASSUME NEW t \in Terms, ResendCreate(t) PROVE TypeOK'
  <2>1. inbox' \in Seq(InFrame)
    BY <1>2, SendType DEF TypeOK, ResendCreate
  <2> QED
    BY <1>2, <2>1, SMTT(40) DEF TypeOK, ResendCreate, shellVars
<1>3. ASSUME NEW t \in Terms, Write(t) PROVE TypeOK'
  <2>1. inbox' \in Seq(InFrame)
    BY <1>3, SendType DEF TypeOK, Write
  <2> QED
    BY <1>3, <2>1, SMTT(40) DEF TypeOK, Write, shellVars
<1>4. ASSUME NEW t \in Terms, CloseTab(t) PROVE TypeOK'
  <2>1. inbox' \in Seq(InFrame)
    BY <1>4, SendType DEF TypeOK, CloseTab
  <2> QED
    BY <1>4, <2>1, SMTT(40) DEF TypeOK, CloseTab, shellVars
<1>5. CASE ClientReceive
  <2>1. frames' \in Seq(OutFrame)
    BY <1>5, QueueFacts DEF TypeOK, ClientReceive
  <2>2. client' \in [Terms -> {"new", "open", "exited", "closed"}]
    BY <1>5 DEF TypeOK, ClientReceive
  <2> QED
    BY <1>5, <2>1, <2>2 DEF TypeOK, ClientReceive, shellVars
<1>6. CASE ChannelCloses
  BY <1>6 DEF TypeOK, ChannelCloses, clientVars, shellVars
<1>7. CASE Dispatch
  <2>1. inbox # <<>> /\ inbox' = Tail(inbox)
    BY <1>7 DEF Dispatch
  <2> DEFINE f == Head(inbox)
             p == sessions[f.term]
  <2>a. f \in InFrame /\ inbox' \in Seq(InFrame)
    BY <2>1, QueueFacts DEF TypeOK
  <2>2. /\ f.kind \in {"create", "data", "close"}
        /\ f.term \in Terms
        /\ p \in Pids \cup {None}
    BY <2>a DEF TypeOK, InFrame
  <2>3. /\ disp' \in [at : {"idle", "spawn", "send", "closing"},
                      kind : {"create", "data", "close"},
                      term : Terms \cup {None}, pid : Pids \cup {None}]
        /\ disp'.at # "idle" => disp'.term \in Terms
        /\ disp'.at \in {"send", "closing"} => disp'.pid \in Pids
        /\ sessions' \in [Terms -> Pids \cup {None}]
    <3>1. CASE f.kind = "create" \/ (f.kind = "data" /\ p = None)
      <4>1. /\ disp' = [[at |-> "spawn", kind |-> f.kind, term |-> f.term, pid |-> p] EXCEPT !.pid = None]
            /\ sessions' = sessions
        BY <1>7, <3>1 DEF Dispatch
      <4>2. disp' = [at |-> "spawn", kind |-> f.kind, term |-> f.term, pid |-> None]
        BY <4>1
      <4> QED
        BY <2>2, <4>1, <4>2 DEF TypeOK
    <3>2. CASE f.kind = "data" /\ p # None
      BY <1>7, <2>2, <3>2 DEF TypeOK, Dispatch
    <3>3. CASE f.kind = "close" /\ p # None
      <4>1. /\ disp' = [at |-> "closing", kind |-> f.kind, term |-> f.term, pid |-> p]
            /\ sessions' = [sessions EXCEPT ![f.term] = None]
        BY <1>7, <3>3 DEF Dispatch
      <4> QED
        BY <2>2, <3>3, <4>1 DEF TypeOK
    <3>4. CASE f.kind = "close" /\ p = None
      BY <1>7, <2>2, <3>4 DEF TypeOK, Dispatch
    <3> QED
      BY <2>2, <3>1, <3>2, <3>3, <3>4
  <2> QED
    BY <1>7, <2>a, <2>2, <2>3 DEF TypeOK, Dispatch, clientVars, shellVars
<1>8. CASE SpawnAtCap
  <2>1. frames' \in Seq(OutFrame) /\ refused' \subseteq Terms /\ disp' = Idle
    BY <1>8, RefusedType DEF SpawnAtCap
  <2>2. UNCHANGED <<clientVars, chan, inbox, sessions, shellVars, pump, wire, phase>>
    BY <1>8 DEF SpawnAtCap
  <2> QED
    BY <2>1, <2>2 DEF TypeOK, Idle, clientVars, shellVars
<1>9. CASE SpawnFails
  <2>1. frames' \in Seq(OutFrame) /\ refused' \subseteq Terms /\ disp' = Idle
    BY <1>9, RefusedType DEF SpawnFails
  <2>2. UNCHANGED <<clientVars, chan, inbox, sessions, shellVars, pump, wire, phase>>
    BY <1>9 DEF SpawnFails
  <2> QED
    BY <2>1, <2>2 DEF TypeOK, Idle, clientVars, shellVars
<1>10. CASE SpawnPresent
  BY <1>10 DEF TypeOK, SpawnPresent, Idle, clientVars, shellVars
<1>11. ASSUME NEW p \in Pids, SpawnForks(p) PROVE TypeOK'
  <2>1. disp.term \in Terms
    BY <1>11 DEF TypeOK, SpawnForks
  <2>2. disp' \in [at : {"insert"}, kind : {"create", "data", "close"}, term : Terms, pid : Pids]
    BY <1>11, <2>1 DEF TypeOK, SpawnForks, Fork
  <2>3. /\ pump' \in [Pids -> [at : {"none", "reading", "waiting", "done"}, on : Pids \cup {None}]]
        /\ \A q \in Pids : pump'[q].at = "waiting" => pump'[q].on \in Pids
        /\ \A q \in Pids : pump'[q].at # "none" => q = p \/ pump[q].at # "none"
    <3>1. pump' = [pump EXCEPT ![p].at = "reading"]
      BY <1>11 DEF SpawnForks, Fork
    <3>2. PumpType
      BY DEF TypeOK, PumpType
    <3> QED
      BY <3>1, <3>2 DEF PumpType
  <2>4. /\ termOf' \in [Pids -> Terms \cup {None}]
        /\ \A q \in Pids : pump'[q].at # "none" => termOf'[q] \in Terms
    BY <1>11, <2>1, <2>3 DEF TypeOK, SpawnForks, Fork
  <2>5. /\ shell' \in [Pids -> {"none", "running", "detached", "exited", "reaped"}]
        /\ writer' \in [Pids -> {"none", "on", "gone"}]
    BY <1>11 DEF TypeOK, SpawnForks, Fork
  <2>6. UNCHANGED <<clientVars, chan, inbox, sessions, input, wire, frames, phase, refused>>
    BY <1>11 DEF SpawnForks, Fork
  <2> QED
    BY <2>2, <2>3, <2>4, <2>5, <2>6, SMTT(40) DEF TypeOK, clientVars
<1>12. CASE SpawnInserts
  BY <1>12 DEF TypeOK, SpawnInserts, Idle, clientVars, shellVars
<1>13. CASE Resend
  BY <1>13 DEF TypeOK, Resend, Idle, clientVars, shellVars
<1>14. CASE SendDone
  BY <1>14 DEF TypeOK, SendDone, Sending, Idle, clientVars
<1>15. CASE SendFails
  BY <1>15 DEF TypeOK, SendFails, Sending, Idle, clientVars, shellVars
<1>16. CASE CloseReaps
  BY <1>16 DEF TypeOK, CloseReaps, Idle, clientVars
<1>17. CASE DispatcherEnds
  BY <1>17 DEF TypeOK, DispatcherEnds, Idle, clientVars, shellVars
<1>18. ASSUME NEW p \in Pids, Leaves(p) PROVE TypeOK'
  <2>1. shell' \in [Pids -> {"none", "running", "detached", "exited", "reaped"}]
    BY <1>18 DEF TypeOK, Leaves, ShellDetaches, ShellExits
  <2>2. UNCHANGED <<clientVars, chan, inbox, disp, sessions, termOf, input, writer, pump, wire, frames, phase, refused>>
    BY <1>18 DEF Leaves, ShellDetaches, ShellExits
  <2> QED
    BY <2>1, <2>2, SMTT(40) DEF TypeOK, clientVars
<1>19. ASSUME NEW p \in Pids, WriterWrites(p) PROVE TypeOK'
  <2>1. input' \in [Pids -> 0..InputCap]
    BY <1>19 DEF TypeOK, WriterWrites
  <2>2. UNCHANGED <<clientVars, chan, inbox, disp, sessions, shell, termOf, writer, pump, wire, frames, phase, refused>>
    BY <1>19 DEF WriterWrites
  <2> QED
    BY <2>1, <2>2, SMTT(40) DEF TypeOK, clientVars
<1>20. ASSUME NEW p \in Pids, WriterEnds(p) PROVE TypeOK'
  <2>1. input' \in [Pids -> 0..InputCap] /\ writer' \in [Pids -> {"none", "on", "gone"}]
    BY <1>20 DEF TypeOK, WriterEnds
  <2>2. UNCHANGED <<clientVars, chan, inbox, disp, sessions, shell, termOf, pump, wire, frames, phase, refused>>
    BY <1>20 DEF WriterEnds
  <2> QED
    BY <2>1, <2>2, SMTT(40) DEF TypeOK, clientVars
<1>21. ASSUME NEW p \in Pids, PumpRemoves(p) PROVE TypeOK'
  <2> DEFINE q == sessions[termOf[p]]
  <2>1. PumpType /\ termOf[p] \in Terms /\ q \in Pids \cup {None} /\ pump[p].at = "reading"
    BY <1>21 DEF TypeOK, PumpType, PumpRemoves
  <2>2. frames' \in Seq(OutFrame)
    BY <1>21, <2>1, EmitType DEF TypeOK, PumpRemoves
  <2>3. PumpType' /\ \A o \in Pids : pump'[o].at # "none" => pump[o].at # "none"
    <3>1. CASE q = None
      <4>1. pump' = [pump EXCEPT ![p].at = "done"]
        BY <1>21, <3>1 DEF PumpRemoves
      <4> QED
        BY <2>1, <4>1, PumpDone
    <3>2. CASE q \in Pids
      <4>1. pump' = [pump EXCEPT ![p] = [at |-> "waiting", on |-> q]]
        BY <1>21, <3>2 DEF PumpRemoves
      <4> HIDE DEF q
      <4> QED
        BY <2>1, <3>2, <4>1 DEF PumpType
    <3> QED
      BY <2>1, <3>1, <3>2
  <2>4. sessions' \in [Terms -> Pids \cup {None}]
    BY <1>21 DEF TypeOK, PumpRemoves
  <2>5. UNCHANGED <<clientVars, chan, inbox, disp, shellVars, wire, phase, refused>>
    BY <1>21 DEF PumpRemoves
  <2> QED
    BY <2>2, <2>3, <2>4, <2>5, SMTT(40) DEF TypeOK, PumpType, clientVars, shellVars
<1>22. ASSUME NEW p \in Pids, PumpReaps(p) PROVE TypeOK'
  <2>1. /\ PumpType /\ termOf[p] \in Terms /\ frames \in Seq(OutFrame)
        /\ pump[p].at = "waiting" /\ pump' = [pump EXCEPT ![p].at = "done"]
    BY <1>22 DEF TypeOK, PumpType, PumpReaps
  <2>2. frames' \in Seq(OutFrame)
    BY <1>22, <2>1, EmitType DEF PumpReaps
  <2>3. PumpType' /\ \A o \in Pids : pump'[o].at # "none" => pump[o].at # "none"
    BY <2>1, PumpDone
  <2>4. shell' \in [Pids -> {"none", "running", "detached", "exited", "reaped"}]
    BY <1>22 DEF TypeOK, PumpReaps
  <2>5. UNCHANGED <<clientVars, chan, inbox, disp, sessions, termOf, input, writer, wire, phase, refused>>
    BY <1>22 DEF PumpReaps
  <2> QED
    BY <2>2, <2>3, <2>4, <2>5, SMTT(40) DEF TypeOK, PumpType, clientVars
<1>23. CASE WireCloses
  BY <1>23 DEF TypeOK, WireCloses, clientVars, shellVars
<1>24. CASE EndSession
  BY <1>24 DEF TypeOK, EndSession, clientVars, shellVars
<1>25. CASE Return
  <2>1. PICK n \in 0..Len(inbox) : inbox' = SubSeq(inbox, 1, n)
    BY <1>25 DEF Return
  <2>2. inbox' \in Seq(InFrame)
    BY <2>1, SubSeqProperties, LenProperties DEF TypeOK
  <2> QED
    BY <1>25, <2>2 DEF TypeOK, Return, clientVars, shellVars
<1>26. CASE EndAbruptly
  BY <1>26 DEF TypeOK, EndAbruptly, clientVars, shellVars
<1>27. CASE UNCHANGED vars
  BY <1>27 DEF TypeOK, vars
<1> QED
  BY <1>1, <1>2, <1>3, <1>4, <1>5, <1>6, <1>7, <1>8, <1>9, <1>10, <1>11, <1>12, <1>13,
     <1>14, <1>15, <1>16, <1>17, <1>18, <1>19, <1>20, <1>21, <1>22, <1>23, <1>24, <1>25,
     <1>26, <1>27
  DEF Next, ClientStep, DispatcherStep, ShellStep, Leaves, SessionStep

(* The variables of the multiplexer always have their types.               *)
THEOREM TypeCorrect == Spec => []TypeOK
  BY InitType, TypeStep, PTL DEF Spec

-----------------------------------------------------------------------------
(* What each action does to the variables the invariant speaks of, with    *)
(* the function updates spelled out pointwise.                             *)

core == <<disp, sessions, shell, termOf, pump>>

Busy == {"spawn", "insert", "resend", "send", "sendLast"}
Holding == {"insert", "closing"}

(* The dispatcher moves on without touching a handle.                      *)
HandsFree ==
  /\ disp.at \notin Holding /\ disp'.at \notin Holding
  /\ disp'.at \in Busy => disp.at \in Busy /\ disp'.term = disp.term
  /\ UNCHANGED <<client, inbox, sessions, shell, termOf, pump, phase, wire>>

(* Frames arrive or are lost, threads write, the session ends abruptly:    *)
(* nothing the handles depend on changes.                                  *)
LEMMA CoreSteps ==
  ASSUME TypeOK, [Next]_vars
  PROVE  \/ UNCHANGED core
         \/ HandsFree
         \/ Dispatch
         \/ \E p \in Pids : SpawnForks(p)
         \/ SpawnInserts
         \/ CloseReaps
         \/ \E p \in Pids : Leaves(p) \/ PumpRemoves(p) \/ PumpReaps(p)
         \/ EndSession
<1>1. disp \in [at : {"idle", "ended", "spawn", "insert", "resend", "send", "sendLast", "closing"},
               kind : {"create", "data", "close"}, term : Terms \cup {None}, pid : Pids \cup {None}]
  BY DEF TypeOK
<1>2. CASE ClientStep
  BY <1>2 DEF ClientStep, CreateSession, ResendCreate, Write, CloseTab, ClientReceive,
              ChannelCloses, core, shellVars
<1>3. CASE SpawnAtCap \/ SpawnFails
  BY <1>1, <1>3 DEF SpawnAtCap, SpawnFails, SpawnRefused, HandsFree, Holding, Busy, Idle, shellVars, clientVars
<1>4. CASE SpawnPresent
  <2>1. /\ disp.at = "spawn"
        /\ disp' = IF disp.kind = "data" THEN [disp EXCEPT !.at = "resend"] ELSE Idle
        /\ UNCHANGED <<client, inbox, sessions, shell, termOf, pump, phase, wire>>
    BY <1>4 DEF SpawnPresent, shellVars, clientVars
  <2>2. disp'.at \in {"resend", "idle"} /\ (disp'.at = "resend" => disp'.term = disp.term)
    BY <1>1, <2>1 DEF Idle
  <2> QED
    BY <2>1, <2>2 DEF HandsFree, Holding, Busy
<1>5. CASE Resend
  <2>1. /\ disp.at = "resend"
        /\ disp' = IF sessions[disp.term] = None THEN Idle
                   ELSE [disp EXCEPT !.at = "sendLast", !.pid = sessions[disp.term]]
        /\ UNCHANGED <<client, inbox, sessions, shell, termOf, pump, phase, wire>>
    BY <1>5 DEF Resend, shellVars, clientVars
  <2>2. disp'.at \in {"sendLast", "idle"} /\ (disp'.at = "sendLast" => disp'.term = disp.term)
    BY <1>1, <2>1 DEF Idle
  <2> QED
    BY <2>1, <2>2 DEF HandsFree, Holding, Busy
<1>9. CASE SendDone \/ DispatcherEnds
  <2>1. /\ disp.at \in {"send", "sendLast", "idle"}
        /\ disp' \in {Idle, [Idle EXCEPT !.at = "ended"]}
        /\ UNCHANGED <<client, inbox, sessions, shell, termOf, pump, phase, wire>>
    BY <1>9 DEF SendDone, Sending, DispatcherEnds, shellVars, clientVars
  <2>2. disp'.at \in {"idle", "ended"}
    BY <2>1 DEF Idle
  <2> QED
    BY <2>1, <2>2 DEF HandsFree, Holding, Busy
<1>10. CASE SendFails
  <2>1. /\ disp.at \in {"send", "sendLast"}
        /\ disp' = IF disp.at = "send" THEN [disp EXCEPT !.at = "spawn", !.pid = None] ELSE Idle
        /\ UNCHANGED <<client, inbox, sessions, shell, termOf, pump, phase, wire>>
    BY <1>10 DEF SendFails, Sending, shellVars, clientVars
  <2>2. disp'.at \in {"spawn", "idle"} /\ (disp'.at = "spawn" => disp'.term = disp.term)
    BY <1>1, <2>1 DEF Idle
  <2> QED
    BY <2>1, <2>2 DEF HandsFree, Holding, Busy
<1>6. CASE \E p \in Pids : WriterWrites(p) \/ WriterEnds(p)
  BY <1>6 DEF WriterWrites, WriterEnds, core
<1>7. CASE WireCloses \/ Return \/ EndAbruptly
  BY <1>7 DEF WireCloses, Return, EndAbruptly, core, shellVars
<1>8. CASE UNCHANGED vars
  BY <1>8 DEF vars, core
<1> QED
  BY <1>2, <1>3, <1>4, <1>5, <1>6, <1>7, <1>8, <1>9, <1>10
  DEF Next, DispatcherStep, ShellStep, Leaves, SessionStep

(* The session is over for good and so is the wire.                        *)
LEMMA Monotone ==
  ASSUME TypeOK, [Next]_vars
  PROVE  /\ phase' = "running" => phase = "running"
         /\ wire' = "open" => wire = "open"
<1>1. CASE ClientStep
  BY <1>1 DEF ClientStep, CreateSession, ResendCreate, Write, CloseTab, ClientReceive, ChannelCloses
<1>2. CASE DispatcherStep
  BY <1>2 DEF DispatcherStep, Dispatch, SpawnAtCap, SpawnFails, SpawnPresent, SpawnForks, Fork,
              SpawnInserts, Resend, SendDone, SendFails, CloseReaps, DispatcherEnds
<1>3. CASE \E p \in Pids : ShellStep(p)
  BY <1>3 DEF ShellStep, ShellDetaches, ShellExits, WriterWrites, WriterEnds, PumpRemoves, PumpReaps
<1>4. CASE SessionStep
  BY <1>4 DEF SessionStep, WireCloses, EndSession, Return, EndAbruptly
<1>5. CASE UNCHANGED vars
  BY <1>5 DEF vars
<1> QED
  BY <1>1, <1>2, <1>3, <1>4, <1>5 DEF Next

LEMMA DispatchDoes ==
  ASSUME TypeOK, Dispatch
  PROVE  LET f == Head(inbox) IN
         /\ f.term \in Terms
         /\ inbox # <<>> /\ inbox' = Tail(inbox)
         /\ disp.at = "idle"
         /\ UNCHANGED <<client, shell, termOf, pump, phase, wire>>
         /\ \/ /\ f.kind # "close"
               /\ disp'.at \in {"spawn", "send"} /\ disp'.term = f.term
               /\ sessions' = sessions
            \/ /\ f.kind = "close"
               /\ sessions[f.term] \in Pids
               /\ disp'.at = "closing" /\ disp'.term = f.term /\ disp'.pid = sessions[f.term]
               /\ sessions' = [sessions EXCEPT ![f.term] = None]
            \/ f.kind = "close" /\ disp' = disp /\ sessions' = sessions
<1> DEFINE f == Head(inbox)
           p == sessions[f.term]
<1>1. /\ inbox # <<>> /\ inbox' = Tail(inbox) /\ disp.at = "idle"
      /\ UNCHANGED <<client, shell, termOf, pump, phase, wire>>
  BY DEF Dispatch, clientVars, shellVars
<1>2. f \in InFrame
  BY <1>1, QueueFacts DEF TypeOK
<1>3. f.kind \in {"create", "data", "close"} /\ f.term \in Terms /\ p \in Pids \cup {None}
  BY <1>2 DEF TypeOK, InFrame
<1>4. CASE f.kind = "create" \/ (f.kind = "data" /\ p = None)
  BY <1>1, <1>3, <1>4 DEF Dispatch
<1>5. CASE f.kind = "data" /\ p # None
  BY <1>1, <1>3, <1>5 DEF Dispatch
<1>6. CASE f.kind = "close" /\ p # None
  BY <1>1, <1>3, <1>6 DEF Dispatch
<1>7. CASE f.kind = "close" /\ p = None
  BY <1>1, <1>3, <1>7 DEF Dispatch
<1> QED
  BY <1>3, <1>4, <1>5, <1>6, <1>7

LEMMA ForkDoes ==
  ASSUME TypeOK, NEW p \in Pids, SpawnForks(p)
  PROVE  /\ disp.at = "spawn" /\ disp.term \in Terms
         /\ sessions[disp.term] = None
         /\ Cardinality(Slots) < MaxSessions
         /\ shell[p] = "none"
         /\ disp'.at = "insert" /\ disp'.pid = p /\ disp'.term = disp.term
         /\ \A o \in Pids : shell'[o] = IF o = p THEN "running" ELSE shell[o]
         /\ \A o \in Pids : termOf'[o] = IF o = p THEN disp.term ELSE termOf[o]
         /\ pump'[p].at = "reading"
         /\ \A o \in Pids \ {p} : pump'[o] = pump[o]
         /\ UNCHANGED <<client, inbox, sessions, phase, wire>>
<1>1. /\ disp \in [at : {"idle", "ended", "spawn", "insert", "resend", "send", "sendLast", "closing"},
               kind : {"create", "data", "close"}, term : Terms \cup {None}, pid : Pids \cup {None}]
      /\ pump \in [Pids -> [at : {"none", "reading", "waiting", "done"}, on : Pids \cup {None}]]
      /\ DOMAIN shell = Pids /\ DOMAIN termOf = Pids
      /\ disp.at = "spawn" => disp.term \in Terms
  BY DEF TypeOK
<1> QED
  BY <1>1 DEF SpawnForks, Fork, Fresh, clientVars

LEMMA PumpRemovesDoes ==
  ASSUME TypeOK, NEW p \in Pids, PumpRemoves(p)
  PROVE  LET t == termOf[p] IN
         /\ t \in Terms
         /\ pump[p].at = "reading"
         /\ shell[p] # "running" \/ wire = "closed"
         /\ \A s \in Terms : sessions'[s] = IF s = t THEN None ELSE sessions[s]
         /\ \A o \in Pids \ {p} : pump'[o] = pump[o]
         /\ \/ sessions[t] = None /\ pump'[p].at = "done"
            \/ sessions[t] \in Pids /\ pump'[p].at = "waiting" /\ pump'[p].on = sessions[t]
         /\ UNCHANGED <<client, inbox, disp, shell, termOf, phase, wire>>
<1> DEFINE t == termOf[p]
<1>1. /\ pump \in [Pids -> [at : {"none", "reading", "waiting", "done"}, on : Pids \cup {None}]]
      /\ sessions \in [Terms -> Pids \cup {None}]
      /\ pump[p].at = "reading" => t \in Terms
  BY DEF TypeOK
<1>2. CASE sessions[t] = None
  <2>1. /\ pump[p].at = "reading"
        /\ pump' = [pump EXCEPT ![p].at = "done"]
        /\ sessions' = [sessions EXCEPT ![t] = None]
    BY <1>2 DEF PumpRemoves
  <2> QED
    BY <1>1, <1>2, <2>1 DEF PumpRemoves, clientVars, shellVars
<1>3. CASE sessions[t] # None
  <2>1. /\ pump[p].at = "reading"
        /\ pump' = [pump EXCEPT ![p] = [at |-> "waiting", on |-> sessions[t]]]
        /\ sessions' = [sessions EXCEPT ![t] = None]
    BY <1>3 DEF PumpRemoves
  <2> QED
    BY <1>1, <1>3, <2>1 DEF PumpRemoves, clientVars, shellVars
<1> QED
  BY <1>2, <1>3

LEMMA PumpReapsDoes ==
  ASSUME TypeOK, NEW p \in Pids, PumpReaps(p)
  PROVE  /\ pump[p].at = "waiting" /\ pump[p].on \in Pids
         /\ shell[pump[p].on] = "exited"
         /\ \A o \in Pids : shell'[o] = IF o = pump[p].on THEN "reaped" ELSE shell[o]
         /\ pump'[p].at = "done"
         /\ \A o \in Pids \ {p} : pump'[o] = pump[o]
         /\ UNCHANGED <<client, inbox, disp, sessions, termOf, phase, wire>>
<1>1. /\ pump \in [Pids -> [at : {"none", "reading", "waiting", "done"}, on : Pids \cup {None}]]
      /\ DOMAIN shell = Pids
      /\ pump[p].at = "waiting" => pump[p].on \in Pids
  BY DEF TypeOK
<1> QED
  BY <1>1 DEF PumpReaps, clientVars

LEMMA InsertDoes ==
  ASSUME TypeOK, SpawnInserts
  PROVE  /\ disp.at = "insert" /\ disp.term \in Terms /\ disp.pid \in Pids
         /\ \A s \in Terms : sessions'[s] = IF s = disp.term THEN disp.pid ELSE sessions[s]
         /\ disp'.at \in {"idle", "resend"}
         /\ disp'.at = "resend" => disp'.term = disp.term
         /\ UNCHANGED <<client, inbox, shell, termOf, pump, phase, wire>>
<1>1. /\ disp \in [at : {"idle", "ended", "spawn", "insert", "resend", "send", "sendLast", "closing"},
               kind : {"create", "data", "close"}, term : Terms \cup {None}, pid : Pids \cup {None}]
      /\ sessions \in [Terms -> Pids \cup {None}]
      /\ disp.at = "insert" => disp.term \in Terms /\ disp.pid \in Pids
  BY DEF TypeOK
<1> QED
  BY <1>1 DEF SpawnInserts, Idle, clientVars, shellVars

LEMMA CloseReapsDoes ==
  ASSUME TypeOK, CloseReaps
  PROVE  /\ disp.at = "closing" /\ disp.pid \in Pids
         /\ shell[disp.pid] = "exited"
         /\ \A o \in Pids : shell'[o] = IF o = disp.pid THEN "reaped" ELSE shell[o]
         /\ disp'.at = "idle"
         /\ UNCHANGED <<client, inbox, sessions, termOf, pump, phase, wire>>
<1>1. DOMAIN shell = Pids /\ (disp.at = "closing" => disp.pid \in Pids)
  BY DEF TypeOK
<1> QED
  BY <1>1 DEF CloseReaps, Idle, clientVars

LEMMA LeavesDoes ==
  ASSUME TypeOK, NEW p \in Pids, Leaves(p)
  PROVE  /\ shell[p] \in {"running", "detached"}
         /\ shell'[p] \in {"detached", "exited"}
         /\ \A o \in Pids \ {p} : shell'[o] = shell[o]
         /\ \A o \in Pids : /\ shell'[o] = "none" <=> shell[o] = "none"
                            /\ shell'[o] = "running" => shell[o] = "running"
         /\ UNCHANGED <<client, inbox, disp, sessions, termOf, pump, phase, wire>>
<1>1. DOMAIN shell = Pids
  BY DEF TypeOK
<1>2. \E s \in {"detached", "exited"} : shell' = [shell EXCEPT ![p] = s]
  BY DEF Leaves, ShellDetaches, ShellExits
<1>3. shell[p] \in {"running", "detached"}
  BY DEF Leaves, ShellDetaches, ShellExits, Alive
<1> QED
  BY <1>1, <1>2, <1>3 DEF Leaves, ShellDetaches, ShellExits, clientVars

LEMMA EndSessionDoes ==
  ASSUME TypeOK, EndSession
  PROVE  /\ \A s \in Terms : sessions'[s] = None
         /\ phase' = "torn"
         /\ UNCHANGED <<client, inbox, disp, shell, termOf, pump, wire>>
  BY DEF EndSession, clientVars, shellVars

(* The browser says one more thing about a terminal it has not closed.     *)
Says(t, k) ==
  /\ client[t] # "closed"
  /\ inbox' = Append(inbox, Frame(k, t))
  /\ \A s \in Terms \ {t} : client'[s] = client[s]
  /\ k = "close" => client'[t] = "closed"
  /\ UNCHANGED <<core, phase, wire>>

(* Who changes the browser's terminals and the frame queue, and how.       *)
LEMMA QueueSteps ==
  ASSUME TypeOK, [Next]_vars
  PROVE  \/ inbox' = inbox /\ \A t \in Terms : client[t] = "closed" => client'[t] = "closed"
         \/ \E t \in Terms, k \in {"create", "data", "close"} : Says(t, k)
         \/ Dispatch
         \/ Return
<1>1. DOMAIN client = Terms
  BY DEF TypeOK
<1>2. ASSUME NEW t \in Terms, CreateSession(t) PROVE Says(t, "create")
  BY <1>1, <1>2 DEF CreateSession, Send, Says, core, shellVars
<1>3. ASSUME NEW t \in Terms, ResendCreate(t) PROVE Says(t, "create")
  BY <1>1, <1>3 DEF ResendCreate, Send, Says, core, shellVars
<1>4. ASSUME NEW t \in Terms, Write(t) PROVE Says(t, "data")
  BY <1>1, <1>4 DEF Write, Send, Says, core, shellVars
<1>5. ASSUME NEW t \in Terms, CloseTab(t) PROVE Says(t, "close")
  BY <1>1, <1>5 DEF CloseTab, Send, Says, core, shellVars
<1>6. CASE ClientReceive
  <2>1. inbox' = inbox /\ \A t \in Terms : client'[t] \in {"exited", client[t]}
                       /\ (client'[t] # client[t] => client[t] = "open")
    BY <1>6 DEF ClientReceive
  <2> QED
    BY <2>1
<1>7. CASE ChannelCloses
  BY <1>7 DEF ChannelCloses, clientVars
<1>8. CASE DispatcherStep
  BY <1>8 DEF DispatcherStep, SpawnAtCap, SpawnFails, SpawnPresent, SpawnForks, Fork,
              SpawnInserts, Resend, SendDone, SendFails, CloseReaps, DispatcherEnds, clientVars
<1>9. CASE \E p \in Pids : ShellStep(p)
  BY <1>9 DEF ShellStep, ShellDetaches, ShellExits, WriterWrites, WriterEnds, PumpRemoves, PumpReaps, clientVars
<1>10. CASE SessionStep
  BY <1>10 DEF SessionStep, WireCloses, EndSession, EndAbruptly, clientVars
<1>11. CASE UNCHANGED vars
  BY <1>11 DEF vars
<1> QED
  BY <1>2, <1>3, <1>4, <1>5, <1>6, <1>7, <1>8, <1>9, <1>10, <1>11 DEF Next, ClientStep

-----------------------------------------------------------------------------
(* Each part of the invariant survives every step.                         *)

LEMMA KnownStep ==
  ASSUME TypeOK, Known, [Next]_vars
  PROVE  Known'
<1>1. /\ None \notin Pids
      /\ sessions \in [Terms -> Pids \cup {None}]
      /\ disp.at \in Holding => disp.pid \in Pids
      /\ \A p \in Pids : pump[p].at = "waiting" => pump[p].on \in Pids
  BY PtyAssumption DEF TypeOK, Holding
<1>2. CASE UNCHANGED core
  BY <1>2 DEF core, Known
<1>3. CASE HandsFree
  BY <1>3 DEF HandsFree, Holding, Known
<1>4. CASE Dispatch
  BY <1>1, <1>4, DispatchDoes DEF Known
<1>5. ASSUME NEW p \in Pids, SpawnForks(p) PROVE Known'
  <2>1. ASSUME NEW o \in Pids, shell[o] # "none"
        PROVE  shell'[o] # "none" /\ termOf'[o] = termOf[o]
    BY <1>5, <2>1, ForkDoes
  <2> QED
    BY <1>1, <1>5, <2>1, ForkDoes DEF Known
<1>6. CASE SpawnInserts
  BY <1>1, <1>6, InsertDoes DEF Known
<1>7. CASE CloseReaps
  BY <1>1, <1>7, CloseReapsDoes DEF Known, Holding
<1>8. ASSUME NEW p \in Pids, Leaves(p) PROVE Known'
  BY <1>1, <1>8, LeavesDoes DEF Known, Holding
<1>9. ASSUME NEW p \in Pids, PumpRemoves(p) PROVE Known'
  BY <1>1, <1>9, PumpRemovesDoes DEF Known, Holding
<1>10. ASSUME NEW p \in Pids, PumpReaps(p) PROVE Known'
  BY <1>1, <1>10, PumpReapsDoes DEF Known, Holding
<1>11. CASE EndSession
  BY <1>1, <1>11, EndSessionDoes DEF Known, Holding
<1> QED
  BY <1>2, <1>3, <1>4, <1>5, <1>6, <1>7, <1>8, <1>9, <1>10, <1>11, CoreSteps

LEMMA InsertsAbsentStep ==
  ASSUME TypeOK, InsertsAbsent, [Next]_vars
  PROVE  InsertsAbsent'
<1>1. /\ disp.at \in {"insert", "closing"} => disp.term \in Terms
      /\ sessions \in [Terms -> Pids \cup {None}]
  BY DEF TypeOK
<1>2. CASE UNCHANGED core
  BY <1>2 DEF core, InsertsAbsent
<1>3. CASE HandsFree
  BY <1>3 DEF HandsFree, Holding, InsertsAbsent
<1>4. CASE Dispatch
  BY <1>1, <1>4, DispatchDoes DEF InsertsAbsent
<1>5. ASSUME NEW p \in Pids, SpawnForks(p) PROVE InsertsAbsent'
  BY <1>5, ForkDoes DEF InsertsAbsent
<1>6. CASE SpawnInserts
  BY <1>6, InsertDoes DEF InsertsAbsent
<1>7. CASE CloseReaps
  BY <1>7, CloseReapsDoes DEF InsertsAbsent
<1>8. ASSUME NEW p \in Pids, Leaves(p) PROVE InsertsAbsent'
  BY <1>8, LeavesDoes DEF InsertsAbsent
<1>9. ASSUME NEW p \in Pids, PumpRemoves(p) PROVE InsertsAbsent'
  BY <1>1, <1>9, PumpRemovesDoes DEF InsertsAbsent
<1>10. ASSUME NEW p \in Pids, PumpReaps(p) PROVE InsertsAbsent'
  BY <1>10, PumpReapsDoes DEF InsertsAbsent
<1>11. CASE EndSession
  BY <1>1, <1>11, EndSessionDoes DEF InsertsAbsent
<1> QED
  BY <1>2, <1>3, <1>4, <1>5, <1>6, <1>7, <1>8, <1>9, <1>10, <1>11, CoreSteps

(* A handle changes hands: the old owner lets go in the same step.         *)
LEMMA OneOwnerStep ==
  ASSUME TypeOK, Known, OneOwner, [Next]_vars
  PROVE  OneOwner'
<1>1. /\ None \notin Pids
      /\ sessions \in [Terms -> Pids \cup {None}]
      /\ disp.at \in Holding => disp.pid \in Pids
      /\ \A p \in Pids : pump[p].at = "waiting" => pump[p].on \in Pids
  BY PtyAssumption DEF TypeOK, Holding
<1>2. CASE UNCHANGED core
  BY <1>2 DEF core, OneOwner, InMap
<1>3. CASE HandsFree
  BY <1>3 DEF HandsFree, Holding, OneOwner, InMap
<1>4. CASE Dispatch
  BY <1>1, <1>4, DispatchDoes DEF OneOwner, InMap, Holding
<1>5. ASSUME NEW p \in Pids, SpawnForks(p) PROVE OneOwner'
  <2>1. /\ ~InMap(p)
        /\ \A o \in Pids : pump[o].at = "waiting" => pump[o].on # p
    BY <1>1, <1>5, ForkDoes DEF Known, InMap
  <2> QED
    BY <1>1, <1>5, <2>1, ForkDoes DEF OneOwner, InMap
<1>6. CASE SpawnInserts
  BY <1>1, <1>6, InsertDoes DEF OneOwner, InMap
<1>7. CASE CloseReaps
  BY <1>1, <1>7, CloseReapsDoes DEF OneOwner, InMap
<1>8. ASSUME NEW p \in Pids, Leaves(p) PROVE OneOwner'
  BY <1>8, LeavesDoes DEF OneOwner, InMap
<1>9. ASSUME NEW p \in Pids, PumpRemoves(p) PROVE OneOwner'
  BY <1>1, <1>9, PumpRemovesDoes DEF OneOwner, InMap, Holding
<1>10. ASSUME NEW p \in Pids, PumpReaps(p) PROVE OneOwner'
  BY <1>1, <1>10, PumpReapsDoes DEF OneOwner, InMap
<1>11. CASE EndSession
  BY <1>1, <1>11, EndSessionDoes DEF OneOwner, InMap, Holding
<1> QED
  BY <1>2, <1>3, <1>4, <1>5, <1>6, <1>7, <1>8, <1>9, <1>10, <1>11, CoreSteps

(* No step that leaves the map's keys alone or removes some can break the  *)
(* bound, provided the dispatcher did not just take a handle.              *)
LEMMA SlotsShrink ==
  ASSUME SlotBound, Slots' \subseteq Slots, disp'.at \in Holding => disp.at \in Holding
  PROVE  SlotBound'
<1>1. IsFiniteSet(Slots)
  BY PtyAssumption, FS_Subset DEF Slots
<1>2. /\ IsFiniteSet(Slots')
      /\ Cardinality(Slots') <= Cardinality(Slots)
      /\ Cardinality(Slots') \in Nat /\ Cardinality(Slots) \in Nat
  BY <1>1, FS_Subset, FS_CardinalityType
<1> QED
  BY <1>2, PtyAssumption DEF SlotBound, Holding

LEMMA SlotBoundStep ==
  ASSUME TypeOK, SlotBound, InsertsAbsent, [Next]_vars
  PROVE  SlotBound'
<1>1. /\ IsFiniteSet(Slots) /\ Cardinality(Slots) \in Nat
      /\ MaxSessions \in Nat
      /\ None \notin Pids
      /\ sessions \in [Terms -> Pids \cup {None}]
  BY PtyAssumption, FS_Subset, FS_CardinalityType DEF Slots, TypeOK
<1>2. CASE UNCHANGED core
  BY <1>2, SlotsShrink DEF core, Slots
<1>3. CASE HandsFree
  BY <1>3, SlotsShrink DEF HandsFree, Slots
<1>4. CASE Dispatch
  <2> DEFINE t == Head(inbox).term
  <2>1. CASE disp'.at = "closing"
    <3>1. t \in Slots /\ Slots' = Slots \ {t}
      BY <1>1, <1>4, <2>1, DispatchDoes DEF Slots
    <3>2. Cardinality(Slots') = Cardinality(Slots) - 1
      BY <1>1, <3>1, FS_RemoveElement
    <3> QED
      BY <1>1, <3>2 DEF SlotBound
  <2>2. CASE disp'.at # "closing"
    <3>1. Slots' \subseteq Slots /\ disp'.at \notin Holding
      BY <1>4, <2>2, DispatchDoes DEF Slots, Holding
    <3> QED
      BY <3>1, SlotsShrink
  <2> QED
    BY <2>1, <2>2
<1>5. ASSUME NEW p \in Pids, SpawnForks(p) PROVE SlotBound'
  <2>1. Slots' = Slots /\ Cardinality(Slots) < MaxSessions
    BY <1>5, ForkDoes DEF Slots
  <2> QED
    BY <1>1, <2>1 DEF SlotBound
<1>6. CASE SpawnInserts
  <2>1. /\ disp.term \in Terms /\ disp'.at \notin Holding
        /\ Slots' = Slots \cup {disp.term}
        /\ disp.term \notin Slots
        /\ Cardinality(Slots) < MaxSessions
    BY <1>1, <1>6, InsertDoes DEF Slots, SlotBound, InsertsAbsent, Holding
  <2>2. Cardinality(Slots') = Cardinality(Slots) + 1
    BY <1>1, <2>1, FS_AddElement
  <2> QED
    BY <1>1, <2>1, <2>2 DEF SlotBound, Holding
<1>7. CASE CloseReaps
  BY <1>7, CloseReapsDoes, SlotsShrink DEF Slots, Holding
<1>8. ASSUME NEW p \in Pids, Leaves(p) PROVE SlotBound'
  BY <1>8, LeavesDoes, SlotsShrink DEF Slots
<1>9. ASSUME NEW p \in Pids, PumpRemoves(p) PROVE SlotBound'
  BY <1>9, PumpRemovesDoes, SlotsShrink DEF Slots
<1>10. ASSUME NEW p \in Pids, PumpReaps(p) PROVE SlotBound'
  BY <1>10, PumpReapsDoes, SlotsShrink DEF Slots
<1>11. CASE EndSession
  BY <1>11, EndSessionDoes, SlotsShrink DEF Slots
<1> QED
  BY <1>2, <1>3, <1>4, <1>5, <1>6, <1>7, <1>8, <1>9, <1>10, <1>11, CoreSteps

(* The frame queue seen as the invariant sees it.                          *)
LEMMA QueueLooks ==
  ASSUME TypeOK
  PROVE  /\ Len(inbox) \in Nat
         /\ \A i \in 1..Len(inbox) : inbox[i].kind \in {"create", "data", "close"} /\ inbox[i].term \in Terms
         /\ \A t \in Terms, k \in {"create", "data", "close"} :
              inbox' = Append(inbox, Frame(k, t)) =>
                /\ Len(inbox') = Len(inbox) + 1
                /\ \A i \in 1..Len(inbox) : inbox'[i] = inbox[i]
                /\ inbox'[Len(inbox) + 1].kind = k /\ inbox'[Len(inbox) + 1].term = t
         /\ inbox # <<>> /\ inbox' = Tail(inbox) =>
              /\ Len(inbox) > 0
              /\ Len(inbox') = Len(inbox) - 1
              /\ \A i \in 1..Len(inbox') : inbox'[i] = inbox[i + 1]
              /\ Head(inbox) = inbox[1]
<1>1. inbox \in Seq(InFrame)
  BY DEF TypeOK
<1>2. \A i \in 1..Len(inbox) : inbox[i] \in InFrame
  BY <1>1, ElementOfSeq
<1>3. \A t \in Terms, k \in {"create", "data", "close"} : Frame(k, t) \in InFrame
  BY DEF Frame, InFrame
<1>4. ASSUME NEW t \in Terms, NEW k \in {"create", "data", "close"}, inbox' = Append(inbox, Frame(k, t))
      PROVE  /\ Len(inbox') = Len(inbox) + 1
             /\ \A i \in 1..Len(inbox) : inbox'[i] = inbox[i]
             /\ inbox'[Len(inbox) + 1] = Frame(k, t)
  BY <1>1, <1>3, <1>4, AppendProperties
<1>5. ASSUME inbox # <<>>, inbox' = Tail(inbox)
      PROVE  /\ Len(inbox) > 0 /\ Len(inbox') = Len(inbox) - 1 /\ Head(inbox) = inbox[1]
             /\ \A i \in 1..Len(inbox') : inbox'[i] = inbox[i + 1]
  BY <1>1, <1>5, QueueFacts
<1>6. \A t \in Terms, k \in {"create", "data", "close"} : Frame(k, t).kind = k /\ Frame(k, t).term = t
  BY DEF Frame
<1>7. \A f \in InFrame : f.kind \in {"create", "data", "close"} /\ f.term \in Terms
  BY DEF InFrame
<1>8. Len(inbox) \in Nat
  BY <1>1, LenProperties
<1> QED
  BY <1>2, <1>4, <1>5, <1>6, <1>7, <1>8

LEMMA CloseIsLastStep ==
  ASSUME TypeOK, CloseIsLast, [Next]_vars
  PROVE  CloseIsLast'
<1>1. /\ Len(inbox) \in Nat
      /\ \A i \in 1..Len(inbox) : inbox[i].term \in Terms
  BY QueueLooks
<1>2. CASE inbox' = inbox /\ \A t \in Terms : client[t] = "closed" => client'[t] = "closed"
  BY <1>1, <1>2 DEF CloseIsLast
<1>3. ASSUME NEW t \in Terms, NEW k \in {"create", "data", "close"}, Says(t, k) PROVE CloseIsLast'
  <2>1. /\ Len(inbox') = Len(inbox) + 1
        /\ \A i \in 1..Len(inbox) : inbox'[i] = inbox[i]
        /\ inbox'[Len(inbox) + 1].kind = k /\ inbox'[Len(inbox) + 1].term = t
    BY <1>3, QueueLooks DEF Says
  <2>2. \A i \in 1..Len(inbox) : inbox[i].kind = "close" =>
          inbox[i].term # t /\ client'[inbox[i].term] = "closed"
    BY <1>1, <1>3 DEF CloseIsLast, Says
  <2>3. k = "close" => client'[t] = "closed"
    BY <1>3 DEF Says
  <2> QED
    BY <1>1, <2>1, <2>2, <2>3 DEF CloseIsLast
<1>4. CASE Dispatch
  <2>1. /\ client' = client
        /\ Len(inbox') = Len(inbox) - 1
        /\ \A i \in 1..Len(inbox') : inbox'[i] = inbox[i + 1]
    BY <1>4, DispatchDoes, QueueLooks
  <2>2. ASSUME NEW i \in 1..Len(inbox'), inbox'[i].kind = "close"
        PROVE  /\ client'[inbox'[i].term] = "closed"
               /\ \A j \in 1..Len(inbox') : j > i => inbox'[j].term # inbox'[i].term
    <3>1. i + 1 \in 1..Len(inbox) /\ inbox[i + 1].kind = "close"
      BY <1>1, <2>1, <2>2
    <3>2. /\ client[inbox[i + 1].term] = "closed"
          /\ \A j \in 1..Len(inbox) : j > i + 1 => inbox[j].term # inbox[i + 1].term
      BY <3>1 DEF CloseIsLast
    <3>3. \A j \in 1..Len(inbox') : j > i => j + 1 \in 1..Len(inbox) /\ j + 1 > i + 1
      BY <1>1, <2>1
    <3> QED
      BY <2>1, <3>2, <3>3
  <2> QED
    BY <2>2 DEF CloseIsLast
<1>5. CASE Return
  <2>1. PICK n \in 0..Len(inbox) : inbox' = SubSeq(inbox, 1, n)
    BY <1>5 DEF Return
  <2>2. Len(inbox') = n /\ \A i \in 1..n : inbox'[i] = inbox[i]
    BY <1>1, <2>1, SubSeqProperties DEF TypeOK
  <2>3. client' = client
    BY <1>5 DEF Return, clientVars
  <2> QED
    BY <1>1, <2>2, <2>3 DEF CloseIsLast
<1> QED
  BY <1>2, <1>3, <1>4, <1>5, QueueSteps

(* Once a terminal is finished it stays so until the session is over.      *)
LEMMA FinishedStep ==
  ASSUME TypeOK, [Next]_vars, phase' = "running", NEW t \in Terms, Finished(t)
  PROVE  Finished(t)'
<1>1. /\ Len(inbox) \in Nat
      /\ client[t] = "closed"
      /\ \A i \in 1..Len(inbox) : inbox[i].term # t
      /\ disp.at \in Busy => disp.term # t
  BY QueueLooks DEF Finished, Busy
<1>2. client'[t] = "closed" /\ \A i \in 1..Len(inbox') : inbox'[i].term # t
  <2>1. CASE inbox' = inbox /\ \A u \in Terms : client[u] = "closed" => client'[u] = "closed"
    BY <1>1, <2>1
  <2>2. ASSUME NEW u \in Terms, NEW k \in {"create", "data", "close"}, Says(u, k)
        PROVE  client'[t] = "closed" /\ \A i \in 1..Len(inbox') : inbox'[i].term # t
    <3>1. u # t /\ client'[t] = "closed" /\ inbox' = Append(inbox, Frame(k, u))
      BY <1>1, <2>2 DEF Says
    <3>2. /\ Len(inbox') = Len(inbox) + 1
          /\ \A i \in 1..Len(inbox) : inbox'[i] = inbox[i]
          /\ inbox'[Len(inbox) + 1].term = u
      BY <3>1, QueueLooks
    <3> QED
      BY <1>1, <3>1, <3>2
  <2>3. CASE Dispatch
    <3>1. /\ client' = client
          /\ Len(inbox') = Len(inbox) - 1
          /\ \A i \in 1..Len(inbox') : inbox'[i] = inbox[i + 1]
      BY <2>3, DispatchDoes, QueueLooks
    <3>2. \A i \in 1..Len(inbox') : i + 1 \in 1..Len(inbox)
      BY <1>1, <3>1
    <3> QED
      BY <1>1, <3>1, <3>2
  <2>4. CASE Return
    BY <2>4 DEF Return
  <2> QED
    BY <2>1, <2>2, <2>3, <2>4, QueueSteps
<1>3. disp'.at \in Busy => disp'.term # t
  <2>1. CASE Dispatch
    <3>1. Head(inbox).term # t
      BY <1>1, <2>1, DispatchDoes, QueueLooks
    <3> QED
      BY <2>1, <3>1, DispatchDoes DEF Busy
  <2>2. CASE UNCHANGED core
    BY <1>1, <2>2 DEF core
  <2>3. CASE HandsFree
    BY <1>1, <2>3 DEF HandsFree
  <2>4. CASE \E p \in Pids : SpawnForks(p)
    BY <1>1, <2>4, ForkDoes DEF Busy
  <2>5. CASE SpawnInserts
    BY <1>1, <2>5, InsertDoes DEF Busy
  <2>6. CASE CloseReaps
    BY <2>6, CloseReapsDoes DEF Busy
  <2>7. CASE \E p \in Pids : Leaves(p) \/ PumpRemoves(p) \/ PumpReaps(p)
    BY <1>1, <2>7, LeavesDoes, PumpRemovesDoes, PumpReapsDoes
  <2>8. CASE EndSession
    BY <1>1, <2>8, EndSessionDoes
  <2> QED
    BY <2>1, <2>2, <2>3, <2>4, <2>5, <2>6, <2>7, <2>8, CoreSteps
<1> QED
  BY <1>2, <1>3 DEF Finished, Busy

(* The close that a terminal's own entry leaves the map with is final.     *)
LEMMA CloseFinishes ==
  ASSUME TypeOK, CloseIsLast, Dispatch, NEW t \in Terms,
         Head(inbox).term = t, Head(inbox).kind = "close", disp'.at \notin Busy
  PROVE  Finished(t)'
<1>1. /\ client' = client
      /\ Len(inbox) \in Nat /\ Len(inbox) > 0
      /\ Len(inbox') = Len(inbox) - 1
      /\ \A i \in 1..Len(inbox') : inbox'[i] = inbox[i + 1]
      /\ Head(inbox) = inbox[1]
  BY DispatchDoes, QueueLooks
<1>2. /\ client[t] = "closed"
      /\ \A j \in 1..Len(inbox) : j > 1 => inbox[j].term # t
  BY <1>1 DEF CloseIsLast
<1>3. \A i \in 1..Len(inbox') : i + 1 \in 1..Len(inbox) /\ i + 1 > 1
  BY <1>1
<1> QED
  BY <1>1, <1>2, <1>3 DEF Finished, Busy

(* A pump that is reading was reading before, for the same terminal, or    *)
(* belongs to the shell just started.                                      *)
LEMMA ReadingStep ==
  ASSUME TypeOK, [Next]_vars, NEW p \in Pids, pump'[p].at = "reading"
  PROVE  SpawnForks(p) \/ (pump[p].at = "reading" /\ termOf'[p] = termOf[p])
<1>1. CASE UNCHANGED core
  BY <1>1 DEF core
<1>2. CASE HandsFree
  BY <1>2 DEF HandsFree
<1>3. ASSUME NEW q \in Pids, SpawnForks(q)
      PROVE  SpawnForks(p) \/ (pump[p].at = "reading" /\ termOf'[p] = termOf[p])
  BY <1>3, ForkDoes
<1>4. CASE \E q \in Pids : PumpRemoves(q)
  BY <1>4, PumpRemovesDoes
<1>5. CASE \E q \in Pids : PumpReaps(q)
  BY <1>5, PumpReapsDoes
<1>6. CASE Dispatch \/ SpawnInserts \/ CloseReaps \/ EndSession
  BY <1>6, DispatchDoes, InsertDoes, CloseReapsDoes, EndSessionDoes
<1>7. CASE \E q \in Pids : Leaves(q)
  BY <1>7, LeavesDoes
<1> QED
  BY <1>1, <1>2, <1>3, <1>4, <1>5, <1>6, <1>7, CoreSteps

LEMMA PumpEntryStep ==
  ASSUME TypeOK, Known, InsertsAbsent, CloseIsLast, PumpEntry, [Next]_vars
  PROVE  PumpEntry'
<1> SUFFICES ASSUME phase' = "running", NEW p \in Pids, pump'[p].at = "reading"
             PROVE  (\/ sessions[termOf[p]] = p
                     \/ sessions[termOf[p]] = None /\ disp.at = "insert" /\ disp.pid = p
                     \/ sessions[termOf[p]] = None /\ Finished(termOf[p]))'
  BY DEF PumpEntry
<1>1. CASE SpawnForks(p)
  BY <1>1, ForkDoes
<1>2. CASE ~SpawnForks(p)
  <2>1. pump[p].at = "reading" /\ termOf'[p] = termOf[p]
    BY <1>2, ReadingStep
  <2>2. PICK t \in Terms : t = termOf[p]
    BY <2>1 DEF TypeOK
  <2> DEFINE Entry == \/ sessions[t] = p
                      \/ sessions[t] = None /\ disp.at = "insert" /\ disp.pid = p
                      \/ sessions[t] = None /\ Finished(t)
  <2> SUFFICES Entry'
    BY <2>1, <2>2
  <2>3. /\ phase = "running" /\ None \notin Pids /\ Entry
        /\ \A o \in Pids : pump[o].at = "reading" =>
             /\ termOf[o] \in Terms
             /\ sessions[termOf[o]] = o \/ sessions[termOf[o]] = None
    BY <2>1, <2>2, Monotone, PtyAssumption DEF PumpEntry, TypeOK
  <2>4. Finished(t) => Finished(t)'
    BY FinishedStep
  <2>5. sessions'[t] = sessions[t] /\ disp'.at = disp.at /\ disp'.pid = disp.pid => Entry'
    BY <2>3, <2>4
  <2> HIDE DEF Entry
  <2>6. CASE UNCHANGED core
    BY <2>5, <2>6 DEF core
  <2>7. CASE HandsFree
    BY <2>3, <2>4, <2>7 DEF HandsFree, Holding, Entry
  <2>8. CASE Dispatch
    <3>1. disp.at = "idle"
      BY <2>8, DispatchDoes
    <3>2. CASE sessions' = sessions
      BY <2>3, <2>4, <3>1, <3>2 DEF Entry
    <3>3. CASE sessions' # sessions
      <4>1. /\ Head(inbox).kind = "close" /\ disp'.at = "closing"
            /\ Head(inbox).term \in Terms
            /\ sessions' = [sessions EXCEPT ![Head(inbox).term] = None]
        BY <2>8, <3>3, DispatchDoes
      <4>2. CASE Head(inbox).term = t
        <5>1. Finished(t)'
          BY <2>8, <4>1, <4>2, CloseFinishes DEF Busy
        <5>2. sessions'[t] = None
          BY <4>1, <4>2 DEF TypeOK
        <5> QED
          BY <5>1, <5>2 DEF Entry
      <4>3. CASE Head(inbox).term # t
        <5>1. sessions'[t] = sessions[t]
          BY <4>1, <4>3 DEF TypeOK
        <5> QED
          BY <2>3, <2>4, <3>1, <5>1 DEF Entry
      <4> QED
        BY <4>2, <4>3
    <3> QED
      BY <3>2, <3>3
  <2>9. ASSUME NEW q \in Pids, SpawnForks(q) PROVE Entry'
    <3>1. disp.at = "spawn" /\ sessions' = sessions
      BY <2>9, ForkDoes
    <3> QED
      BY <2>3, <2>4, <3>1 DEF Entry
  <2>10. CASE SpawnInserts
    <3>1. /\ disp.at = "insert" /\ disp.term \in Terms /\ sessions[disp.term] = None
          /\ disp.pid = p => disp.term = t
          /\ \A s \in Terms : sessions'[s] = IF s = disp.term THEN disp.pid ELSE sessions[s]
      BY <2>2, <2>10, InsertDoes DEF Known, InsertsAbsent
    <3>2. Finished(t) => disp.term # t
      BY <3>1 DEF Finished
    <3> QED
      BY <2>3, <2>4, <3>1, <3>2 DEF Entry
  <2>11. CASE CloseReaps
    BY <2>3, <2>4, <2>11, CloseReapsDoes DEF Entry
  <2>12. CASE \E q \in Pids : Leaves(q)
    BY <2>5, <2>12, LeavesDoes
  <2>13. ASSUME NEW q \in Pids, PumpRemoves(q) PROVE Entry'
    <3>1. /\ p # q /\ disp' = disp /\ pump[q].at = "reading"
          /\ \A s \in Terms : sessions'[s] = IF s = termOf[q] THEN None ELSE sessions[s]
      BY <2>13, PumpRemovesDoes
    <3>2. CASE t = termOf[q]
      BY <2>3, <2>4, <3>1, <3>2 DEF Entry
    <3>3. CASE t # termOf[q]
      BY <2>5, <3>1, <3>3
    <3> QED
      BY <3>2, <3>3
  <2>14. CASE \E q \in Pids : PumpReaps(q)
    BY <2>5, <2>14, PumpReapsDoes
  <2>15. CASE EndSession
    BY <2>15, EndSessionDoes
  <2> QED
    BY <2>6, <2>7, <2>8, <2>9, <2>10, <2>11, <2>12, <2>13, <2>14, <2>15, CoreSteps
<1> QED
  BY <1>1, <1>2

LEMMA PumpReapsOwnStep ==
  ASSUME TypeOK, PumpEntry, PumpReapsOwn, [Next]_vars
  PROVE  PumpReapsOwn'
<1> SUFFICES ASSUME phase' = "running", NEW p \in Pids, pump'[p].at = "waiting"
             PROVE  pump'[p].on = p
  BY DEF PumpReapsOwn
<1>1. phase = "running" /\ None \notin Pids
  BY Monotone, PtyAssumption
<1>2. CASE pump'[p] = pump[p]
  BY <1>1, <1>2 DEF PumpReapsOwn
<1>3. CASE PumpRemoves(p)
  BY <1>1, <1>3, PumpRemovesDoes DEF PumpEntry
<1>4. \/ pump'[p] = pump[p]
      \/ PumpRemoves(p)
      \/ pump'[p].at \in {"reading", "done"}
  <2>1. CASE UNCHANGED core
    BY <2>1 DEF core
  <2>2. CASE HandsFree
    BY <2>2 DEF HandsFree
  <2>3. ASSUME NEW q \in Pids, SpawnForks(q)
        PROVE  pump'[p] = pump[p] \/ pump'[p].at = "reading"
    BY <2>3, ForkDoes
  <2>4. ASSUME NEW q \in Pids, PumpRemoves(q)
        PROVE  pump'[p] = pump[p] \/ PumpRemoves(p)
    BY <2>4, PumpRemovesDoes
  <2>5. ASSUME NEW q \in Pids, PumpReaps(q)
        PROVE  pump'[p] = pump[p] \/ pump'[p].at = "done"
    BY <2>5, PumpReapsDoes
  <2>6. CASE Dispatch
    BY <2>6, DispatchDoes
  <2>7. CASE SpawnInserts \/ CloseReaps \/ EndSession
    BY <2>7, InsertDoes, CloseReapsDoes, EndSessionDoes
  <2>8. CASE \E q \in Pids : Leaves(q)
    BY <2>8, LeavesDoes
  <2> QED
    BY <2>1, <2>2, <2>3, <2>4, <2>5, <2>6, <2>7, <2>8, CoreSteps
<1> QED
  BY <1>2, <1>3, <1>4

LEMMA RunningAccountedStep ==
  ASSUME TypeOK, InsertsAbsent, PumpEntry, RunningAccounted, [Next]_vars
  PROVE  RunningAccounted'
<1> SUFFICES ASSUME phase' = "running", wire' = "open", NEW p \in Pids, shell'[p] = "running"
             PROVE  \/ \E t \in Terms : sessions'[t] = p
                    \/ disp'.at \in Holding /\ disp'.pid = p
  BY DEF RunningAccounted, Running, InMap, Holding
<1>1. /\ phase = "running" /\ wire = "open" /\ None \notin Pids
      /\ shell[p] = "running" => \/ \E t \in Terms : sessions[t] = p
                                 \/ disp.at \in Holding /\ disp.pid = p
  BY Monotone, PtyAssumption DEF RunningAccounted, Running, InMap, Holding
<1>2. CASE UNCHANGED core
  BY <1>1, <1>2 DEF core
<1>3. CASE HandsFree
  BY <1>1, <1>3 DEF HandsFree
<1>4. CASE Dispatch
  <2>1. shell[p] = "running" /\ disp.at \notin Holding
    BY <1>4, DispatchDoes DEF Holding
  <2>2. PICK t \in Terms : sessions[t] = p
    BY <1>1, <2>1
  <2>3. \/ sessions'[t] = p
        \/ disp'.at = "closing" /\ disp'.pid = p
    <3>1. CASE sessions' = sessions
      BY <2>2, <3>1
    <3>2. CASE sessions' # sessions
      <4>1. /\ disp'.at = "closing" /\ disp'.pid = sessions[Head(inbox).term]
            /\ sessions' = [sessions EXCEPT ![Head(inbox).term] = None]
        BY <1>4, <3>2, DispatchDoes
      <4> QED
        BY <2>2, <4>1 DEF TypeOK
    <3> QED
      BY <3>1, <3>2
  <2> QED
    BY <2>3 DEF Holding
<1>5. CASE \E q \in Pids : SpawnForks(q)
  BY <1>1, <1>5, ForkDoes DEF Holding
<1>6. CASE SpawnInserts
  BY <1>1, <1>6, InsertDoes DEF InsertsAbsent, Holding
<1>7. CASE CloseReaps
  BY <1>1, <1>7, CloseReapsDoes
<1>8. CASE \E q \in Pids : Leaves(q)
  BY <1>1, <1>8, LeavesDoes
<1>9. ASSUME NEW q \in Pids, PumpRemoves(q)
      PROVE  \/ \E t \in Terms : sessions'[t] = p
             \/ disp'.at \in Holding /\ disp'.pid = p
  <2>1. /\ p # q /\ shell[p] = "running" /\ disp' = disp
        /\ pump[q].at = "reading"
        /\ \A s \in Terms : sessions'[s] = IF s = termOf[q] THEN None ELSE sessions[s]
    BY <1>1, <1>9, PumpRemovesDoes
  <2>2. sessions[termOf[q]] # p
    BY <1>1, <2>1 DEF PumpEntry
  <2> QED
    BY <1>1, <2>1, <2>2
<1>10. CASE \E q \in Pids : PumpReaps(q)
  BY <1>1, <1>10, PumpReapsDoes
<1>11. CASE EndSession
  BY <1>11, EndSessionDoes
<1> QED
  BY <1>2, <1>3, <1>4, <1>5, <1>6, <1>7, <1>8, <1>9, <1>10, <1>11, CoreSteps

-----------------------------------------------------------------------------
(* The inductive invariant, and what follows from it.                      *)

LEMMA InductiveInit == Init => IInv
<1> SUFFICES ASSUME Init PROVE IInv
  OBVIOUS
<1>1. Slots = {} /\ Cardinality(Slots) = 0
  BY FS_EmptySet DEF Init, Slots
<1>2. SlotBound
  BY <1>1, PtyAssumption DEF Init, SlotBound, Idle
<1>3. OneOwner /\ Known /\ InsertsAbsent
  BY PtyAssumption DEF Init, OneOwner, Known, InsertsAbsent, InMap, Idle
<1>4. CloseIsLast /\ PumpEntry /\ PumpReapsOwn /\ RunningAccounted
  BY DEF Init, CloseIsLast, PumpEntry, PumpReapsOwn, RunningAccounted, Running, Idle
<1> QED
  BY <1>2, <1>3, <1>4, InitType DEF IInv

LEMMA InductiveStep == IInv /\ [Next]_vars => IInv'
  BY TypeStep, KnownStep, InsertsAbsentStep, OneOwnerStep, SlotBoundStep, CloseIsLastStep,
     PumpEntryStep, PumpReapsOwnStep, RunningAccountedStep
  DEF IInv

(* Every reachable state satisfies the strengthened invariant.             *)
THEOREM Inductive == Spec => []IInv
  BY InductiveInit, InductiveStep, PTL DEF Spec

(* No two of the map, the dispatcher and the pumps ever hold the handle of *)
(* the same shell: close_session and the pump's removal at end of output   *)
(* may race, and only one of them waits for the child.                     *)
THEOREM OneOwnerHolds == Spec => []OneOwner
<1>1. IInv => OneOwner
  BY DEF IInv
<1> QED
  BY Inductive, <1>1, PTL

(* While the session is served, a shell that holds its terminal is filed in *)
(* the map, or the dispatcher holds it between fork and insert or in a     *)
(* close: no keystroke, close or end of another shell's output loses its   *)
(* handle (main.rs spawn_session, close_session, pump).                    *)
THEOREM ShellsAccounted == Spec => []RunningAccounted
<1>1. IInv => RunningAccounted
  BY DEF IInv
<1> QED
  BY Inductive, <1>1, PTL

(* A pump that frees its slot by terminal id frees its own shell's: while  *)
(* the session is served it never takes a younger shell of the same id.    *)
THEOREM PumpReapsOwnHolds == Spec => []PumpReapsOwn
<1>1. IInv => PumpReapsOwn
  BY DEF IInv
<1> QED
  BY Inductive, <1>1, PTL

(* The running shells inject into the map, except for the one the          *)
(* dispatcher holds, for which SlotBound has left a place.                 *)
LEMMA CapFollows == IInv => CapHolds
<1> SUFFICES ASSUME IInv, phase = "running", wire = "open"
             PROVE  Cardinality(Running) <= MaxSessions
  BY DEF CapHolds
<1> DEFINE held == IF disp.at \in Holding THEN {disp.pid} ELSE {}
           R == Running \ held
           f == [p \in R |-> termOf[p]]
<1>1. IsFiniteSet(Running) /\ IsFiniteSet(Slots) /\ MaxSessions \in Nat /\ None \notin Pids
  BY PtyAssumption, FS_Subset DEF Running, Slots
<1>2. \A p \in R : termOf[p] \in Slots /\ sessions[termOf[p]] = p
  <2> SUFFICES ASSUME NEW p \in R PROVE termOf[p] \in Slots /\ sessions[termOf[p]] = p
    OBVIOUS
  <2>1. p \in Running /\ p \in Pids /\ ~(disp.at \in Holding /\ disp.pid = p)
    BY DEF Running
  <2>2. PICK t \in Terms : sessions[t] = p
    BY <2>1 DEF IInv, RunningAccounted, InMap, Holding
  <2> QED
    BY <1>1, <2>1, <2>2 DEF IInv, Known, Slots
<1>3. f \in [R -> Slots]
  BY <1>2
<1>4. \A p, q \in R : f[p] = f[q] => p = q
  BY <1>2
<1>5. f \in Injection(R, Slots)
  BY <1>3, <1>4 DEF Injection, IsInjective
<1>6. Cardinality(R) <= Cardinality(Slots) /\ IsFiniteSet(R)
  BY <1>1, <1>5, FS_Injection
<1>7. Cardinality(R) \in Nat /\ Cardinality(Slots) \in Nat /\ Cardinality(Running) \in Nat
  BY <1>1, <1>6, FS_CardinalityType
<1>8. CASE disp.at \in Holding
  <2>1. Cardinality(Running) <= Cardinality(R) + 1
    <3>1. R = Running \ {disp.pid}
      BY <1>8
    <3>2. Cardinality(Running \ {disp.pid}) =
            IF disp.pid \in Running THEN Cardinality(Running) - 1 ELSE Cardinality(Running)
      BY <1>1, FS_RemoveElement
    <3> HIDE DEF R
    <3>3. Cardinality(Running) <= Cardinality(Running \ {disp.pid}) + 1
      BY <1>7, <3>2
    <3> QED
      BY <3>1, <3>3
  <2>2. Cardinality(Slots) < MaxSessions
    BY <1>8 DEF IInv, SlotBound, Holding
  <2> HIDE DEF R
  <2> QED
    BY <1>1, <1>6, <1>7, <2>1, <2>2
<1>9. CASE disp.at \notin Holding
  <2>1. R = Running
    BY <1>9
  <2>2. Cardinality(Slots) <= MaxSessions
    BY DEF IInv, SlotBound
  <2> HIDE DEF R
  <2> QED
    BY <1>1, <1>6, <1>7, <2>1, <2>2
<1> QED
  BY <1>8, <1>9

(* Whatever the order of spawns, closes, exits and children that give up   *)
(* their terminal, a served session never has more than MaxSessions shells *)
(* on their terminals (main.rs spawn_session, close_session, pump).        *)
THEOREM CapHoldsAlways == Spec => []CapHolds
  BY Inductive, CapFollows, PTL

(* A running shell is under its own id or in the dispatcher's hands, and   *)
(* the dispatcher's hands hold no shell of an id that has an entry.        *)
LEMMA OneShellFollows == IInv => OneShellPerTerminal
<1> SUFFICES ASSUME IInv, phase = "running", wire = "open",
                    NEW p \in Running, NEW q \in Running, termOf[p] = termOf[q]
             PROVE  p = q
  BY DEF OneShellPerTerminal
<1>1. None \notin Pids /\ p \in Pids /\ q \in Pids
  BY PtyAssumption DEF Running
<1>2. \A r \in Running :
        \/ sessions[termOf[r]] = r
        \/ /\ disp.at \in Holding /\ disp.pid = r
           /\ sessions[termOf[r]] = None
  <2> SUFFICES ASSUME NEW r \in Running
               PROVE  \/ sessions[termOf[r]] = r
                      \/ /\ disp.at \in Holding /\ disp.pid = r
                         /\ sessions[termOf[r]] = None
    OBVIOUS
  <2>1. CASE InMap(r)
    <3>1. PICK t \in Terms : sessions[t] = r
      BY <2>1 DEF InMap
    <3>2. r # None
      BY <1>1 DEF Running
    <3> QED
      BY <3>1, <3>2 DEF IInv, Known
  <2>2. CASE disp.at \in Holding /\ disp.pid = r
    <3>1. termOf[r] = disp.term
      BY <2>2 DEF IInv, Known, Holding
    <3> QED
      BY <2>2, <3>1 DEF IInv, InsertsAbsent, Holding
  <2> QED
    BY <2>1, <2>2 DEF IInv, RunningAccounted, Holding
<1> QED
  BY <1>1, <1>2

(* Repeated creates, keystrokes in flight, closes that wait and pumps that *)
(* remove an entry whose child still runs never leave one terminal with two *)
(* shells on it while its session is served (main.rs spawn_session, dispatch). *)
THEOREM OneShellPerTerminalHolds == Spec => []OneShellPerTerminal
  BY Inductive, OneShellFollows, PTL

-----------------------------------------------------------------------------
(* No create is dropped in silence: the invariant behind NoSilentRefusal.  *)

(* The fate of a terminal: a shell, a terminal-error, the end.             *)
Decided(t) == (\E p \in Pids : termOf[p] = t) \/ t \in refused \/ phase = "returned"

Creating(t) == disp.at = "spawn" /\ disp.kind = "create" /\ disp.term = t

(* A create of t is among the first n frames of the queue.                 *)
Queued(t, n) == \E i \in 1..n : inbox[i].kind = "create" /\ inbox[i].term = t

Answering(t, n) == Decided(t) \/ Creating(t) \/ Queued(t, n)

(* Only a started shell has a terminal.                                    *)
Named == \A p \in Pids : shell[p] = "none" => termOf[p] = None

(* What the browser says about a terminal after its create comes after it  *)
(* in the queue, and so finds it decided.                                  *)
RefusalInv ==
  /\ Named
  /\ \A t \in Terms : client[t] # "new" => Answering(t, Len(inbox))
  /\ \A i \in 1..Len(inbox) : inbox[i].kind # "create" => Answering(inbox[i].term, i - 1)
  /\ disp.at \in Busy /\ disp.kind # "create" => Decided(disp.term)

LEMMA NamedStep ==
  ASSUME TypeOK, Named, [Next]_vars
  PROVE  Named' /\ \A t \in Terms : Decided(t) => Decided(t)'
<1>1. CASE UNCHANGED <<shell, termOf>> /\ refused \subseteq refused' /\ (phase = "returned" => phase' = "returned")
  BY <1>1 DEF Named, Decided
<1>2. CASE ClientStep
  BY <1>1, <1>2 DEF ClientStep, CreateSession, ResendCreate, Write, CloseTab, ClientReceive,
                    ChannelCloses, shellVars
<1>3. CASE SpawnAtCap \/ SpawnFails
  BY <1>1, <1>3 DEF SpawnAtCap, SpawnFails, SpawnRefused, shellVars
<1>4. CASE Dispatch \/ SpawnPresent \/ SpawnInserts \/ Resend \/ SendDone \/ SendFails \/ DispatcherEnds
  BY <1>1, <1>4 DEF Dispatch, SpawnPresent, SpawnInserts, Resend, SendDone, SendFails, DispatcherEnds,
                    shellVars
<1>5. ASSUME NEW p \in Pids, SpawnForks(p)
      PROVE  Named' /\ \A t \in Terms : Decided(t) => Decided(t)'
  <2>1. /\ shell[p] = "none" /\ UNCHANGED phase
        /\ \A o \in Pids : shell'[o] = IF o = p THEN "running" ELSE shell[o]
        /\ \A o \in Pids : termOf'[o] = IF o = p THEN disp.term ELSE termOf[o]
    BY <1>5, ForkDoes
  <2>2. UNCHANGED refused
    BY <1>5 DEF SpawnForks, Fork
  <2>3. termOf[p] = None /\ None \notin Terms
    BY <2>1, PtyAssumption DEF Named
  <2> QED
    BY <2>1, <2>2, <2>3 DEF Named, Decided
<1>6. CASE CloseReaps
  <2>1. shell[disp.pid] = "exited" /\ UNCHANGED <<termOf, phase>>
        /\ \A o \in Pids : shell'[o] = IF o = disp.pid THEN "reaped" ELSE shell[o]
    BY <1>6, CloseReapsDoes
  <2>2. UNCHANGED refused
    BY <1>6 DEF CloseReaps
  <2> QED
    BY <2>1, <2>2 DEF Named, Decided
<1>7. ASSUME NEW p \in Pids, Leaves(p)
      PROVE  Named' /\ \A t \in Terms : Decided(t) => Decided(t)'
  <2>1. UNCHANGED <<termOf, phase>> /\ \A o \in Pids : shell'[o] = "none" <=> shell[o] = "none"
    BY <1>7, LeavesDoes
  <2>2. UNCHANGED refused
    BY <1>7 DEF Leaves, ShellDetaches, ShellExits
  <2> QED
    BY <2>1, <2>2 DEF Named, Decided
<1>8. ASSUME NEW p \in Pids, PumpReaps(p)
      PROVE  Named' /\ \A t \in Terms : Decided(t) => Decided(t)'
  <2>1. shell[pump[p].on] = "exited" /\ UNCHANGED <<termOf, phase>>
        /\ \A o \in Pids : shell'[o] = IF o = pump[p].on THEN "reaped" ELSE shell[o]
    BY <1>8, PumpReapsDoes
  <2>2. UNCHANGED refused
    BY <1>8 DEF PumpReaps
  <2> QED
    BY <2>1, <2>2 DEF Named, Decided
<1>9. CASE \E p \in Pids : WriterWrites(p) \/ WriterEnds(p) \/ PumpRemoves(p)
  BY <1>1, <1>9 DEF WriterWrites, WriterEnds, PumpRemoves, shellVars
<1>10. CASE SessionStep
  BY <1>1, <1>10 DEF SessionStep, WireCloses, EndSession, Return, EndAbruptly, shellVars
<1>11. CASE UNCHANGED vars
  BY <1>1, <1>11 DEF vars
<1> QED
  BY <1>2, <1>3, <1>4, <1>5, <1>6, <1>7, <1>8, <1>9, <1>10, <1>11
  DEF Next, DispatcherStep, ShellStep, Leaves

(* Steps that leave the queue alone: the create that was being served, if  *)
(* any, is decided, and the dispatcher takes up nothing undecided.         *)
LEMMA RefusalKept ==
  ASSUME TypeOK, RefusalInv, TypeOK', Named', \A t \in Terms : Decided(t) => Decided(t)',
         inbox' = inbox, \A t \in Terms : client'[t] # "new" => client[t] # "new",
         \A t \in Terms : Creating(t) => Creating(t)' \/ Decided(t)',
         \A t \in Terms : disp'.at \in Busy /\ disp'.kind # "create" /\ disp'.term = t => Decided(t)'
  PROVE  RefusalInv'
<1>1. \A t \in Terms : \A n : Answering(t, n) => Answering(t, n)'
  BY DEF Answering, Queued
<1>2. \A i \in 1..Len(inbox) : inbox[i].term \in Terms
  BY QueueLooks
<1>3. \A t \in Terms : client'[t] # "new" => Answering(t, Len(inbox))'
  BY <1>1 DEF RefusalInv
<1>4. \A i \in 1..Len(inbox), t \in Terms :
        inbox[i].kind # "create" /\ inbox[i].term = t => Answering(t, i - 1)'
  BY <1>1 DEF RefusalInv
<1>5. \A i \in 1..Len(inbox') : inbox'[i].kind # "create" => Answering(inbox[i].term, i - 1)'
  BY <1>2, <1>4
<1>6. disp'.at \in Busy => disp'.term \in Terms
  BY DEF TypeOK, Busy
<1>7. disp'.at \in Busy /\ disp'.kind # "create" => Decided(disp.term)'
  BY <1>6 DEF Decided
<1> QED
  BY <1>3, <1>5, <1>7 DEF RefusalInv

(* What the dispatcher does between taking a frame and its next.           *)
LEMMA ServingKept ==
  ASSUME TypeOK, Known, RefusalInv, [Next]_vars, DispatcherStep, ~Dispatch
  PROVE  RefusalInv'
<1>1. TypeOK' /\ Named' /\ \A t \in Terms : Decided(t) => Decided(t)'
  BY TypeStep, NamedStep DEF RefusalInv
<1>2. /\ disp \in [at : {"idle", "ended", "spawn", "insert", "resend", "send", "sendLast", "closing"},
               kind : {"create", "data", "close"}, term : Terms \cup {None}, pid : Pids \cup {None}]
      /\ disp.at = "spawn" => disp.term \in Terms
  BY DEF TypeOK
<1>3. disp.at \in Busy /\ disp.kind # "create" => Decided(disp.term)
  BY DEF RefusalInv
<1>a. ASSUME UNCHANGED <<inbox, client>>,
             \A t \in Terms : Creating(t) => Creating(t)' \/ Decided(t)',
             disp'.at \in Busy => disp.at \in Busy /\ disp'.kind = disp.kind /\ disp'.term = disp.term
      PROVE  RefusalInv'
  <2>1. \A t \in Terms : disp'.at \in Busy /\ disp'.kind # "create" /\ disp'.term = t => Decided(t)'
    BY <1>1, <1>3, <1>a
  <2> QED
    BY <1>1, <1>a, <2>1, RefusalKept
<1>4. CASE SpawnAtCap \/ SpawnFails
  <2>1. disp.at = "spawn" /\ SpawnRefused /\ UNCHANGED <<inbox, client>>
    BY <1>4 DEF SpawnAtCap, SpawnFails, clientVars
  <2>2. \A t \in Terms : Creating(t) => Decided(t)'
    BY <2>1 DEF SpawnRefused, Creating, Decided
  <2>3. disp'.at \notin Busy
    BY <2>1 DEF SpawnRefused, Idle, Busy
  <2> QED
    BY <1>a, <2>1, <2>2, <2>3
<1>5. CASE SpawnPresent
  <2>1. /\ disp.at = "spawn" /\ sessions[disp.term] # None
        /\ UNCHANGED <<inbox, client, termOf>>
        /\ disp' = IF disp.kind = "data" THEN [disp EXCEPT !.at = "resend"] ELSE Idle
    BY <1>5 DEF SpawnPresent, clientVars, shellVars
  <2>2. sessions[disp.term] \in Pids /\ termOf[sessions[disp.term]] = disp.term
    BY <1>2, <2>1 DEF TypeOK, Known
  <2>3. \A t \in Terms : Creating(t) => Decided(t)'
    BY <2>1, <2>2 DEF Creating, Decided
  <2>4. disp'.at \in Busy => disp.at \in Busy /\ disp'.kind = disp.kind /\ disp'.term = disp.term
    BY <1>2, <2>1 DEF Idle, Busy
  <2> QED
    BY <1>a, <2>1, <2>3, <2>4
<1>6. ASSUME NEW p \in Pids, SpawnForks(p) PROVE RefusalInv'
  <2>1. /\ disp.at = "spawn" /\ disp.term \in Terms /\ UNCHANGED <<inbox, client>>
        /\ termOf'[p] = disp.term
    BY <1>6, ForkDoes
  <2>a. disp' = [disp EXCEPT !.at = "insert", !.pid = p]
    BY <1>6 DEF SpawnForks, Fork
  <2>2. \A t \in Terms : Creating(t) => Decided(t)'
    BY <2>1 DEF Creating, Decided
  <2>3. disp.at \in Busy /\ disp'.kind = disp.kind /\ disp'.term = disp.term
    BY <1>2, <2>1, <2>a DEF Busy
  <2> QED
    BY <1>a, <2>1, <2>2, <2>3
<1>7. CASE SpawnInserts \/ Resend \/ SendDone \/ SendFails \/ CloseReaps \/ DispatcherEnds
  <2>1. /\ disp.at \in {"insert", "resend", "send", "sendLast", "closing", "idle"}
        /\ UNCHANGED <<inbox, client>>
    BY <1>7 DEF SpawnInserts, Resend, SendDone, SendFails, CloseReaps, DispatcherEnds, Sending, clientVars
  <2>2. \/ disp' = Idle \/ disp' = [Idle EXCEPT !.at = "ended"]
        \/ disp.at \in Busy /\ disp' = [disp EXCEPT !.at = "resend", !.pid = None]
        \/ disp.at \in Busy /\ disp' = [disp EXCEPT !.at = "sendLast", !.pid = sessions[disp.term]]
        \/ disp.at \in Busy /\ disp' = [disp EXCEPT !.at = "spawn", !.pid = None]
    BY <1>7 DEF SpawnInserts, Resend, SendDone, SendFails, Sending, CloseReaps, DispatcherEnds, Busy
  <2>3. \A t \in Terms : ~Creating(t)
    BY <2>1 DEF Creating
  <2>4. CASE disp' = Idle \/ disp' = [Idle EXCEPT !.at = "ended"]
    <3>1. disp'.at \notin Busy
      BY <2>4 DEF Idle, Busy
    <3> QED
      BY <1>a, <2>1, <2>3, <3>1
  <2>5. ASSUME NEW a, NEW p, disp.at \in Busy, disp' = [disp EXCEPT !.at = a, !.pid = p]
        PROVE  RefusalInv'
    <3>1. disp'.kind = disp.kind /\ disp'.term = disp.term
      BY <1>2, <2>5
    <3> QED
      BY <1>a, <2>1, <2>3, <2>5, <3>1
  <2> QED
    BY <2>2, <2>4, <2>5
<1> QED
  BY <1>4, <1>5, <1>6, <1>7 DEF DispatcherStep

(* The next frame: a create is being served from here on, and what follows *)
(* a create in the queue now follows it in the dispatcher.                 *)
LEMMA RefusalTaken ==
  ASSUME TypeOK, RefusalInv, [Next]_vars, Dispatch
  PROVE  RefusalInv'
<1> DEFINE f == Head(inbox)
<1>1. Named' /\ \A t \in Terms : Decided(t) => Decided(t)'
  BY NamedStep DEF RefusalInv
<1>2. /\ Len(inbox) \in Nat /\ Len(inbox) > 0 /\ Len(inbox') = Len(inbox) - 1 /\ f = inbox[1]
      /\ \A i \in 1..Len(inbox') : inbox'[i] = inbox[i + 1]
      /\ f.kind \in {"create", "data", "close"} /\ f.term \in Terms
      /\ \A i \in 1..Len(inbox) : inbox[i].term \in Terms
      /\ disp.at = "idle" /\ UNCHANGED client
  BY DispatchDoes, QueueLooks
<1>3. \A t \in Terms : ~Creating(t)
  BY <1>2 DEF Creating
<1>4. f.kind = "create" => disp'.at = "spawn" /\ disp'.kind = "create" /\ disp'.term = f.term
  BY DEF Dispatch
<1>5. disp'.at \in Busy => disp'.kind = f.kind /\ disp'.term = f.term
  BY <1>2 DEF Dispatch, Busy
<1>6. ASSUME NEW t \in Terms, NEW n \in 1..Len(inbox), Answering(t, n) PROVE Answering(t, n - 1)'
  <2>1. CASE Decided(t)
    BY <1>1, <2>1 DEF Answering
  <2>2. CASE Queued(t, n)
    <3>1. PICK i \in 1..n : inbox[i].kind = "create" /\ inbox[i].term = t
      BY <2>2 DEF Queued
    <3>2. CASE i = 1
      BY <1>2, <1>4, <3>1, <3>2 DEF Answering, Creating
    <3>3. CASE i # 1
      <4>1. i - 1 \in 1..(n - 1) /\ i - 1 \in 1..Len(inbox') /\ (i - 1) + 1 = i
        BY <1>2, <3>1, <3>3
      <4>2. inbox'[i - 1] = inbox[i]
        BY <1>2, <4>1
      <4> QED
        BY <3>1, <4>1, <4>2 DEF Answering, Queued
    <3> QED
      BY <3>2, <3>3
  <2> QED
    BY <1>3, <1>6, <2>1, <2>2 DEF Answering
<1>7. ASSUME NEW t \in Terms, client'[t] # "new" PROVE Answering(t, Len(inbox))'
  <2>1. PICK n \in 1..Len(inbox) : n = Len(inbox)
    BY <1>2
  <2>2. Answering(t, n) /\ n - 1 = Len(inbox')
    BY <1>2, <1>7, <2>1 DEF RefusalInv
  <2>3. Answering(t, n - 1)'
    BY <1>6, <2>2
  <2> QED
    BY <2>2, <2>3 DEF Answering
<1>8. ASSUME NEW i \in 1..Len(inbox'), NEW t \in Terms, inbox'[i].kind # "create", inbox'[i].term = t
      PROVE  Answering(t, i - 1)'
  <2>1. i + 1 \in 1..Len(inbox) /\ i \in 1..Len(inbox) /\ (i + 1) - 1 = i /\ inbox[i + 1] = inbox'[i]
    BY <1>2
  <2>2. Answering(inbox[i + 1].term, (i + 1) - 1)
    BY <1>8, <2>1 DEF RefusalInv
  <2>3. Answering(t, i)
    BY <1>8, <2>1, <2>2
  <2> QED
    BY <1>6, <2>1, <2>3
<1>9. ASSUME disp'.at \in Busy, disp'.kind # "create" PROVE Decided(disp.term)'
  <2>1. f.kind # "create" /\ f.term = inbox[1].term /\ disp'.term = f.term
    BY <1>2, <1>5, <1>9
  <2>2. Answering(inbox[1].term, 1 - 1)
    BY <1>2, <2>1 DEF RefusalInv
  <2>3. ~Queued(inbox[1].term, 1 - 1) /\ ~Creating(inbox[1].term)
    BY <1>2, <1>3 DEF Queued
  <2>4. PICK t \in Terms : t = inbox[1].term
    BY <1>2
  <2>5. Decided(t)'
    BY <1>1, <2>2, <2>3, <2>4 DEF Answering
  <2> QED
    BY <2>1, <2>4, <2>5 DEF Decided
<1>10. \A i \in 1..Len(inbox') : inbox'[i].term \in Terms
  <2>1. \A i \in 1..Len(inbox') : i + 1 \in 1..Len(inbox)
    BY <1>2
  <2> QED
    BY <1>2, <2>1
<1>11. \A i \in 1..Len(inbox') : inbox'[i].kind # "create" => Answering(inbox[i].term, i - 1)'
  BY <1>8, <1>10
<1> QED
  BY <1>1, <1>7, <1>9, <1>11 DEF RefusalInv

(* The browser says something about a terminal: its create first.          *)
LEMMA RefusalSaid ==
  ASSUME TypeOK, RefusalInv, [Next]_vars, NEW t \in Terms, NEW k \in {"create", "data", "close"},
         inbox' = Append(inbox, Frame(k, t)), k = "create" \/ client[t] # "new",
         \A s \in Terms \ {t} : client'[s] = client[s], UNCHANGED disp
  PROVE  RefusalInv'
<1>1. Named' /\ \A s \in Terms : Decided(s) => Decided(s)'
  BY NamedStep DEF RefusalInv
<1>2. /\ Len(inbox) \in Nat /\ Len(inbox') = Len(inbox) + 1
      /\ \A i \in 1..Len(inbox) : inbox'[i] = inbox[i] /\ inbox[i].term \in Terms
      /\ inbox'[Len(inbox) + 1].kind = k /\ inbox'[Len(inbox) + 1].term = t
  BY QueueLooks
<1>3. ASSUME NEW s \in Terms, NEW n \in 0..Len(inbox), Answering(s, n)
      PROVE  Answering(s, n)' /\ Answering(s, n + 1)'
  <2>1. \A i \in 1..n : i \in 1..Len(inbox) /\ i \in 1..(n + 1)
    BY <1>2
  <2> QED
    BY <1>1, <1>2, <1>3, <2>1 DEF Answering, Queued, Creating
<1>4. PICK m \in 0..Len(inbox) : m = Len(inbox)
  BY <1>2
<1>5. \A s \in Terms : client[s] # "new" => Answering(s, m)
  BY <1>4 DEF RefusalInv
<1>6. k = "create" => Queued(t, m + 1)'
  BY <1>2, <1>4 DEF Queued
<1>7. ASSUME NEW s \in Terms, client'[s] # "new" PROVE Answering(s, Len(inbox))'
  <2>1. Answering(s, m + 1)'
    BY <1>3, <1>5, <1>6, <1>7 DEF Answering
  <2>2. m + 1 = Len(inbox')
    BY <1>2, <1>4
  <2> QED
    BY <2>1, <2>2 DEF Answering
<1>8. ASSUME NEW i \in 1..Len(inbox'), inbox'[i].kind # "create"
      PROVE  Answering(inbox[i].term, i - 1)'
  <2>1. CASE i \in 1..Len(inbox)
    <3>1. PICK s \in Terms : s = inbox[i].term /\ s = inbox'[i].term
      BY <1>2, <2>1
    <3>2. Answering(s, i - 1)
      BY <1>2, <1>8, <2>1, <3>1 DEF RefusalInv
    <3>3. i - 1 \in 0..Len(inbox)
      BY <1>2, <2>1
    <3>4. Answering(s, i - 1)'
      BY <1>3, <3>2, <3>3
    <3> QED
      BY <3>1, <3>4
  <2>2. CASE i = m + 1
    <3>1. k # "create" /\ inbox'[i].term = t /\ i - 1 = m
      BY <1>2, <1>4, <1>8, <2>2
    <3>2. Answering(t, m)'
      BY <1>3, <1>5, <3>1
    <3> QED
      BY <3>1, <3>2
  <2> QED
    BY <1>2, <1>4, <2>1, <2>2
<1>9. disp'.at \in Busy /\ disp'.kind # "create" => Decided(disp.term)'
  <2> SUFFICES ASSUME disp.at \in Busy, disp.kind # "create" PROVE Decided(disp.term)'
    OBVIOUS
  <2>1. disp.term \in Terms /\ Decided(disp.term)
    BY DEF TypeOK, Busy, RefusalInv
  <2>2. PICK s \in Terms : s = disp.term
    BY <2>1
  <2> QED
    BY <1>1, <2>1, <2>2 DEF Decided
<1> QED
  BY <1>1, <1>7, <1>8, <1>9 DEF RefusalInv

LEMMA RefusalStep ==
  ASSUME TypeOK, Known, RefusalInv, [Next]_vars
  PROVE  RefusalInv'
<1>1. TypeOK' /\ Named' /\ \A t \in Terms : Decided(t) => Decided(t)'
  BY TypeStep, NamedStep DEF RefusalInv
<1>2. DOMAIN client = Terms
  BY DEF TypeOK
<1>a. ASSUME UNCHANGED <<inbox, disp>>, \A t \in Terms : client'[t] # "new" => client[t] # "new"
      PROVE  RefusalInv'
  <2>1. \A t \in Terms : Creating(t) => Creating(t)'
    BY <1>a DEF Creating
  <2>2. \A t \in Terms : disp'.at \in Busy /\ disp'.kind # "create" /\ disp'.term = t => Decided(t)'
    BY <1>1, <1>a DEF RefusalInv
  <2> QED
    BY <1>1, <1>a, <2>1, <2>2, RefusalKept
<1>3. ASSUME NEW t \in Terms, CreateSession(t) PROVE RefusalInv'
  <2>1. inbox' = Append(inbox, Frame("create", t)) /\ \A s \in Terms \ {t} : client'[s] = client[s]
    BY <1>2, <1>3 DEF CreateSession, Send
  <2>2. UNCHANGED disp
    BY <1>3 DEF CreateSession
  <2> QED
    BY <2>1, <2>2, RefusalSaid
<1>4. ASSUME NEW t \in Terms, ResendCreate(t) \/ Write(t) \/ CloseTab(t) PROVE RefusalInv'
  <2>1. /\ \E k \in {"create", "data", "close"} : inbox' = Append(inbox, Frame(k, t))
        /\ client[t] # "new" /\ \A s \in Terms \ {t} : client'[s] = client[s]
        /\ UNCHANGED disp
    BY <1>2, <1>4 DEF ResendCreate, Write, CloseTab, Send
  <2> QED
    BY <2>1, RefusalSaid
<1>5. CASE ClientReceive
  <2>1. UNCHANGED <<inbox, disp>> /\ \A t \in Terms : client'[t] = "exited" \/ client'[t] = client[t]
    BY <1>5 DEF ClientReceive
  <2>2. \A t \in Terms : client'[t] # client[t] => client[t] = "open"
    BY <1>5 DEF ClientReceive
  <2> QED
    BY <1>a, <2>1, <2>2
<1>6. CASE ChannelCloses
  BY <1>6, <1>a DEF ChannelCloses, clientVars
<1>7. CASE DispatcherStep
  BY <1>7, ServingKept, RefusalTaken
<1>8. CASE \E p \in Pids : ShellStep(p)
  BY <1>8, <1>a DEF ShellStep, ShellDetaches, ShellExits, WriterWrites, WriterEnds, PumpRemoves, PumpReaps, clientVars
<1>9. CASE WireCloses \/ EndSession \/ EndAbruptly
  BY <1>9, <1>a DEF WireCloses, EndSession, EndAbruptly, clientVars
<1>10. CASE Return
  <2>1. phase' = "returned"
    BY <1>10 DEF Return
  <2> QED
    BY <1>1, <2>1 DEF RefusalInv, Answering, Decided
<1>11. CASE UNCHANGED vars
  BY <1>11, <1>a DEF vars, clientVars
<1> QED
  BY <1>3, <1>4, <1>5, <1>6, <1>7, <1>8, <1>9, <1>10, <1>11 DEF Next, ClientStep, SessionStep

(* Once the dispatcher is past the create of a terminal, a shell was       *)
(* started for it or the browser was sent a terminal-error: neither the    *)
(* cap nor a failed spawn, nor a keystroke's implicit spawn that fails,    *)
(* leaves a terminal blank (main.rs handle_inbound, spawn_session).        *)
THEOREM NoSilentRefusalHolds == Spec => []NoSilentRefusal
<1>1. Init => IInv /\ RefusalInv
  <2> SUFFICES ASSUME Init PROVE RefusalInv
    BY InductiveInit
  <2>1. /\ \A t \in Terms : client[t] = "new"
        /\ inbox = <<>> /\ disp.at = "idle"
        /\ \A p \in Pids : termOf[p] = None
    BY DEF Init, Idle
  <2> QED
    BY <2>1 DEF RefusalInv, Named, Busy
<1>2. IInv /\ RefusalInv /\ [Next]_vars => (IInv /\ RefusalInv)'
  BY InductiveStep, RefusalStep DEF IInv
<1>3. IInv /\ RefusalInv => NoSilentRefusal
  <2> SUFFICES ASSUME IInv, RefusalInv, NEW t \in Terms, client[t] # "new", phase # "returned",
                      ~(disp.at = "spawn" /\ disp.term = t), t \notin refused,
                      \A p \in Pids : termOf[p] # t
               PROVE  \E i \in 1..Len(inbox) : inbox[i] = Frame("create", t)
    BY DEF NoSilentRefusal
  <2>1. PICK i \in 1..Len(inbox) : inbox[i].kind = "create" /\ inbox[i].term = t
    BY DEF RefusalInv, Answering, Decided, Creating, Queued
  <2>2. inbox[i] \in InFrame
    BY ElementOfSeq DEF IInv, TypeOK
  <2> QED
    BY <2>1, <2>2 DEF InFrame, Frame
<1> QED
  BY <1>1, <1>2, <1>3, PTL DEF Spec

===============================================================================
