------------------------------ MODULE PtyManager ------------------------------
(***************************************************************************)
(* The terminal multiplexer of the agent (apps/agent/src/main.rs, pty.rs)  *)
(* together with the browser half that drives it (packages/terminal-core). *)
(*                                                                         *)
(* One WebRTC session carries up to MaxSessions shells over one ordered    *)
(* data channel.  Five kinds of activity share the state:                  *)
(*                                                                         *)
(*   - the browser, which creates, writes to and closes terminals;         *)
(*   - the dispatcher task, the only reader of the inbound frames;         *)
(*   - one pump task per shell, which frees the slot and waits for the     *)
(*     child at end of output;                                             *)
(*   - one writer thread per shell, which feeds stdin and ends it when     *)
(*     every sender of the input channel is gone;                          *)
(*   - the session loop, which tears everything down.                      *)
(*                                                                         *)
(* The tokio mutex around the map is held for single operations only, so   *)
(* every lookup, insertion and removal is a step of its own.               *)
(***************************************************************************)
EXTENDS Naturals, Sequences, FiniteSets

CONSTANTS
  Terms,        \* terminal ids; the browser draws a fresh UUID per session
  Pids,         \* the shells that can be started (bound on spawns)
  MaxSessions,  \* PtyManager::new(10)
  InputCap,     \* capacity of a shell's input channel (64 in the code)
  Workers,      \* worker threads of the tokio runtime (one per core)
  QueueCap,     \* bound on the frames in flight to the dispatcher
  MaxKeys,      \* bound on the keystroke (and repeated) frames of a terminal
  Retransmit,   \* TRUE: the peer may repeat a terminal-create
  None          \* no shell

ASSUME PtyAssumption ==
  /\ IsFiniteSet(Terms)
  /\ IsFiniteSet(Pids)
  /\ None \notin Terms \cup Pids
  /\ {MaxSessions, InputCap, Workers, QueueCap} \subseteq Nat \ {0}
  /\ MaxKeys \in Nat
  /\ Retransmit \in BOOLEAN

VARIABLES
  client,    \* TerminalSession.state, as far as write() and close() read it
  keys,      \* keystroke and repeated frames sent per terminal (a bound only)
  chan,      \* the data channel
  inbox,     \* channel events and dispatch_rx: frames the dispatcher will read
  disp,      \* the dispatcher task
  sessions,  \* PtyManager.sessions
  shell,     \* the child processes: detached ones run on without their terminal
  termOf,    \* the terminal a shell was started for
  input,     \* chunks waiting in a shell's input channel
  writer,    \* the writer threads
  pump,      \* the pump tasks
  wire,      \* whether frame_rx still has its consumer
  frames,    \* frames on their way to the browser
  phase,     \* the session loop
  refused    \* history: terminals the browser was sent a terminal-error for

clientVars == <<client, keys>>
shellVars  == <<shell, termOf, input, writer>>
vars == <<client, keys, chan, inbox, disp, sessions, shell, termOf, input,
          writer, pump, wire, frames, phase, refused>>

-----------------------------------------------------------------------------
(* Frames and helpers.                                                     *)

InFrame  == [kind : {"create", "data", "close"}, term : Terms]
OutFrame == [kind : {"exit", "error"}, term : Terms]

Frame(k, t) == [kind |-> k, term |-> t]

Idle == [at |-> "idle", kind |-> "close", term |-> None, pid |-> None]

Slots    == {t \in Terms : sessions[t] # None}
InMap(p) == \E t \in Terms : sessions[t] = p

\* The shells that hold their terminal; a child may also run on without it.
Running  == {p \in Pids : shell[p] = "running"}
Alive    == {p \in Pids : shell[p] \in {"running", "detached"}}
Fresh    == {p \in Pids : shell[p] = "none"}

\* Whoever owns a shell's ActivePty keeps its input_tx alive: the map, the
\* dispatcher between spawn and insert or inside close_session, or the pump
\* that took the entry out and is waiting for the child.
Owned(p) ==
  \/ InMap(p)
  \/ disp.at \in {"insert", "closing"} /\ disp.pid = p
  \/ \E o \in Pids : pump[o].at = "waiting" /\ pump[o].on = p

\* send_input clones the sender for the duration of the send.
Sending == disp.at \in {"send", "sendLast"}

StdinOpen(p) == Owned(p) \/ (Sending /\ disp.pid = p)

\* wait_child is a blocking call made from a task: a task that waits for a
\* child that still runs occupies a worker thread of the runtime.
BlockedTasks ==
  {o \in Pids : pump[o].at = "waiting" /\ pump[o].on \in Alive}
    \cup IF disp.at = "closing" /\ disp.pid \in Alive THEN {None} ELSE {}

WorkerFree == Cardinality(BlockedTasks) < Workers

\* A frame handed to the wire; a send after the consumer is gone is ignored.
Emit(f) == frames' = IF wire = "open" THEN Append(frames, f) ELSE frames

Init ==
  /\ client   = [t \in Terms |-> "new"]
  /\ keys     = [t \in Terms |-> 0]
  /\ chan     = "open"
  /\ inbox    = <<>>
  /\ disp     = Idle
  /\ sessions = [t \in Terms |-> None]
  /\ shell    = [p \in Pids |-> "none"]
  /\ termOf   = [p \in Pids |-> None]
  /\ input    = [p \in Pids |-> 0]
  /\ writer   = [p \in Pids |-> "none"]
  /\ pump     = [p \in Pids |-> [at |-> "none", on |-> None]]
  /\ wire     = "open"
  /\ frames   = <<>>
  /\ phase    = "running"
  /\ refused  = {}

-----------------------------------------------------------------------------
(* The browser.  The channel is ordered and reliable while it is open.     *)

Send(k, t) ==
  /\ chan = "open"
  /\ Len(inbox) < QueueCap
  /\ inbox' = Append(inbox, Frame(k, t))

\* TerminalClient.createSession
CreateSession(t) ==
  /\ client[t] = "new"
  /\ Send("create", t)
  /\ client' = [client EXCEPT ![t] = "open"]
  /\ UNCHANGED <<keys, chan, disp, sessions, shellVars, pump, wire, frames, phase, refused>>

\* A peer that retransmits the terminal-create of a terminal it still uses,
\* as the doc of spawn_session expects; terminal-core never does.
ResendCreate(t) ==
  /\ Retransmit
  /\ client[t] = "open"
  /\ keys[t] < MaxKeys
  /\ Send("create", t)
  /\ keys' = [keys EXCEPT ![t] = @ + 1]
  /\ UNCHANGED <<client, chan, disp, sessions, shellVars, pump, wire, frames, phase, refused>>

\* TerminalSession.write: ignored once the terminal has exited or closed.
Write(t) ==
  /\ client[t] = "open"
  /\ keys[t] < MaxKeys
  /\ Send("data", t)
  /\ keys' = [keys EXCEPT ![t] = @ + 1]
  /\ UNCHANGED <<client, chan, disp, sessions, shellVars, pump, wire, frames, phase, refused>>

\* TerminalSession.close and TerminalClient.closeSession: one close frame,
\* from an open terminal and from an exited one alike.
CloseTab(t) ==
  /\ client[t] \in {"open", "exited"}
  /\ Send("close", t)
  /\ client' = [client EXCEPT ![t] = "closed"]
  /\ UNCHANGED <<keys, chan, disp, sessions, shellVars, pump, wire, frames, phase, refused>>

\* TerminalClient.handleMessage: an exit ends writing; an error does not.
ClientReceive ==
  /\ chan = "open"
  /\ frames # <<>>
  /\ frames' = Tail(frames)
  /\ client' = [t \in Terms |->
                  IF Head(frames) = Frame("exit", t) /\ client[t] = "open"
                  THEN "exited" ELSE client[t]]
  /\ UNCHANGED <<keys, chan, inbox, disp, sessions, shellVars, pump, wire, phase, refused>>

\* The browser closes the channel, or the connection fails.
ChannelCloses ==
  /\ chan = "open"
  /\ chan' = "closed"
  /\ UNCHANGED <<clientVars, inbox, disp, sessions, shellVars, pump, wire, frames, phase, refused>>

-----------------------------------------------------------------------------
(* The dispatcher task.                                                    *)

\* Mutant: a close looks its entry up instead of taking it out.
Dispatch_KeepsEntry ==
  /\ WorkerFree
  /\ disp.at = "idle"
  /\ inbox # <<>>
  /\ inbox' = Tail(inbox)
  /\ LET f == Head(inbox)
         p == sessions[f.term]
         next == CASE f.kind = "close" -> "closing"
                   [] f.kind = "data" /\ p # None -> "send"
                   [] OTHER -> "spawn"
     IN  disp' = IF f.kind = "close" /\ p = None THEN disp
                 ELSE [at |-> next, kind |-> f.kind, term |-> f.term, pid |-> p]
  /\ UNCHANGED <<clientVars, chan, sessions, shellVars, pump, wire, frames, phase, refused>>

\* dispatch_rx.recv() and the first thing each kind of frame does under the
\* lock: a create goes on to spawn_session, data looks its session up, a
\* close takes the entry out and starts to wait for the child.
Dispatch ==
  /\ WorkerFree
  /\ disp.at = "idle"
  /\ inbox # <<>>
  /\ inbox' = Tail(inbox)
  /\ LET f == Head(inbox)
         p == sessions[f.term]
         Go(at) == [at |-> at, kind |-> f.kind, term |-> f.term, pid |-> p]
     IN  \/ /\ f.kind = "create" \/ (f.kind = "data" /\ p = None)
            /\ disp' = [Go("spawn") EXCEPT !.pid = None]
            /\ UNCHANGED sessions
         \/ /\ f.kind = "data" /\ p # None
            /\ disp' = Go("send")
            /\ UNCHANGED sessions
         \/ /\ f.kind = "close" /\ p # None
            /\ disp' = Go("closing")
            /\ sessions' = [sessions EXCEPT ![f.term] = None]
         \/ /\ f.kind = "close" /\ p = None
            /\ UNCHANGED <<disp, sessions>>
  /\ UNCHANGED <<clientVars, chan, shellVars, pump, wire, frames, phase, refused>>

\* Mutant: the refusal is only logged.
SpawnRefused_Silent == disp' = Idle /\ UNCHANGED <<frames, refused>>

\* A refused or failed spawn: a create reports it to the browser, a
\* keystroke's implicit spawn only logs it.
SpawnRefused ==
  /\ disp' = Idle
  /\ IF disp.kind = "create"
     THEN /\ Emit(Frame("error", disp.term))
          /\ refused' = refused \cup {disp.term}
     ELSE UNCHANGED <<frames, refused>>

\* spawn_session refuses at the cap, before it looks for the id.
SpawnAtCap ==
  /\ WorkerFree
  /\ disp.at = "spawn"
  /\ Cardinality(Slots) >= MaxSessions
  /\ SpawnRefused
  /\ UNCHANGED <<clientVars, chan, inbox, sessions, shellVars, pump, wire, phase>>

\* openpty or the shell itself fails.
SpawnFails ==
  /\ WorkerFree
  /\ disp.at = "spawn"
  /\ Cardinality(Slots) < MaxSessions
  /\ sessions[disp.term] = None
  /\ SpawnRefused
  /\ UNCHANGED <<clientVars, chan, inbox, sessions, shellVars, pump, wire, phase>>

\* The id is already there: Ok(()) and nothing done.
SpawnPresent ==
  /\ WorkerFree
  /\ disp.at = "spawn"
  /\ Cardinality(Slots) < MaxSessions
  /\ sessions[disp.term] # None
  /\ disp' = IF disp.kind = "data" THEN [disp EXCEPT !.at = "resend"] ELSE Idle
  /\ UNCHANGED <<clientVars, chan, inbox, sessions, shellVars, pump, wire, frames, phase, refused>>

\* What a started shell changes.  Which name a new shell gets does not matter.
Fork(p) ==
  /\ p \in Fresh
  /\ p = CHOOSE q \in Fresh : TRUE
  /\ shell'  = [shell EXCEPT ![p] = "running"]
  /\ termOf' = [termOf EXCEPT ![p] = disp.term]
  /\ writer' = [writer EXCEPT ![p] = "on"]
  /\ pump'   = [pump EXCEPT ![p].at = "reading"]
  /\ disp'   = [disp EXCEPT !.at = "insert", !.pid = p]
  /\ UNCHANGED <<clientVars, chan, inbox, sessions, input, wire, frames, phase, refused>>

\* Mutant: the cap is compared with > instead of >=.
SpawnForks_OffByOne(p) ==
  /\ WorkerFree
  /\ disp.at = "spawn"
  /\ Cardinality(Slots) <= MaxSessions
  /\ sessions[disp.term] = None
  /\ Fork(p)

\* Mutant: the presence of the id is not checked.
SpawnForks_Unchecked(p) ==
  /\ WorkerFree
  /\ disp.at = "spawn"
  /\ Cardinality(Slots \ {disp.term}) < MaxSessions
  /\ Fork(p)

\* The child runs and its pump is spawned; the map does not know it yet.
SpawnForks(p) ==
  /\ WorkerFree
  /\ disp.at = "spawn"
  /\ Cardinality(Slots) < MaxSessions
  /\ sessions[disp.term] = None
  /\ Fork(p)

\* The second, separate acquisition of the lock in spawn_session.
SpawnInserts ==
  /\ WorkerFree
  /\ disp.at = "insert"
  /\ sessions' = [sessions EXCEPT ![disp.term] = disp.pid]
  /\ disp' = IF disp.kind = "data" THEN [disp EXCEPT !.at = "resend", !.pid = None] ELSE Idle
  /\ UNCHANGED <<clientVars, chan, inbox, shellVars, pump, wire, frames, phase, refused>>

\* After an implicit spawn the same bytes are sent again, once.
Resend ==
  /\ WorkerFree
  /\ disp.at = "resend"
  /\ disp' = IF sessions[disp.term] = None THEN Idle
             ELSE [disp EXCEPT !.at = "sendLast", !.pid = sessions[disp.term]]
  /\ UNCHANGED <<clientVars, chan, inbox, sessions, shellVars, pump, wire, frames, phase, refused>>

\* Mutant: the bounded channel is replaced by an unbounded one.
SendDone_Unbounded ==
  /\ WorkerFree
  /\ Sending
  /\ writer[disp.pid] = "on"
  /\ input' = [input EXCEPT ![disp.pid] = @ + 1]
  /\ disp' = Idle
  /\ UNCHANGED <<clientVars, chan, inbox, sessions, shell, termOf, writer, pump, wire, frames, phase, refused>>

\* input_tx.send completes when the channel has room ...
SendDone ==
  /\ WorkerFree
  /\ Sending
  /\ writer[disp.pid] = "on"
  /\ input[disp.pid] < InputCap
  /\ input' = [input EXCEPT ![disp.pid] = @ + 1]
  /\ disp' = Idle
  /\ UNCHANGED <<clientVars, chan, inbox, sessions, shell, termOf, writer, pump, wire, frames, phase, refused>>

\* ... and fails once the writer thread has dropped its end: the first
\* failure leads to an implicit spawn, the second is ignored.
SendFails ==
  /\ WorkerFree
  /\ Sending
  /\ writer[disp.pid] = "gone"
  /\ disp' = IF disp.at = "send" THEN [disp EXCEPT !.at = "spawn", !.pid = None] ELSE Idle
  /\ UNCHANGED <<clientVars, chan, inbox, sessions, shellVars, pump, wire, frames, phase, refused>>

\* close_session returns when the child has exited.  It holds the ActivePty,
\* and with it input_tx, until then.
CloseReaps ==
  /\ disp.at = "closing"
  /\ shell[disp.pid] = "exited"
  /\ shell' = [shell EXCEPT ![disp.pid] = "reaped"]
  /\ disp' = Idle
  /\ UNCHANGED <<clientVars, chan, inbox, sessions, termOf, input, writer, pump, wire, frames, phase, refused>>

\* dispatch_rx.recv() returns None: every sender is gone, the queue is drained.
DispatcherEnds ==
  /\ WorkerFree
  /\ disp.at = "idle"
  /\ inbox = <<>>
  /\ phase = "returned"
  /\ chan = "closed"
  /\ disp' = [Idle EXCEPT !.at = "ended"]
  /\ UNCHANGED <<clientVars, chan, inbox, sessions, shellVars, pump, wire, frames, phase, refused>>

-----------------------------------------------------------------------------
(* Shells, writer threads and pump tasks.                                  *)

\* A child may give up its terminal and run on: no process holds the slave end
\* any more, so reads of the master end and writes to it fail.
ShellDetaches(p) ==
  /\ shell[p] = "running"
  /\ shell' = [shell EXCEPT ![p] = "detached"]
  /\ UNCHANGED <<clientVars, chan, inbox, disp, sessions, termOf, input, writer, pump, wire, frames, phase, refused>>

\* A child may exit whenever it likes.  The exit of the shell hangs up its
\* terminal, whoever else had it open.
ShellExits(p) ==
  /\ p \in Alive
  /\ shell' = [shell EXCEPT ![p] = "exited"]
  /\ UNCHANGED <<clientVars, chan, inbox, disp, sessions, termOf, input, writer, pump, wire, frames, phase, refused>>

\* write_all returns: the PTY took a chunk.  It may never do, since a shell
\* that does not read leaves the PTY full.
WriterWrites(p) ==
  /\ writer[p] = "on"
  /\ input[p] > 0
  /\ input' = [input EXCEPT ![p] = @ - 1]
  /\ UNCHANGED <<clientVars, chan, inbox, disp, sessions, shell, termOf, writer, pump, wire, frames, phase, refused>>

\* Mutant: the writer thread polls and never notices that its senders left.
WriterEnds_NeverIdle(p) ==
  /\ writer[p] = "on"
  /\ input[p] > 0 /\ shell[p] # "running"
  /\ writer' = [writer EXCEPT ![p] = "gone"]
  /\ input' = [input EXCEPT ![p] = 0]
  /\ UNCHANGED <<clientVars, chan, inbox, disp, sessions, shell, termOf, pump, wire, frames, phase, refused>>

\* The writer thread ends: every sender dropped and the queue drained, or a
\* write failed because nobody holds the terminal (what was queued is lost).
WriterEnds(p) ==
  /\ writer[p] = "on"
  /\ \/ input[p] = 0 /\ ~StdinOpen(p)
     \/ input[p] > 0 /\ shell[p] # "running"
  /\ writer' = [writer EXCEPT ![p] = "gone"]
  /\ input' = [input EXCEPT ![p] = 0]
  /\ UNCHANGED <<clientVars, chan, inbox, disp, sessions, shell, termOf, pump, wire, frames, phase, refused>>

\* A shell that honours end-of-file exits once its stdin has ended.
ExitsOnEof(p) == writer[p] = "gone" /\ shell[p] = "running" /\ ShellExits(p)

\* The pump's loop is over -- the reader met the end of output or an error, or
\* the frame consumer is gone -- and it takes the entry of its terminal id out
\* of the map, whichever shell that entry belongs to and whether or not that
\* child still runs.  With no entry there is nothing to wait for.
PumpRemoves(p) ==
  /\ WorkerFree
  /\ pump[p].at = "reading"
  /\ shell[p] # "running" \/ wire = "closed"
  /\ LET t == termOf[p]
         q == sessions[t]
     IN  /\ sessions' = [sessions EXCEPT ![t] = None]
         /\ IF q = None
            THEN /\ pump' = [pump EXCEPT ![p].at = "done"]
                 /\ Emit(Frame("exit", t))
            ELSE /\ pump' = [pump EXCEPT ![p] = [at |-> "waiting", on |-> q]]
                 /\ UNCHANGED frames
  /\ UNCHANGED <<clientVars, chan, inbox, disp, shellVars, wire, phase, refused>>

\* wait_child returns, the exit frame goes out and the ActivePty is dropped.
PumpReaps(p) ==
  /\ pump[p].at = "waiting"
  /\ shell[pump[p].on] = "exited"
  /\ shell' = [shell EXCEPT ![pump[p].on] = "reaped"]
  /\ pump' = [pump EXCEPT ![p].at = "done"]
  /\ Emit(Frame("exit", termOf[p]))
  /\ UNCHANGED <<clientVars, chan, inbox, disp, sessions, termOf, input, writer, wire, phase, refused>>

-----------------------------------------------------------------------------
(* The session loop and the frame consumer.                                *)

\* dc.send_text fails on a closed channel: the consumer drops frame_rx.
WireCloses ==
  /\ WorkerFree
  /\ wire = "open"
  /\ chan = "closed"
  /\ wire' = "closed"
  /\ frames' = <<>>
  /\ UNCHANGED <<clientVars, chan, inbox, disp, sessions, shellVars, pump, phase, refused>>

\* The loop breaks (channel closed, consumer gone, one-hour cap, shutdown)
\* and close_all clears the map.
EndSession ==
  /\ WorkerFree
  /\ phase = "running"
  /\ phase' = "torn"
  /\ sessions' = [t \in Terms |-> None]
  /\ UNCHANGED <<clientVars, chan, inbox, disp, shellVars, pump, wire, frames, refused>>

\* The event task is aborted, the peer closed and dispatch_tx dropped: what
\* has not reached dispatch_rx is lost, the rest is still dispatched.
Return ==
  /\ WorkerFree
  /\ phase = "torn"
  /\ phase' = "returned"
  /\ chan' = "closed"
  /\ \E n \in 0..Len(inbox) : inbox' = SubSeq(inbox, 1, n)
  /\ UNCHANGED <<clientVars, disp, sessions, shellVars, pump, wire, frames, refused>>

\* route_inbound fails (a candidate the peer rejects) and `?` leaves the
\* function without close_all.
EndAbruptly ==
  /\ WorkerFree
  /\ phase = "running"
  /\ phase' = "returned"
  /\ UNCHANGED <<clientVars, chan, inbox, disp, sessions, shellVars, pump, wire, frames, refused>>

-----------------------------------------------------------------------------

ClientStep ==
  \/ \E t \in Terms : CreateSession(t) \/ ResendCreate(t) \/ Write(t) \/ CloseTab(t)
  \/ ClientReceive
  \/ ChannelCloses

DispatcherStep ==
  \/ Dispatch
  \/ SpawnAtCap
  \/ SpawnFails
  \/ SpawnPresent
  \/ \E p \in Pids : SpawnForks(p)
  \/ SpawnInserts
  \/ Resend
  \/ SendDone
  \/ SendFails
  \/ CloseReaps
  \/ DispatcherEnds

ShellStep(p) ==
  \/ ShellDetaches(p)
  \/ ShellExits(p)
  \/ WriterWrites(p)
  \/ WriterEnds(p)
  \/ PumpRemoves(p)
  \/ PumpReaps(p)

SessionStep == WireCloses \/ EndSession \/ Return \/ EndAbruptly

Next ==
  \/ ClientStep
  \/ DispatcherStep
  \/ \E p \in Pids : ShellStep(p)
  \/ SessionStep

Spec == Init /\ [][Next]_vars

\* The end of the output of p: a pump of a silent shell may wait for ever.
OutputEnds(p) == shell[p] # "running" /\ PumpRemoves(p)

\* Every task and thread that can run does run; the session loop notices a
\* closed channel; a shell exits at end-of-file.  The browser owes nothing
\* but to read what arrives, and no shell owes an exit or a read of its stdin
\* of its own accord, so a write to the PTY may block for ever.
Fairness ==
  /\ WF_vars(DispatcherStep)
  /\ WF_vars(ClientReceive)
  /\ \A p \in Pids : /\ WF_vars(WriterEnds(p))
                     /\ WF_vars(OutputEnds(p) \/ PumpReaps(p))
                     /\ WF_vars(ExitsOnEof(p))
  /\ WF_vars(WireCloses)
  /\ WF_vars(chan = "closed" /\ EndSession)
  /\ WF_vars(Return)

FairSpec == Spec /\ Fairness

-----------------------------------------------------------------------------
(* Properties.                                                             *)

\* Every variable has its type; the dispatcher names a terminal or a shell
\* exactly in the places of spawn_session, send_input and close_session that
\* use one.
TypeOK ==
  /\ client \in [Terms -> {"new", "open", "exited", "closed"}]
  /\ keys \in [Terms -> 0..MaxKeys]
  /\ chan \in {"open", "closed"}
  /\ inbox \in Seq(InFrame)
  /\ disp \in [at : {"idle", "ended", "spawn", "insert", "resend", "send", "sendLast", "closing"},
               kind : {"create", "data", "close"},
               term : Terms \cup {None},
               pid : Pids \cup {None}]
  /\ disp.at \notin {"idle", "ended"} => disp.term \in Terms
  /\ disp.at \in {"insert", "send", "sendLast", "closing"} => disp.pid \in Pids
  /\ sessions \in [Terms -> Pids \cup {None}]
  /\ shell \in [Pids -> {"none", "running", "detached", "exited", "reaped"}]
  /\ termOf \in [Pids -> Terms \cup {None}]
  /\ input \in [Pids -> 0..InputCap]
  /\ writer \in [Pids -> {"none", "on", "gone"}]
  /\ pump \in [Pids -> [at : {"none", "reading", "waiting", "done"}, on : Pids \cup {None}]]
  /\ \A p \in Pids : pump[p].at = "waiting" => pump[p].on \in Pids
  /\ \A p \in Pids : pump[p].at # "none" => termOf[p] \in Terms
  /\ wire \in {"open", "closed"}
  /\ frames \in Seq(OutFrame)
  /\ phase \in {"running", "torn", "returned"}
  /\ refused \subseteq Terms

\* The host never has more shells on their terminals than the cap while the
\* session is served, although entries leave the map before their child is
\* gone (close_session and the pump both remove first and wait afterwards).  A
\* child that gave up its terminal is not counted: AtMostMaxShells is false.
CapHolds ==
  phase = "running" /\ wire = "open" => Cardinality(Running) <= MaxSessions

\* One terminal never has two shells on it: a repeated create, a keystroke that
\* crosses the exit or the close of its shell, or a close that is still waiting
\* for its child start a second one only when the first has exited or given
\* its terminal up (spawn_session, dispatch).
OneShellPerTerminal ==
  phase = "running" /\ wire = "open" =>
    \A p, q \in Running : termOf[p] = termOf[q] => p = q

\* A shell on its terminal can be reached while the session is served: the map
\* files it, or the dispatcher holds it between fork and insert or while it
\* closes it.  No keystroke, close or exit of another shell orphans it.
RunningAccounted ==
  phase = "running" /\ wire = "open" =>
    \A p \in Running : InMap(p) \/ (disp.at \in {"insert", "closing"} /\ disp.pid = p)

\* A pump removes by terminal id, not by shell.  While the session is served
\* it still only ever waits for the shell whose output it read.
PumpReapsOwn ==
  \A p \in Pids : phase = "running" /\ pump[p].at = "waiting" => pump[p].on = p

\* One task at most waits for a child: the dispatcher and the pumps never
\* hold the same ActivePty, and no handle stays in the map while it is held.
OneOwner ==
  /\ \A p, q \in Pids :
       pump[p].at = "waiting" /\ pump[q].at = "waiting" /\ p # q => pump[p].on # pump[q].on
  /\ \A s, t \in Terms : sessions[s] = sessions[t] /\ s # t => sessions[s] = None
  /\ \A p \in Pids : pump[p].at = "waiting" =>
       /\ ~InMap(pump[p].on)
       /\ ~(disp.at \in {"insert", "closing"} /\ disp.pid = pump[p].on)
  /\ disp.at \in {"insert", "closing"} => ~InMap(disp.pid)

\* "The terminal opened and stayed blank forever" (main.rs:1667): once the
\* dispatcher is past the create of a terminal, a shell was started for it or
\* the browser was sent a terminal-error.
NoSilentRefusal ==
  \A t \in Terms :
    \/ client[t] = "new"
    \/ \E i \in 1..Len(inbox) : inbox[i] = Frame("create", t)
    \/ disp.at = "spawn" /\ disp.term = t
    \/ \E p \in Pids : termOf[p] = t
    \/ t \in refused
    \/ phase = "returned"

\* What has become of a terminal while its session is served.
Served == phase = "running" /\ wire = "open"

Fate(t) ==
  IF \E p \in Pids : termOf[p] = t THEN "started"
  ELSE IF t \in refused THEN "refused"
  ELSE IF \/ disp.at = "spawn" /\ disp.kind = "create" /\ disp.term = t
          \/ \E i \in 1..Len(inbox) : inbox[i] = Frame("create", t) THEN "asked"
  ELSE IF client[t] = "new" THEN "unused"
  ELSE "lost"

Host == INSTANCE TerminalHost WITH
          fate <- [t \in Terms |-> IF Served THEN Fate(t) ELSE "over"],
          live <- [t \in Terms |-> IF Served THEN {p \in Running : termOf[p] = t} ELSE {}],
          open <- Served

\* The checks, the fork and the insertion of spawn_session are apart, a close
\* and an exit remove first and wait afterwards, keystrokes start shells of
\* their own: to the browser each create is still decided at once, and each
\* shell starts within the cap for a terminal that has none (main.rs
\* spawn_session, close_session, dispatch).  A shell is live while it holds
\* its terminal.
ImplementsHost == Host!Spec

\* The shell of p keeps reading: a write that waits is taken.
Reads(p) == WF_vars(WriterWrites(p))

\* The dispatcher serves everyone as long as no closed terminal keeps it
\* waiting, no shell that stopped reading keeps it in send_input, and waits for
\* children leave a worker: every create is then taken off the queue and decided.
CreatesAreDecided ==
  /\ [](phase = "running")
  /\ []<>(disp.at # "closing")
  /\ []<>WorkerFree
  /\ \A p \in Pids : Reads(p)
  => \A t \in Terms : (client[t] = "open") ~>
       (t \in refused \/ \E p \in Pids : termOf[p] = t)

\* Once no task holds an ActivePty and the map is empty for good, every shell
\* that reads its terminal leaves it: dropping the last sender is what ends
\* stdin.
DroppedShellsEnd ==
  \A p \in Pids : Reads(p) =>
    ((phase = "returned" /\ disp.at = "ended" /\ Slots = {} /\ \A o \in Pids : pump[o].at # "waiting")
      ~> shell[p] # "running")

-----------------------------------------------------------------------------
(* The inductive invariant behind CapHolds, PumpReapsOwn and OneOwner.     *)

\* Handles name shells that were started, for the terminal they are filed under.
Known ==
  /\ \A t \in Terms : sessions[t] # None =>
       shell[sessions[t]] # "none" /\ termOf[sessions[t]] = t
  /\ disp.at \in {"insert", "closing"} =>
       shell[disp.pid] # "none" /\ termOf[disp.pid] = disp.term
  /\ \A p \in Pids : pump[p].at = "waiting" => shell[pump[p].on] # "none"

\* Only the dispatcher inserts: the id it found absent, or took out of the
\* map, is absent still.
InsertsAbsent == disp.at \in {"insert", "closing"} => sessions[disp.term] = None

\* A dispatcher that holds a handle outside the map has left room for it.
SlotBound ==
  /\ Cardinality(Slots) <= MaxSessions
  /\ disp.at \in {"insert", "closing"} => Cardinality(Slots) < MaxSessions

\* The browser's close is the last thing it says about a terminal.
CloseIsLast ==
  \A i \in 1..Len(inbox) : inbox[i].kind = "close" =>
    /\ client[inbox[i].term] = "closed"
    /\ \A j \in 1..Len(inbox) : j > i => inbox[j].term # inbox[i].term

\* Nothing that could start another shell for t is left anywhere.
Finished(t) ==
  /\ client[t] = "closed"
  /\ \A i \in 1..Len(inbox) : inbox[i].term # t
  /\ disp.at \in {"spawn", "insert", "resend", "send", "sendLast"} => disp.term # t

\* A pump still reading finds its own shell under its id, or nothing at all.
PumpEntry ==
  phase = "running" => \A p \in Pids : pump[p].at = "reading" =>
    \/ sessions[termOf[p]] = p
    \/ sessions[termOf[p]] = None /\ disp.at = "insert" /\ disp.pid = p
    \/ sessions[termOf[p]] = None /\ Finished(termOf[p])

\* What every step of the dispatcher, the pumps and the browser keeps.
IInv ==
  /\ TypeOK
  /\ Known
  /\ InsertsAbsent
  /\ OneOwner
  /\ SlotBound
  /\ CloseIsLast
  /\ PumpEntry
  /\ PumpReapsOwn
  /\ RunningAccounted

-----------------------------------------------------------------------------
(* What comments in the code say and the code does not do.                 *)

\* main.rs:1836: "The ActivePty drop (and with it input_tx) is what ends the
\* shell's stdin ... causing the child to exit": closing a terminal completes,
\* unless the child gave up its terminal.
CloseCompletes ==
  (\A p \in Pids : Reads(p)) =>
    ((disp.at = "closing" /\ phase = "running" /\ chan = "open") ~>
       (disp.at = "closing" => shell[disp.pid] = "detached"))

\* main.rs:1769: "the pump task can remove itself when the PTY reader reaches EOF
\* (child exited). This frees the slot immediately": no exit keeps a slot while
\* the session is served.
ExitFreesSlot ==
  [](phase = "running" /\ chan = "open") =>
    \A p \in Pids : (shell[p] = "exited" /\ InMap(p)) ~> ~InMap(p)

\* main.rs:1095: "close_all removes every entry; the ActivePty drop ends each
\* writer thread (EOF to the shell)": no shell that reads its terminal survives its session.
TeardownEndsShells ==
  (\A p \in Pids : Reads(p)) => (phase = "returned" ~> Running = {})

\* main.rs:1719: "a manager that will allow at most `max_sessions` concurrent
\* shells": a child that runs on without its terminal counts as well.
AtMostMaxShells ==
  phase = "running" /\ wire = "open" => Cardinality(Alive) <= MaxSessions

=============================================================================
