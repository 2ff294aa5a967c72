----------------------------- MODULE DesktopStream -----------------------------
(***************************************************************************)
(* One remote-desktop session of the agent, from its approved offer to its *)
(* end (apps/agent/src/main.rs run_desktop_session; desktop.rs run_stream, *)
(* swap_source, ScreenSource, WindowSource, SustainMonitor,                *)
(* DesktopEncoder; rtc.rs abr; input.rs).                                  *)
(*                                                                         *)
(* Four tasks on a multi-threaded runtime: the session loop, the stream,   *)
(* the control dispatcher and the auto-ABR sampler; each source also has   *)
(* a capture thread of its own.  The stream awaits only in its select, in  *)
(* a swap and in a write; what is between is one step.  A captured frame   *)
(* is its size.                                                            *)
(***************************************************************************)
EXTENDS DesktopFrames, Naturals, Sequences, FiniteSets

CONSTANTS
  Monitors, Windows,  \* the enumerated sources
  Unknown,            \* an id that is not enumerated
  Start,              \* the source the session starts with
  Sizes,              \* Sizes[id]: sizes of the frames of a source
  Origin,             \* where the start source is on the desktop
  StartProfile,       \* the profile of the session
  AllowInput,         \* --allow-input
  Bitrates,           \* bitrates a viewer may ask for
  Estimates,          \* targets GCC may publish, its seed included
  Positions,          \* pointer positions a viewer may send
  SustainFrames,      \* SUSTAIN_FRAMES_BEFORE_FALLBACK (30 in the code)
  ControlCap,         \* slots of the control channel (16 in the code)
  EventsCap,          \* slots of the events channel (16 in the code)
  MaxThreads,         \* bound on the capture threads
  MaxQueue,           \* bound on a thread's queues
  MaxFrames,          \* bound on the frames of the viewer
  None

Sources == Monitors \cup Windows

ASSUME DesktopAssumption ==
  /\ Start \in Sources /\ Unknown \notin Sources /\ Monitors \cap Windows = {}
  /\ \A s \in Sources : Sizes[s] \subseteq (Nat \ {0}) \X (Nat \ {0}) /\ Sizes[s] # {}
  /\ StartProfile \in {DEFAULT_1080P30, SAFE_720P30}
  /\ AllowInput \in BOOLEAN
  /\ Bitrates \subseteq Nat /\ Estimates \subseteq Int /\ ABR_INITIAL \in Estimates
  /\ Origin \in [x : Int, y : Int, w : Nat, h : Nat] /\ Positions \subseteq Int
  /\ {SustainFrames, ControlCap, EventsCap, MaxThreads, MaxQueue} \subseteq Nat \ {0}
  /\ MaxFrames \in Nat /\ None \notin Sources \cup Nat

VARIABLES
  sess,      \* connecting, serving, stopping, closed, left (by an error), exited
  threads,   \* the capture threads
  source,    \* the thread of the stream's source; 0 for none
  next,      \* the thread of the source a swap is building; 0 for none
  stream,    \* none, run, building, joining, stopping, ended, failed, aborted
  profile,   \* the stream's profile
  encoder,   \* the bitrate its encoder was told
  over,      \* SustainMonitor.consecutive_over
  latched,   \* SustainMonitor.latched
  size,      \* encoded_size
  pending,   \* the next encode owes a stats frame, as the first one does
  control,   \* the control channel
  events,    \* the events channel: the bitrates of its stats frames
  ctl,       \* the dispatcher: none, waiting, serving, gone
  sending,   \* the command it waits to send
  manual,    \* the manual latch
  abr,       \* the sampler: none, idle, sending, gone
  retarget,  \* the bitrate it waits to send; 0 for none
  auto_target,
  injector,  \* the dispatcher's injector exists
  held,      \* a key is pressed on the host
  pointer,   \* where the injector put the pointer
  frames,    \* frames the viewer has sent
  ui,        \* the bitrate of the stats the viewer saw last
  lost,      \* history: a stats frame found the events channel full
  overruled  \* history: auto retargets the encoder took after it took a manual one;
             \* None before that

capture  == <<threads, source, next>>
quality  == <<profile, encoder, over, latched, size, pending>>
channels == <<control, events, lost>>
dispatch == <<ctl, sending, manual, frames, ui>>
sampler  == <<abr, retarget, auto_target>>
input    == <<injector, held, pointer>>
vars == <<sess, capture, stream, quality, channels, dispatch, sampler, input, overruled>>

-----------------------------------------------------------------------------
(* Capture threads, their sources' ends of the channels, and the controls. *)

ThreadIds == 1..MaxThreads

\* owned: the source holds the frames' receiver and the requests' sender.
\* stop: ScreenSource::stop was called.
Thread(id, at) == [id |-> id, at |-> at, owned |-> TRUE, stop |-> FALSE,
                   queue |-> <<>>, asked |-> 0]

NoThread == [id |-> None, at |-> "none", owned |-> FALSE, stop |-> FALSE,
             queue |-> <<>>, asked |-> 0]

\* source_for: a monitor's thread waits for its first frame; a window's runs.
New(id) == Thread(id, IF id \in Monitors THEN "starting" ELSE "running")

Unused == {t \in ThreadIds : threads[t].at = "none"}
IsMonitor(t) == threads[t].id \in Monitors
Ended(t) == threads[t].at = "ended"

\* FrameSource::stop, up to the join.
Stopped(th) ==
  IF th.id \in Monitors
  THEN [th EXCEPT !.stop = TRUE]
  ELSE [th EXCEPT !.owned = FALSE, !.queue = <<>>]

\* A source that is dropped without a stop.
Dropped(th) == [th EXCEPT !.owned = FALSE, !.queue = <<>>]

DropSources ==
  /\ threads' = [t \in ThreadIds |->
                   IF t \in {source, next} THEN Dropped(threads[t]) ELSE threads[t]]
  /\ source' = 0 /\ next' = 0

SetBitrate(bps, auto) == [type |-> "bitrate", bps |-> bps, auto |-> auto, id |-> None]
SourceSwap(id) == [type |-> "swap", bps |-> 0, auto |-> FALSE, id |-> id]

StreamGone == stream \in {"ended", "failed", "aborted"}

\* send_stats: best effort.
SendStats(pr) ==
  IF Len(events) < EventsCap
  THEN events' = Append(events, pr.bps) /\ UNCHANGED lost
  ELSE lost' = TRUE /\ UNCHANGED events

\* SustainMonitor::new
NewSustain(pr) == over' = 0 /\ latched' = (pr = SAFE_720P30)

Init ==
  /\ sess = "connecting"
  /\ threads = [t \in ThreadIds |->
                  IF t = 1 THEN [Thread(Start, "running") EXCEPT
                                   !.queue = IF Start \in Monitors
                                             THEN <<CHOOSE sz \in Sizes[Start] : TRUE>>
                                             ELSE <<>>]
                  ELSE NoThread]
  /\ source = 1 /\ next = 0 /\ stream = "none"
  /\ profile = StartProfile /\ encoder = StartProfile.bps /\ over = 0
  /\ latched = (StartProfile = SAFE_720P30)
  /\ size = Box(StartProfile) /\ pending = TRUE
  /\ control = <<>> /\ events = <<>> /\ lost = FALSE
  /\ ctl = "none" /\ sending = None /\ manual = FALSE /\ frames = 0 /\ ui = None
  /\ abr = "none" /\ retarget = 0 /\ auto_target = StartProfile.bps
  /\ injector = FALSE /\ held = FALSE /\ pointer = None /\ overruled = None

-----------------------------------------------------------------------------
(* Capture threads.                                                        *)

\* await_first_frame: the recorder feeds, and for_monitor's caller hears of it.
FirstFrame(t) ==
  /\ threads[t].at = "starting"
  /\ \E sz \in Sizes[threads[t].id] :
       threads' = [threads EXCEPT ![t].at = "running",
                                  ![t].queue = IF threads[t].owned THEN <<sz>> ELSE <<>>]
  /\ UNCHANGED <<sess, source, next, stream, quality, channels, dispatch, sampler, input,
                 overruled>>

\* The monitor is gone, the recorder does not start, or its first frame does
\* not come in time; or a running recorder ends.
RecorderFails(t) ==
  /\ threads[t].at \in {"starting", "running"} /\ IsMonitor(t)
  /\ threads' = [threads EXCEPT ![t].at = "ended"]
  /\ UNCHANGED <<sess, source, next, stream, quality, channels, dispatch, sampler, input,
                 overruled>>

\* run_capture forwards a frame; it ends when the source is gone.
FrameArrives(t) ==
  /\ threads[t].at = "running" /\ IsMonitor(t) /\ Len(threads[t].queue) < MaxQueue
  /\ \E sz \in Sizes[threads[t].id] :
       threads' = IF threads[t].owned THEN [threads EXCEPT ![t].queue = Append(@, sz)]
                  ELSE [threads EXCEPT ![t].at = "ended"]
  /\ UNCHANGED <<sess, source, next, stream, quality, channels, dispatch, sampler, input,
                 overruled>>

\* Mutant: the thread looks for the stop flag only when a frame came.
StopFlagSeen_Never(t) == FALSE /\ threads[t].stop /\ UNCHANGED vars

\* The thread looks for the stop flag at least every 100 ms.
StopFlagSeen(t) ==
  /\ threads[t].at = "running" /\ threads[t].stop
  /\ threads' = [threads EXCEPT ![t].at = "ended"]
  /\ UNCHANGED <<sess, source, next, stream, quality, channels, dispatch, sampler, input,
                 overruled>>

\* A window's thread serves one request: the capture may fail, and a capture
\* for a source that is gone ends the thread.
CaptureWindow(t) ==
  /\ threads[t].at = "running" /\ ~IsMonitor(t) /\ threads[t].asked > 0
  /\ Len(threads[t].queue) < MaxQueue
  /\ \/ threads' = [threads EXCEPT ![t].asked = @ - 1]
     \/ \E sz \in Sizes[threads[t].id] :
          threads' = IF threads[t].owned
                     THEN [threads EXCEPT ![t].asked = @ - 1, ![t].queue = Append(@, sz)]
                     ELSE [threads EXCEPT ![t].at = "ended"]
  /\ UNCHANGED <<sess, source, next, stream, quality, channels, dispatch, sampler, input,
                 overruled>>

\* No request is left and no sender: recv fails.
WindowEnds(t) ==
  /\ threads[t].at = "running" /\ ~IsMonitor(t) /\ threads[t].asked = 0 /\ ~threads[t].owned
  /\ threads' = [threads EXCEPT ![t].at = "ended"]
  /\ UNCHANGED <<sess, source, next, stream, quality, channels, dispatch, sampler, input,
                 overruled>>

-----------------------------------------------------------------------------
(* The stream: run_stream.                                                 *)

\* The task is over with its error and drops what it owns.
StreamFails ==
  /\ stream' = "failed" /\ DropSources
  /\ control' = <<>>
  /\ UNCHANGED <<sess, dispatch, sampler, input, overruled>>

StopSeen ==
  /\ stream = "run" /\ sess = "stopping"
  /\ stream' = "stopping"
  /\ threads' = [threads EXCEPT ![source] = Stopped(@)]
  /\ UNCHANGED <<sess, source, next, quality, channels, dispatch, sampler, input,
                 overruled>>

\* source.stop() has joined the thread.
StreamEnds ==
  /\ stream = "stopping" /\ Ended(source)
  /\ stream' = "ended" /\ source' = 0 /\ control' = <<>>
  /\ UNCHANGED <<sess, threads, next, quality, events, lost, dispatch, sampler, input,
                 overruled>>

HasCommand(type) == stream = "run" /\ control # <<>> /\ Head(control).type = type

\* note_bitrate_change(profile), with the new bitrate already in the profile.
NoteBitrateChange(pr) ==
  IF pr # SAFE_720P30 THEN latched' = FALSE /\ over' = 0 ELSE UNCHANGED <<latched, over>>

RetargetEncoder(bps) ==
  /\ encoder' = bps /\ profile' = [profile EXCEPT !.bps = bps]
  /\ NoteBitrateChange(profile')
  /\ SendStats(profile')

\* Mutant: a bitrate is taken once there is a place for its stats.
TakeBitrate_Reserves ==
  /\ HasCommand("bitrate") /\ Len(events) < EventsCap
  /\ control' = Tail(control)
  /\ RetargetEncoder(Head(control).bps)
  /\ UNCHANGED <<sess, capture, stream, size, pending, dispatch, sampler, input, overruled>>

\* A bitrate command; the encoder may refuse it.
TakeBitrate ==
  /\ HasCommand("bitrate")
  /\ control' = Tail(control)
  /\ \/ /\ RetargetEncoder(Head(control).bps)
        /\ overruled' = IF ~Head(control).auto THEN IF overruled = None THEN 0 ELSE overruled
                        ELSE IF overruled = None THEN None ELSE overruled + 1
     \/ UNCHANGED <<encoder, profile, latched, over, events, lost, overruled>>
  /\ UNCHANGED <<sess, capture, stream, size, pending, dispatch, sampler, input>>

\* No such source, or the sources cannot be listed or are not found now.
SwapRefused ==
  /\ HasCommand("swap")
  /\ control' = Tail(control)
  /\ SendStats(profile)
  /\ UNCHANGED <<sess, capture, stream, quality, dispatch, sampler, input, overruled>>

\* Mutant: the current source is stopped before the new one is built.
SwapStarts_StopsFirst ==
  /\ HasCommand("swap") /\ Head(control).id \in Sources /\ Unused # {}
  /\ control' = Tail(control)
  /\ next' = CHOOSE t \in Unused : TRUE
  /\ threads' = [threads EXCEPT ![next'] = New(Head(control).id), ![source] = Stopped(@)]
  /\ stream' = "building"
  /\ UNCHANGED <<sess, source, quality, events, lost, dispatch, sampler, input, overruled>>

SwapStarts ==
  /\ HasCommand("swap") /\ Head(control).id \in Sources /\ Unused # {}
  /\ control' = Tail(control)
  /\ next' = CHOOSE t \in Unused : TRUE
  /\ threads' = [threads EXCEPT ![next'] = New(Head(control).id)]
  /\ stream' = "building"
  /\ UNCHANGED <<sess, source, quality, events, lost, dispatch, sampler, input, overruled>>

\* The new source and encoder are there, even if its recorder ended after the
\* first frame; the old source is told to stop.
SwapBuilt ==
  /\ stream = "building"
  /\ threads[next].at = "running" \/ threads[next].queue # <<>>
  /\ threads' = [threads EXCEPT ![source] = Stopped(@)]
  /\ stream' = "joining"
  /\ UNCHANGED <<sess, source, next, quality, channels, dispatch, sampler, input, overruled>>

\* Mutant: the new encoder has the bitrate of the session's profile.
SwapDone_StartBitrate ==
  /\ stream = "joining" /\ Ended(source)
  /\ source' = next /\ next' = 0 /\ stream' = "run"
  /\ encoder' = StartProfile.bps /\ pending' = TRUE
  /\ UNCHANGED <<sess, threads, profile, over, latched, size, channels, dispatch, sampler,
                 input, overruled>>

\* The old thread is joined.  A task that was aborted meanwhile ends here.
SwapDone ==
  /\ stream = "joining" /\ Ended(source)
  /\ \/ /\ sess # "closed"
        /\ source' = next /\ next' = 0 /\ stream' = "run"
        /\ encoder' = profile.bps /\ pending' = TRUE
        /\ UNCHANGED <<threads, control>>
     \/ /\ sess = "closed"
        /\ stream' = "aborted" /\ DropSources /\ control' = <<>>
        /\ UNCHANGED <<encoder, pending>>
  /\ UNCHANGED <<sess, profile, over, latched, size, events, lost, dispatch, sampler, input,
                 overruled>>

\* The new source reports an error, or select_timeout passes and the
\* half-built source is dropped; the stream stays on the current source.
SwapFails ==
  /\ stream = "building"
  /\ threads' = [threads EXCEPT ![next] = Dropped(@)]
  /\ next' = 0 /\ stream' = "run"
  /\ SendStats(profile)
  /\ UNCHANGED <<sess, source, quality, control, dispatch, sampler, input, overruled>>

\* next_frame: a window is asked for a capture at every tick.
Polled(th) ==
  IF th.id \in Windows
  THEN [th EXCEPT !.queue = <<>>, !.asked = IF th.at = "running" THEN @ + 1 ELSE @]
  ELSE [th EXCEPT !.queue = <<>>]

CanTick == stream = "run" /\ threads[source].asked < MaxQueue

\* A window has no new frame yet; a monitor's idle tick changes nothing.
TickIdle ==
  /\ CanTick /\ threads[source].queue = <<>>
  /\ threads' = [threads EXCEPT ![source] = Polled(@)]
  /\ threads' # threads
  /\ UNCHANGED <<sess, source, next, stream, quality, channels, dispatch, sampler, input,
                 overruled>>

\* SustainMonitor::observe
Downgrades(slow) == ~latched /\ slow /\ over + 1 >= SustainFrames

Observe(slow) ==
  /\ over' = IF latched THEN over ELSE IF slow THEN over + 1 ELSE 0
  /\ UNCHANGED latched

\* Mutant: the fall-back is not reported.
FallBack_Silent ==
  /\ profile' = SAFE_720P30 /\ encoder' = SAFE_720P30.bps
  /\ NewSustain(SAFE_720P30) /\ pending' = FALSE

FallBack ==
  /\ profile' = SAFE_720P30 /\ encoder' = SAFE_720P30.bps
  /\ NewSustain(SAFE_720P30) /\ pending' = TRUE

\* The newest frame is scaled, encoded and written.
TickEncodes ==
  /\ CanTick /\ threads[source].queue # <<>>
  /\ threads' = [threads EXCEPT ![source] = Polled(@)]
  /\ \E sz \in downscale(threads[source].queue[Len(threads[source].queue)], Box(profile)),
        slow \in BOOLEAN :
       /\ size' = crop_to_even(sz)
       /\ IF pending THEN SendStats(profile) ELSE UNCHANGED <<events, lost>>
       /\ IF Downgrades(slow) THEN FallBack
          ELSE Observe(slow) /\ pending' = FALSE /\ UNCHANGED <<profile, encoder>>
  /\ UNCHANGED <<sess, source, next, stream, control, dispatch, sampler, input, overruled>>

\* The encoder or the write fails: a peer that is gone takes no samples.
TickFails ==
  /\ CanTick /\ threads[source].queue # <<>>
  /\ StreamFails
  /\ UNCHANGED <<quality, events, lost>>

-----------------------------------------------------------------------------
(* The session loop.                                                       *)

\* The peer connected: the stream and its companions are spawned.
Connected ==
  /\ sess = "connecting"
  /\ sess' = "serving" /\ stream' = "run" /\ ctl' = "waiting" /\ abr' = "idle"
  /\ UNCHANGED <<capture, quality, channels, sending, manual, frames, ui, retarget,
                 auto_target, input, overruled>>

\* It did not, or the answer or the stream's parameters failed.
NotConnected ==
  /\ sess = "connecting"
  /\ sess' = "closed" /\ DropSources
  /\ UNCHANGED <<stream, quality, channels, dispatch, sampler, input, overruled>>

\* end_rx, the hourly cap, a shutdown: the stream is told to stop.
SessionStops ==
  /\ sess = "serving"
  /\ sess' = "stopping"
  /\ UNCHANGED <<capture, stream, quality, channels, dispatch, sampler, input, overruled>>

\* route_inbound's error leaves without a teardown: every task is detached and
\* the stop channel closes, which run_stream does not take for a stop.
RouteFails ==
  /\ sess = "serving"
  /\ sess' = "left"
  /\ UNCHANGED <<capture, stream, quality, channels, dispatch, sampler, input, overruled>>

\* Enigo releases the keys it holds when it is dropped.
DropInjector == injector' = FALSE /\ held' = FALSE /\ UNCHANGED pointer

\* Mutant: the dispatcher is left to itself.
AbortCompanions_KeepsControl ==
  /\ abr' = "gone" /\ retarget' = 0
  /\ UNCHANGED <<ctl, sending, injector, held, pointer>>

\* control_task.abort() and abr_task.abort().
AbortCompanions ==
  /\ ctl' = "gone" /\ sending' = None /\ abr' = "gone" /\ retarget' = 0
  /\ DropInjector

\* The stream is over, or did not stop within 5 s and is aborted: at once in a
\* swap that waits, later in a join.
SessionCloses ==
  /\ sess = "stopping"
  /\ sess' = "closed" /\ AbortCompanions
  /\ \/ /\ StreamGone
        /\ UNCHANGED <<capture, stream, control>>
     \/ /\ stream = "building"
        /\ stream' = "aborted" /\ DropSources /\ control' = <<>>
     \/ /\ stream \in {"joining", "stopping"}
        /\ UNCHANGED <<capture, stream, control>>
  /\ UNCHANGED <<quality, events, lost, manual, frames, ui, auto_target, overruled>>

\* The stream ended while the session was serving: the second poll of its
\* JoinHandle panics and the process is gone with everything in it.
ProcessAborts ==
  /\ sess = "serving" /\ StreamGone
  /\ sess' = "exited" /\ ctl' = "gone" /\ sending' = None /\ abr' = "gone" /\ retarget' = 0
  /\ threads' = [t \in ThreadIds |-> NoThread] /\ source' = 0 /\ next' = 0
  /\ injector' = FALSE /\ UNCHANGED <<held, pointer>>
  /\ UNCHANGED <<stream, quality, channels, manual, frames, ui, auto_target,
                 overruled>>

-----------------------------------------------------------------------------
(* The control dispatcher.                                                 *)

\* Its task returns and drops the injector.  That it ends the session when the
\* control channel closed is SessionStops, which needs no reason.
DispatcherEnds ==
  /\ ctl' = "gone" /\ sending' = None /\ DropInjector
  /\ UNCHANGED <<sess, capture, stream, quality, channels, manual, frames, ui, sampler,
                 overruled>>

\* The control channel opened; the sources are sent.
ChannelOpens ==
  /\ ctl = "waiting"
  /\ ctl' = "serving"
  /\ UNCHANGED <<sess, capture, stream, quality, channels, sending, manual, frames, ui,
                 sampler, input, overruled>>

\* It did not open within 10 s: a session without controls.
ChannelNeverOpens == ctl = "waiting" /\ DispatcherEnds

Hears == ctl = "serving" /\ sending = None

ChannelCloses == Hears /\ DispatcherEnds

\* The dispatcher decodes a command of the viewer; a bitrate latches manual
\* before it is sent.
ViewerCommands ==
  /\ Hears /\ frames < MaxFrames
  /\ frames' = frames + 1
  /\ \/ /\ \E bps \in Bitrates : sending' = SetBitrate(clamp_bitrate(bps), FALSE)
        /\ manual' = TRUE
     \/ /\ \E id \in Sources \cup {Unknown} : sending' = SourceSwap(id)
        /\ UNCHANGED manual
  /\ UNCHANGED <<sess, capture, stream, quality, channels, ctl, ui, sampler, input,
                 overruled>>

\* Mutant: the channel is unbounded.
DispatcherSends_Unbounded ==
  /\ sending # None /\ ~StreamGone
  /\ control' = Append(control, sending) /\ sending' = None
  /\ UNCHANGED <<sess, capture, stream, quality, events, lost, ctl, manual, frames, ui,
                 sampler, input, overruled>>

\* The control channel has a place for the command.
DispatcherSends ==
  /\ sending # None /\ ~StreamGone /\ Len(control) < ControlCap
  /\ control' = Append(control, sending) /\ sending' = None
  /\ UNCHANGED <<sess, capture, stream, quality, events, lost, ctl, manual, frames, ui,
                 sampler, input, overruled>>

\* The stream is gone, and with it the receiver.
SendFails == sending # None /\ StreamGone /\ DispatcherEnds

\* A stats frame goes to the viewer.
ForwardStats ==
  /\ Hears /\ events # <<>>
  /\ ui' = Head(events) /\ events' = Tail(events)
  /\ UNCHANGED <<sess, capture, stream, quality, control, lost, ctl, sending, manual, frames,
                 sampler, input, overruled>>

\* apply_if_allowed, with the injector built when it is first needed.
ViewerInput ==
  /\ Hears /\ frames < MaxFrames /\ AllowInput
  /\ frames' = frames + 1
  /\ injector' = TRUE
  /\ \/ held' \in BOOLEAN /\ UNCHANGED pointer
     \/ /\ \E x, y \in Positions :
             pointer' = <<to_absolute(x, Origin.x, Origin.w), to_absolute(y, Origin.y, Origin.h)>>
        /\ UNCHANGED held
  /\ UNCHANGED <<sess, capture, stream, quality, channels, ctl, sending, manual, ui, sampler,
                 overruled>>

-----------------------------------------------------------------------------
(* Auto-ABR.                                                               *)

\* A tick of the sampler: the latch and the estimate are read ...
SamplerDecides ==
  /\ abr = "idle" /\ ~manual
  /\ abr' = "sending"
  /\ \E estimate \in Estimates : retarget' \in abr_next_target(estimate, auto_target)
  /\ UNCHANGED <<sess, capture, stream, quality, channels, dispatch, auto_target,
                 input, overruled>>

\* ... and the retarget is sent when the control channel has a place.
SamplerSends ==
  /\ abr = "sending"
  /\ \/ /\ ~StreamGone /\ Len(control) < ControlCap
        /\ control' = Append(control, SetBitrate(retarget, TRUE))
        /\ auto_target' = retarget /\ abr' = "idle"
     \/ /\ StreamGone
        /\ abr' = "gone" /\ UNCHANGED <<control, auto_target>>
  /\ retarget' = 0
  /\ UNCHANGED <<sess, capture, stream, quality, events, lost, dispatch, input,
                 overruled>>

-----------------------------------------------------------------------------
CaptureStep ==
  \E t \in ThreadIds : \/ FirstFrame(t) \/ RecorderFails(t) \/ FrameArrives(t)
                       \/ StopFlagSeen(t) \/ CaptureWindow(t) \/ WindowEnds(t)

StreamStep ==
  \/ StopSeen \/ StreamEnds \/ TakeBitrate
  \/ SwapRefused \/ SwapStarts \/ SwapBuilt \/ SwapDone \/ SwapFails
  \/ TickIdle \/ TickEncodes \/ TickFails

SessionStep ==
  \/ Connected \/ NotConnected \/ SessionStops \/ RouteFails
  \/ SessionCloses \/ ProcessAborts

DispatchStep ==
  \/ ChannelOpens \/ ChannelNeverOpens \/ ChannelCloses
  \/ ViewerCommands \/ DispatcherSends \/ SendFails \/ ForwardStats \/ ViewerInput

SamplerStep == SamplerDecides \/ SamplerSends

Next == CaptureStep \/ StreamStep \/ SessionStep \/ DispatchStep \/ SamplerStep

Spec == Init /\ [][Next]_vars

\* Every task of the runtime that can run does, and timers fire; a thread that
\* looks for its stop flag finds it.  No frame, viewer or peer owes a step.
Fairness ==
  /\ WF_vars(StopSeen) /\ WF_vars(StreamEnds) /\ WF_vars(TakeBitrate)
  /\ WF_vars(SwapRefused \/ SwapStarts) /\ WF_vars(SwapBuilt \/ SwapFails) /\ WF_vars(SwapDone)
  /\ SF_vars(DispatcherSends \/ SendFails) /\ WF_vars(ForwardStats)
  /\ SF_vars(SamplerSends) /\ WF_vars(SessionCloses)
  /\ \A t \in ThreadIds :
       WF_vars(StopFlagSeen(t)) /\ WF_vars(CaptureWindow(t)) /\ WF_vars(WindowEnds(t))

FairSpec == Spec /\ Fairness

-----------------------------------------------------------------------------
(* Properties.                                                             *)

Pairs == Nat \X Nat
Profiles == [w : {1920, 1280}, h : {1080, 720}, bps : Nat]
Commands == [type : {"bitrate", "swap"}, bps : Nat, auto : BOOLEAN,
             id : Sources \cup {Unknown, None}]

\* Types, with both channels within their capacity and one thread per source.
TypeOK ==
  /\ sess \in {"connecting", "serving", "stopping", "closed", "left", "exited"}
  /\ {latched, pending, manual, lost, injector, held} \subseteq BOOLEAN
  /\ threads \in [ThreadIds -> [id : Sources \cup {None}, owned : BOOLEAN, stop : BOOLEAN,
                                at : {"none", "starting", "running", "ended"},
                                queue : Seq(Pairs), asked : Nat]]
  /\ source \in 0..MaxThreads /\ next \in 0..MaxThreads
  /\ source # 0 => source # next
  /\ stream \in {"none", "run", "building", "joining", "stopping", "ended", "failed", "aborted"}
  /\ profile \in Profiles /\ encoder \in Nat /\ over \in 0..(SustainFrames - 1)
  /\ size \in Pairs
  /\ control \in Seq(Commands) /\ Len(control) <= ControlCap
  /\ events \in Seq(Nat) /\ Len(events) <= EventsCap
  /\ ctl \in {"none", "waiting", "serving", "gone"}
  /\ sending \in Commands \cup {None}
  /\ frames \in 0..MaxFrames /\ ui \in Nat \cup {None}
  /\ abr \in {"none", "idle", "sending", "gone"} /\ retarget \in Nat /\ auto_target \in Nat
  /\ pointer \in (Int \X Int) \cup {None} /\ overruled \in Nat \cup {None}

\* The encoder codes at the bitrate the profile says, whatever retargets, swaps
\* and fall-backs made of both (desktop.rs run_stream, swap_source).
EncoderFollowsProfile == encoder = profile.bps

\* What is encoded has even sides, which the encoder insists on, fits the box of
\* the profile, and is empty on a side only for a frame of one pixel there
\* (desktop.rs downscale, crop_to_even).
FramesFit ==
  [][size' # size =>
       /\ size'[1] \in 0..profile.w /\ size'[2] \in 0..profile.h
       /\ size'[1] % 2 = 0 /\ size'[2] % 2 = 0
       /\ \A side \in {1, 2} :
            size'[side] = 0 => threads[source].queue[Len(threads[source].queue)][side] = 1]_vars

\* When nothing is on its way to it, the viewer knows the bitrate in force,
\* unless a frame found the events channel full (desktop.rs send_stats,
\* pending_stats; main.rs events_rx).
ViewerKnowsBitrate ==
  ctl = "serving" /\ stream = "run" /\ events = <<>> /\ ~pending /\ ~lost =>
    ui = profile.bps

\* Auto-ABR overrules the viewer's bitrate at most once, with the retarget it was
\* sending when the latch closed; that it does is ManualStands' counterexample
\* (main.rs abr_task).
AutoGivesWay == overruled = None \/ overruled <= 1

\* Dispatcher and stream never wait for each other's channel: a command the
\* dispatcher holds leaves it (main.rs control_task, desktop.rs send_stats).
CommandsLeave == sending # None ~> sending = None

\* A swap, built, failed or timed out, leaves one source that was not told to
\* stop and that the stream owns (desktop.rs swap_source).
SwapKeepsOneSource ==
  stream = "run" =>
    /\ next = 0 /\ ~threads[source].stop
    /\ \A t \in ThreadIds : threads[t].owned /\ ~threads[t].stop => t = source \/ Ended(t)

\* A capture that is stopped ends: a monitor's without another frame, a
\* window's whatever its backlog (desktop.rs run_capture, WindowSource).
StoppedCapturesEnd ==
  \A t \in ThreadIds :
    (threads[t].stop \/ (threads[t].id \in Windows /\ ~threads[t].owned)) ~>
      threads[t].at \in {"ended", "none"}

\* The host is left with no key pressed when the session closes or its control
\* channel goes (main.rs control_task.abort; input.rs PlatformInjector).
KeysReleased == (sess = "closed" \/ (ctl = "gone" /\ sess # "exited")) => ~held

\* The pointer never leaves the source the session started with (input.rs
\* to_absolute, whose tests take the far edges for inside).
PointerInSource ==
  pointer # None => /\ pointer[1] \in Origin.x..(Origin.x + Origin.w)
                    /\ pointer[2] \in Origin.y..(Origin.y + Origin.h)

-----------------------------------------------------------------------------
(* What comments in the code say and the code does not do.                 *)

\* "A manual `desktop-bitrate` frame latches `manual` and stops auto for the rest
\* of the session, so the two never fight": once the encoder took the viewer's
\* bitrate it takes none of auto-ABR's (main.rs abr_task, control_task).
ManualStands == overruled \in {None, 0}

\* "At the floor, re-opening would only re-select the same profile, so it stays
\* closed": at 720p30 nothing but a command changes the profile.
FallsBackOnce ==
  [][Box(profile) = Floor /\ control' = control => UNCHANGED profile]_vars
===============================================================================
