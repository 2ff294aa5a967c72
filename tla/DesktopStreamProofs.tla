-------------------------- MODULE DesktopStreamProofs --------------------------
(***************************************************************************)
(* Safety of DesktopStream for any sources, sizes, capacities and bounds:  *)
(* types, bitrates, encoded sizes, keys and pointer.                       *)
(***************************************************************************)
EXTENDS DesktopSourceProofs

-----------------------------------------------------------------------------
(* Types.                                                                  *)

\* Where each task is.
TaskTypes ==
  /\ sess \in {"connecting", "serving", "stopping", "closed", "left", "exited"}
  /\ stream \in {"none", "run", "building", "joining", "stopping", "ended", "failed", "aborted"}
  /\ ctl \in {"none", "waiting", "serving", "gone"}
  /\ abr \in {"none", "idle", "sending", "gone"}

FlagTypes ==
  /\ latched \in BOOLEAN /\ pending \in BOOLEAN /\ manual \in BOOLEAN
  /\ lost \in BOOLEAN /\ injector \in BOOLEAN /\ held \in BOOLEAN

\* What the stream encodes with.
QualityTypes ==
  profile \in Profiles /\ encoder \in Nat /\ over \in 0..(SustainFrames - 1) /\ size \in Pairs

\* What waits for the stream and for the viewer.
QueueTypes ==
  /\ control \in Seq(Commands) /\ Len(control) <= ControlCap
  /\ events \in Seq(Nat) /\ Len(events) <= EventsCap

\* What the dispatcher and the sampler keep.
CompanionTypes ==
  /\ sending \in Commands \cup {None} /\ frames \in 0..MaxFrames /\ ui \in Nat \cup {None}
  /\ retarget \in Nat /\ auto_target \in Nat

HistoryTypes == overruled \in Nat \cup {None}

PointerTypes == pointer \in (Int \X Int) \cup {None}

TypeInv ==
  /\ SourceInv /\ TaskTypes /\ FlagTypes /\ QualityTypes /\ QueueTypes /\ CompanionTypes
  /\ HistoryTypes /\ PointerTypes

\* The profiles, the bitrates of which a command sets.
LEMMA ProfileFacts ==
  /\ DEFAULT_1080P30 \in Profiles /\ SAFE_720P30 \in Profiles /\ StartProfile \in Profiles
  /\ \A p \in Profiles : p.bps \in Nat /\ Box(p) \in Pairs
  /\ \A p \in Profiles : \A bps \in Nat : /\ [p EXCEPT !.bps = bps] \in Profiles
                                          /\ [p EXCEPT !.bps = bps].bps = bps
<1>1. DEFAULT_1080P30 \in Profiles /\ SAFE_720P30 \in Profiles
  BY DEF DEFAULT_1080P30, SAFE_720P30, Profiles
<1>2. StartProfile \in Profiles
  BY <1>1, DesktopAssumption
<1>3. \A p \in Profiles : p.bps \in Nat /\ Box(p) \in Pairs
  BY DEF Profiles, Box, Pairs
<1>4. \A p \in Profiles : \A bps \in Nat : /\ [p EXCEPT !.bps = bps] \in Profiles
                                           /\ [p EXCEPT !.bps = bps].bps = bps
  BY DEF Profiles
<1> QED
  BY <1>1, <1>2, <1>3, <1>4

LEMMA RangeFacts == \A bps \in MIN_BITRATE..MAX_BITRATE : bps \in Nat
BY DEF MIN_BITRATE, MAX_BITRATE

\* The commands the dispatcher and the sampler send.
LEMMA CommandFacts ==
  /\ \A bps \in Nat : \A auto \in BOOLEAN : SetBitrate(bps, auto) \in Commands
  /\ \A id \in Sources \cup {Unknown} : SourceSwap(id) \in Commands
<1>1. ASSUME NEW bps \in Nat, NEW auto \in BOOLEAN PROVE SetBitrate(bps, auto) \in Commands
  BY Zenon DEF SetBitrate, Commands
<1>2. ASSUME NEW id \in Sources \cup {Unknown} PROVE SourceSwap(id) \in Commands
  <2>1. 0 \in Nat /\ FALSE \in BOOLEAN /\ id \in Sources \cup {Unknown, None}
    OBVIOUS
  <2> QED
    BY <2>1, Zenon DEF SourceSwap, Commands
<1> QED
  BY <1>1, <1>2

LEMMA TaskStep ==
  ASSUME TaskTypes, [Next]_vars
  PROVE  TaskTypes'
<1> DEFINE Same == UNCHANGED <<sess, stream, ctl, abr>>
<1> USE DEF TaskTypes
<1>1. CASE Same
  BY <1>1
<1>2. CASE CaptureStep
  BY <1>1, <1>2
  DEF CaptureStep, FirstFrame, RecorderFails, FrameArrives, StopFlagSeen, CaptureWindow,
      WindowEnds, dispatch, sampler
<1>3. CASE StreamStep
  <2>1. sess' = sess /\ ctl' = ctl /\ abr' = abr
    BY <1>3 DEF StreamStep, StopSeen, StreamEnds, TakeBitrate, SwapRefused, SwapStarts,
                SwapBuilt, SwapDone, SwapFails, TickIdle, TickEncodes, TickFails, StreamFails,
                dispatch, sampler
  <2>2. stream' \in {stream, "stopping", "ended", "building", "joining", "run", "aborted", "failed"}
    BY <1>3 DEF StreamStep, StopSeen, StreamEnds, TakeBitrate, SwapRefused, SwapStarts,
                SwapBuilt, SwapDone, SwapFails, TickIdle, TickEncodes, TickFails, StreamFails
  <2> QED
    BY <2>1, <2>2
<1>4. CASE SessionStep
  <2>1. CASE Connected
    BY <2>1 DEF Connected
  <2>2. CASE NotConnected
    BY <2>2 DEF NotConnected, dispatch, sampler
  <2>3. CASE SessionStops \/ RouteFails
    BY <2>3 DEF SessionStops, RouteFails, dispatch, sampler
  <2>4. CASE SessionCloses
    BY <2>4 DEF SessionCloses, AbortCompanions
  <2>5. CASE ProcessAborts
    BY <2>5 DEF ProcessAborts
  <2> QED
    BY <1>4, <2>1, <2>2, <2>3, <2>4, <2>5 DEF SessionStep
<1>5. CASE DispatchStep
  <2>1. sess' = sess /\ stream' = stream /\ abr' = abr
    BY <1>5 DEF DispatchStep, ChannelOpens, ChannelNeverOpens, ChannelCloses, DispatcherEnds,
                ViewerCommands, DispatcherSends, SendFails, ForwardStats, ViewerInput, sampler
  <2>2. ctl' \in {ctl, "serving", "gone"}
    BY <1>5 DEF DispatchStep, ChannelOpens, ChannelNeverOpens, ChannelCloses, DispatcherEnds,
                ViewerCommands, DispatcherSends, SendFails, ForwardStats, ViewerInput
  <2> QED
    BY <2>1, <2>2
<1>6. CASE SamplerStep
  BY <1>6 DEF SamplerStep, SamplerDecides, SamplerSends, dispatch
<1>7. CASE UNCHANGED vars
  BY <1>1, <1>7 DEF vars, dispatch, sampler
<1> QED
  BY <1>2, <1>3, <1>4, <1>5, <1>6, <1>7 DEF Next

LEMMA FlagStep ==
  ASSUME FlagTypes, [Next]_vars
  PROVE  FlagTypes'
<1> DEFINE Same == UNCHANGED <<latched, pending, manual, lost, injector, held>>
<1> USE DEF FlagTypes
<1>1. CASE Same
  BY <1>1, Zenon
<1>2. CASE CaptureStep
  <2>1. Same
    BY <1>2 DEF CaptureStep, FirstFrame, RecorderFails, FrameArrives, StopFlagSeen,
                CaptureWindow, WindowEnds, quality, channels, dispatch, input
  <2> QED
    BY <1>1, <2>1
<1>3. CASE StreamStep
  <2>1. UNCHANGED <<manual, injector, held>>
    BY <1>3 DEF StreamStep, StopSeen, StreamEnds, TakeBitrate, SwapRefused, SwapStarts,
                SwapBuilt, SwapDone, SwapFails, TickIdle, TickEncodes, TickFails, StreamFails,
                dispatch, input
  <2>2. latched' = latched \/ latched' = FALSE \/ latched' = (SAFE_720P30 = SAFE_720P30)
    BY <1>3 DEF StreamStep, StopSeen, StreamEnds, TakeBitrate, SwapRefused, SwapStarts,
                SwapBuilt, SwapDone, SwapFails, TickIdle, TickEncodes, TickFails, quality,
                RetargetEncoder, NoteBitrateChange, Observe, FallBack, NewSustain
  <2>3. pending' = pending \/ pending' = FALSE \/ pending' = TRUE
    BY <1>3 DEF StreamStep, StopSeen, StreamEnds, TakeBitrate, SwapRefused, SwapStarts,
                SwapBuilt, SwapDone, SwapFails, TickIdle, TickEncodes, TickFails, quality,
                FallBack
  <2>4. lost' = lost \/ lost' = TRUE
    BY <1>3 DEF StreamStep, StopSeen, StreamEnds, TakeBitrate, SwapRefused, SwapStarts,
                SwapBuilt, SwapDone, SwapFails, TickIdle, TickEncodes, TickFails, channels,
                RetargetEncoder, SendStats
  <2> QED
    BY <2>1, <2>2, <2>3, <2>4, Zenon
<1>4. CASE SessionStep
  <2>1. UNCHANGED <<latched, pending, manual, lost>>
    BY <1>4 DEF SessionStep, Connected, NotConnected, SessionStops, RouteFails, SessionCloses,
                ProcessAborts, quality, channels, dispatch
  <2>2. injector' = injector \/ injector' = FALSE
    BY <1>4 DEF SessionStep, Connected, NotConnected, SessionStops, RouteFails, SessionCloses,
                ProcessAborts, AbortCompanions, DropInjector, input
  <2>3. held' = held \/ held' = FALSE
    BY <1>4 DEF SessionStep, Connected, NotConnected, SessionStops, RouteFails, SessionCloses,
                ProcessAborts, AbortCompanions, DropInjector, input
  <2> QED
    BY <2>1, <2>2, <2>3, Zenon
<1>5. CASE DispatchStep
  <2>1. UNCHANGED <<latched, pending, lost>>
    BY <1>5 DEF DispatchStep, ChannelOpens, ChannelNeverOpens, ChannelCloses, DispatcherEnds,
                ViewerCommands, DispatcherSends, SendFails, ForwardStats, ViewerInput, quality,
                channels
  <2>2. manual' = manual \/ manual' = TRUE
    BY <1>5 DEF DispatchStep, ChannelOpens, ChannelNeverOpens, ChannelCloses, DispatcherEnds,
                ViewerCommands, DispatcherSends, SendFails, ForwardStats, ViewerInput
  <2>3. injector' = injector \/ injector' = TRUE \/ injector' = FALSE
    BY <1>5 DEF DispatchStep, ChannelOpens, ChannelNeverOpens, ChannelCloses, DispatcherEnds,
                DropInjector, ViewerCommands, DispatcherSends, SendFails, ForwardStats,
                ViewerInput, input
  <2>4. held' = held \/ held' = FALSE \/ held' \in BOOLEAN
    BY <1>5 DEF DispatchStep, ChannelOpens, ChannelNeverOpens, ChannelCloses, DispatcherEnds,
                DropInjector, ViewerCommands, DispatcherSends, SendFails, ForwardStats,
                ViewerInput, input
  <2> QED
    BY <2>1, <2>2, <2>3, <2>4, Zenon
<1>6. CASE SamplerStep
  <2>1. Same
    BY <1>6 DEF SamplerStep, SamplerDecides, SamplerSends, quality, channels, dispatch, input
  <2> QED
    BY <1>1, <2>1
<1>7. CASE UNCHANGED vars
  <2>1. Same
    BY <1>7 DEF vars, quality, channels, dispatch, input
  <2> QED
    BY <1>1, <2>1
<1> QED
  BY <1>2, <1>3, <1>4, <1>5, <1>6, <1>7 DEF Next

\* The frame a tick encodes is one of a source, and its box one of a profile.
LEMMA NewestFrame ==
  ASSUME SourceInv, profile \in Profiles, TickEncodes
  PROVE  LET f == threads[source].queue[Len(threads[source].queue)]
         IN  /\ f \in Frames /\ f = <<f[1], f[2]>> /\ f[1] \in Nat \ {0} /\ f[2] \in Nat \ {0}
             /\ Box(profile) = <<profile.w, profile.h>>
             /\ profile.w \in Nat /\ profile.h \in Nat /\ profile.w >= 2 /\ profile.h >= 2
<1> DEFINE q == threads[source].queue
<1>1. stream = "run" /\ q # <<>>
  BY DEF TickEncodes, CanTick
<1>2. source \in ThreadIds
  BY <1>1, Ids DEF SourceInv, StageShape, IdsShape
<1>3. q \in Seq(Frames)
  BY <1>2 DEF SourceInv, ThreadTypes, ThreadSet
<1> HIDE DEF q
<1>4. Len(q) \in 1..Len(q)
  BY <1>1, <1>3, EmptySeq, LenProperties
<1>5. q[Len(q)] \in Frames
  BY <1>3, <1>4, ElementOfSeq
<1>6. LET f == q[Len(q)] IN f = <<f[1], f[2]>> /\ f[1] \in Nat \ {0} /\ f[2] \in Nat \ {0}
  BY <1>5, FrameSides
<1>7. profile.w \in {1920, 1280} /\ profile.h \in {1080, 720}
  BY DEF Profiles
<1> QED
  BY <1>5, <1>6, <1>7 DEF Box, q

\* So what a tick encodes has even sides and fits the box.
LEMMA TickFits ==
  ASSUME SourceInv, profile \in Profiles, TickEncodes
  PROVE  /\ size' \in Pairs
         /\ size'[1] <= profile.w /\ size'[2] <= profile.h
         /\ size'[1] % 2 = 0 /\ size'[2] % 2 = 0
         /\ \A side \in {1, 2} :
              size'[side] = 0 => threads[source].queue[Len(threads[source].queue)][side] = 1
<1> DEFINE f == threads[source].queue[Len(threads[source].queue)]
<1>1. PICK sz \in downscale(f, Box(profile)) : size' = crop_to_even(sz)
  BY DEF TickEncodes
<1>2. /\ f \in Frames /\ f = <<f[1], f[2]>> /\ f[1] \in Nat \ {0} /\ f[2] \in Nat \ {0}
      /\ Box(profile) = <<profile.w, profile.h>>
      /\ profile.w \in Nat /\ profile.h \in Nat /\ profile.w >= 2 /\ profile.h >= 2
  BY NewestFrame
<1> HIDE DEF f
<1>3. sz \in downscale(<<f[1], f[2]>>, <<profile.w, profile.h>>)
  BY <1>1, <1>2
<1> DEFINE fw == f[1]
           fh == f[2]
           mw == profile.w
           mh == profile.h
<1>4. /\ fw \in Nat \ {0} /\ fh \in Nat \ {0} /\ mw \in Nat /\ mh \in Nat /\ mw >= 2 /\ mh >= 2
      /\ sz \in downscale(<<fw, fh>>, <<mw, mh>>)
  BY <1>2, <1>3
<1> HIDE DEF fw, fh, mw, mh
<1>5. /\ size' \in Nat \X Nat
      /\ size'[1] <= mw /\ size'[2] <= mh /\ size'[1] % 2 = 0 /\ size'[2] % 2 = 0
      /\ fw >= 2 => size'[1] >= 2
      /\ fh >= 2 => size'[2] >= 2
  BY <1>1, <1>4, EncodedFits
<1>6. /\ size'[1] = 0 => fw = 1
      /\ size'[2] = 0 => fh = 1
  BY <1>4, <1>5
<1>7. \A side \in {1, 2} : size'[side] = 0 => f[side] = 1
  BY <1>6 DEF fw, fh
<1> QED
  BY <1>2, <1>5, <1>7 DEF f, mw, mh, Pairs

\* Taking a command, and putting one or a report, on a queue.
LEMMA TakeFacts ==
  ASSUME NEW S, NEW q \in Seq(S), q # <<>>
  PROVE  Head(q) \in S /\ Tail(q) \in Seq(S) /\ Len(Tail(q)) = Len(q) - 1 /\ Len(q) \in Nat
BY HeadTailProperties, LenProperties

LEMMA PutFacts ==
  ASSUME NEW S, NEW q \in Seq(S), NEW x \in S
  PROVE  Append(q, x) \in Seq(S) /\ Len(Append(q, x)) = Len(q) + 1 /\ Len(q) \in Nat
BY AppendProperties, LenProperties

\* A retarget, and what the encoder makes of it.
LEMMA RetargetTypes ==
  ASSUME QualityTypes, NEW bps \in Nat, RetargetEncoder(bps)
  PROVE  profile' \in Profiles /\ encoder' \in Nat /\ over' \in 0..(SustainFrames - 1)
<1>1. profile' = [profile EXCEPT !.bps = bps] /\ encoder' = bps /\ (over' = over \/ over' = 0)
  BY DEF RetargetEncoder, NoteBitrateChange
<1> QED
  BY <1>1, ProfileFacts, Constants DEF QualityTypes

\* The count of slow frames stays below the fall-back.
LEMMA TickTypes ==
  ASSUME SourceInv, QualityTypes, TickEncodes
  PROVE  QualityTypes'
<1>1. PICK sz \in downscale(threads[source].queue[Len(threads[source].queue)], Box(profile)),
           slow \in BOOLEAN :
        /\ size' = crop_to_even(sz)
        /\ \/ Downgrades(slow) /\ FallBack
           \/ ~Downgrades(slow) /\ Observe(slow) /\ UNCHANGED <<profile, encoder>>
  BY DEF TickEncodes
<1>2. size' \in Pairs
  BY TickFits DEF QualityTypes
<1>3. CASE FallBack
  <2>1. profile' = SAFE_720P30 /\ encoder' = SAFE_720P30.bps /\ over' = 0
    BY <1>3 DEF FallBack, NewSustain
  <2> QED
    BY <1>2, <2>1, ProfileFacts, Constants DEF QualityTypes
<1>4. CASE ~Downgrades(slow) /\ Observe(slow) /\ UNCHANGED <<profile, encoder>>
  <2>1. over' = over \/ over' = 0 \/ (over' = over + 1 /\ ~latched /\ slow)
    BY <1>4 DEF Observe
  <2>2. ~latched /\ slow => ~(over + 1 >= SustainFrames)
    BY <1>4 DEF Downgrades
  <2>3. over' \in 0..(SustainFrames - 1)
    BY <2>1, <2>2, Constants DEF QualityTypes
  <2> QED
    BY <1>2, <1>4, <2>3 DEF QualityTypes
<1> QED
  BY <1>1, <1>3, <1>4

LEMMA QualityStep ==
  ASSUME SourceInv, QualityTypes, QueueTypes, [Next]_vars
  PROVE  QualityTypes'
<1> DEFINE Same == UNCHANGED <<profile, encoder, over, size>>
<1>1. CASE Same
  BY <1>1 DEF QualityTypes
<1>2. CASE TakeBitrate
  <2>1. control # <<>> /\ (Same \/ (RetargetEncoder(Head(control).bps) /\ size' = size))
    BY <1>2 DEF TakeBitrate, HasCommand
  <2>2. Head(control) \in Commands
    BY <2>1, TakeFacts DEF QueueTypes
  <2>3. Head(control).bps \in Nat
    BY <2>2, Zenon DEF Commands
  <2> QED
    BY <1>1, <2>1, <2>3, RetargetTypes DEF QualityTypes
<1>3. CASE SwapDone
  BY <1>3, ProfileFacts DEF SwapDone, QualityTypes
<1>4. CASE TickEncodes
  BY <1>4, TickTypes
<1>5. CASE CaptureStep
  BY <1>1, <1>5 DEF CaptureStep, FirstFrame, RecorderFails, FrameArrives, StopFlagSeen,
              CaptureWindow, WindowEnds, quality
<1>6. CASE StreamStep /\ ~(TakeBitrate \/ SwapDone \/ TickEncodes)
  BY <1>1, <1>6 DEF StreamStep, StopSeen, StreamEnds, SwapRefused, SwapStarts, SwapBuilt,
              SwapFails, TickIdle, TickFails, quality
<1>7. CASE SessionStep
  BY <1>1, <1>7 DEF SessionStep, Connected, NotConnected, SessionStops, RouteFails,
              SessionCloses, ProcessAborts, quality
<1>8. CASE DispatchStep
  BY <1>1, <1>8 DEF DispatchStep, ChannelOpens, ChannelNeverOpens, ChannelCloses, DispatcherEnds,
              ViewerCommands, DispatcherSends, SendFails, ForwardStats, ViewerInput, quality
<1>9. CASE SamplerStep
  BY <1>1, <1>9 DEF SamplerStep, SamplerDecides, SamplerSends, quality
<1>10. CASE UNCHANGED vars
  BY <1>1, <1>10 DEF vars, quality
<1> QED
  BY <1>2, <1>3, <1>4, <1>5, <1>6, <1>7, <1>8, <1>9, <1>10 DEF Next

\* What a step does to the control channel, and to the events channel.
ControlMoves ==
  \/ control' = control \/ control' = <<>> \/ (control # <<>> /\ control' = Tail(control))
  \/ sending # None /\ Len(control) < ControlCap /\ control' = Append(control, sending)
  \/ Len(control) < ControlCap /\ control' = Append(control, SetBitrate(retarget, TRUE))

EventMoves ==
  \/ events' = events \/ (events # <<>> /\ events' = Tail(events))
  \/ \E pr \in {profile, profile'} :
       Len(events) < EventsCap /\ events' = Append(events, pr.bps)

LEMMA QueueMoves == [Next]_vars => ControlMoves /\ EventMoves
<1> SUFFICES ASSUME [Next]_vars PROVE ControlMoves /\ EventMoves
  OBVIOUS
<1> DEFINE Same == UNCHANGED <<control, events>>
<1>1. CASE Same
  BY <1>1 DEF ControlMoves, EventMoves
<1>a. ASSUME NEW pr \in {profile, profile'}, SendStats(pr) PROVE EventMoves
  BY <1>a DEF SendStats, EventMoves
<1>2. CASE CaptureStep
  BY <1>1, <1>2 DEF CaptureStep, FirstFrame, RecorderFails, FrameArrives, StopFlagSeen,
              CaptureWindow, WindowEnds, channels
<1>3. CASE StopSeen \/ StreamEnds \/ SwapBuilt \/ SwapDone \/ TickIdle \/ TickFails
  BY <1>3 DEF StopSeen, StreamEnds, SwapBuilt, SwapDone, TickIdle, TickFails, StreamFails,
              channels, ControlMoves, EventMoves
<1>4. CASE TakeBitrate
  <2>1. control # <<>> /\ control' = Tail(control)
    BY <1>4 DEF TakeBitrate, HasCommand
  <2>2. events' = events \/ SendStats(profile')
    BY <1>4 DEF TakeBitrate, RetargetEncoder
  <2>3. EventMoves
    BY <2>2, <1>a DEF EventMoves
  <2> QED
    BY <2>1, <2>3 DEF ControlMoves
<1>5. CASE SwapRefused
  BY <1>5, <1>a DEF SwapRefused, HasCommand, ControlMoves
<1>6. CASE SwapStarts
  BY <1>6 DEF SwapStarts, HasCommand, ControlMoves, EventMoves
<1>7. CASE SwapFails
  BY <1>7, <1>a DEF SwapFails, ControlMoves
<1>8. CASE TickEncodes
  <2>1. control' = control /\ (events' = events \/ SendStats(profile))
    BY <1>8 DEF TickEncodes
  <2> QED
    BY <2>1, <1>a DEF ControlMoves, EventMoves
<1>9. CASE SessionStep
  BY <1>9 DEF SessionStep, Connected, NotConnected, SessionStops, RouteFails, SessionCloses,
              ProcessAborts, channels, ControlMoves, EventMoves
<1>10. CASE DispatchStep
  BY <1>10 DEF DispatchStep, ChannelOpens, ChannelNeverOpens, ChannelCloses, DispatcherEnds,
               ViewerCommands, DispatcherSends, SendFails, ForwardStats, ViewerInput, channels,
               ControlMoves, EventMoves
<1>11. CASE SamplerStep
  BY <1>11 DEF SamplerStep, SamplerDecides, SamplerSends, channels, ControlMoves, EventMoves
<1>12. CASE UNCHANGED vars
  BY <1>1, <1>12 DEF vars, channels
<1> QED
  BY <1>2, <1>3, <1>4, <1>5, <1>6, <1>7, <1>8, <1>9, <1>10, <1>11, <1>12 DEF Next, StreamStep

LEMMA QueueStep ==
  ASSUME QualityTypes, QualityTypes', QueueTypes, CompanionTypes, [Next]_vars
  PROVE  QueueTypes'
<1>1. control' \in Seq(Commands) /\ Len(control') <= ControlCap
  <2>1. ASSUME NEW c \in Commands, Len(control) < ControlCap, control' = Append(control, c)
        PROVE  control' \in Seq(Commands) /\ Len(control') <= ControlCap
    BY <2>1, PutFacts, Constants DEF QueueTypes
  <2>2. SetBitrate(retarget, TRUE) \in Commands
    BY CommandFacts DEF CompanionTypes
  <2>3. sending # None => sending \in Commands
    BY DEF CompanionTypes
  <2>4. control # <<>> => Tail(control) \in Seq(Commands) /\ Len(Tail(control)) <= ControlCap
    BY TakeFacts, Constants DEF QueueTypes
  <2>5. <<>> \in Seq(Commands) /\ Len(<<>>) <= ControlCap
    BY Constants
  <2>6. ControlMoves
    BY QueueMoves
  <2> QED
    BY <2>1, <2>2, <2>3, <2>4, <2>5, <2>6 DEF ControlMoves, QueueTypes
<1>2. events' \in Seq(Nat) /\ Len(events') <= EventsCap
  <2>1. \A pr \in {profile, profile'} : pr.bps \in Nat
    BY ProfileFacts DEF QualityTypes
  <2>2. ASSUME NEW n \in Nat, Len(events) < EventsCap, events' = Append(events, n)
        PROVE  events' \in Seq(Nat) /\ Len(events') <= EventsCap
    BY <2>2, PutFacts, Constants DEF QueueTypes
  <2>3. events # <<>> => Tail(events) \in Seq(Nat) /\ Len(Tail(events)) <= EventsCap
    BY TakeFacts, Constants DEF QueueTypes
  <2>4. EventMoves
    BY QueueMoves
  <2> QED
    BY <2>1, <2>2, <2>3, <2>4 DEF EventMoves, QueueTypes
<1> QED
  BY <1>1, <1>2 DEF QueueTypes

LEMMA CompanionStep ==
  ASSUME QueueTypes, CompanionTypes, [Next]_vars
  PROVE  CompanionTypes'
<1> DEFINE Same == UNCHANGED <<sending, frames, ui, retarget, auto_target>>
<1>1. CASE Same
  BY <1>1 DEF CompanionTypes
<1>2. CASE CaptureStep
  BY <1>1, <1>2 DEF CaptureStep, FirstFrame, RecorderFails, FrameArrives, StopFlagSeen,
              CaptureWindow, WindowEnds, dispatch, sampler
<1>3. CASE StreamStep
  BY <1>1, <1>3 DEF StreamStep, StopSeen, StreamEnds, TakeBitrate, SwapRefused, SwapStarts,
              SwapBuilt, SwapDone, SwapFails, TickIdle, TickEncodes, TickFails, StreamFails,
              dispatch, sampler
<1>4. CASE SessionStep
  <2>1. /\ UNCHANGED <<frames, ui, auto_target>> /\ (sending' = sending \/ sending' = None)
        /\ (retarget' = retarget \/ retarget' = 0)
    BY <1>4 DEF SessionStep, Connected, NotConnected, SessionStops, RouteFails, SessionCloses,
                ProcessAborts, AbortCompanions, dispatch, sampler
  <2> QED
    BY <2>1 DEF CompanionTypes
<1>5. CASE DispatchStep
  <2>1. CASE ViewerCommands
    <3>1. /\ frames < MaxFrames /\ frames' = frames + 1 /\ UNCHANGED <<ui, retarget, auto_target>>
          /\ \/ \E bps \in Bitrates : sending' = SetBitrate(clamp_bitrate(bps), FALSE)
             \/ \E id \in Sources \cup {Unknown} : sending' = SourceSwap(id)
      BY <2>1 DEF ViewerCommands, sampler
    <3>2. ASSUME NEW bps \in Bitrates PROVE clamp_bitrate(bps) \in Nat
      <4>1. bps \in Int
        BY DesktopAssumption
      <4>2. clamp_bitrate(bps) \in MIN_BITRATE..MAX_BITRATE
        BY <4>1, ClampFacts
      <4> QED
        BY <4>2, RangeFacts
    <3>3. sending' \in Commands
      BY <3>1, <3>2, CommandFacts
    <3>4. frames' \in 0..MaxFrames
      BY <3>1, Constants DEF CompanionTypes
    <3> QED
      BY <3>1, <3>3, <3>4 DEF CompanionTypes
  <2>2. CASE ViewerInput
    BY <2>2, Constants DEF ViewerInput, CompanionTypes, sampler
  <2>3. CASE ForwardStats
    BY <2>3, TakeFacts DEF ForwardStats, CompanionTypes, QueueTypes, sampler
  <2>4. CASE ChannelOpens \/ ChannelNeverOpens \/ ChannelCloses \/ SendFails \/ DispatcherSends
    <3>1. UNCHANGED <<frames, ui, retarget, auto_target>> /\ (sending' = sending \/ sending' = None)
      BY <2>4 DEF ChannelOpens, ChannelNeverOpens, ChannelCloses, SendFails, DispatcherSends,
                  DispatcherEnds, sampler
    <3> QED
      BY <3>1 DEF CompanionTypes
  <2> QED
    BY <1>5, <2>1, <2>2, <2>3, <2>4 DEF DispatchStep
<1>6. CASE SamplerDecides
  <2>1. PICK estimate \in Estimates : retarget' \in abr_next_target(estimate, auto_target)
    BY <1>6 DEF SamplerDecides
  <2>2. retarget' \in Nat
    <3>1. estimate \in Int
      BY DesktopAssumption
    <3>2. retarget' \in MIN_BITRATE..MAX_BITRATE
      BY <2>1, <3>1, AbrFacts
    <3> QED
      BY <3>2, RangeFacts
  <2>3. UNCHANGED <<sending, frames, ui, auto_target>>
    BY <1>6 DEF SamplerDecides, dispatch
  <2> QED
    BY <2>2, <2>3 DEF CompanionTypes
<1>7. CASE SamplerSends
  BY <1>7 DEF SamplerSends, CompanionTypes, dispatch
<1>8. CASE UNCHANGED vars
  BY <1>1, <1>8 DEF vars, dispatch, sampler
<1> QED
  BY <1>2, <1>3, <1>4, <1>5, <1>6, <1>7, <1>8 DEF Next, SamplerStep

\* The encoder takes a bitrate, and with it a retarget of auto-ABR.
LEMMA HistoryStep ==
  ASSUME HistoryTypes, [Next]_vars
  PROVE  HistoryTypes'
<1>1. CASE UNCHANGED overruled
  BY <1>1 DEF HistoryTypes
<1>2. CASE TakeBitrate
  <2>1. \/ overruled' = overruled \/ overruled' = 0 \/ overruled' = None
        \/ overruled # None /\ overruled' = overruled + 1
    BY <1>2 DEF TakeBitrate
  <2> QED
    BY <2>1, Constants DEF HistoryTypes
<1>3. CASE CaptureStep
  BY <1>1, <1>3 DEF CaptureStep, FirstFrame, RecorderFails, FrameArrives, StopFlagSeen,
              CaptureWindow, WindowEnds
<1>4. CASE StreamStep /\ ~TakeBitrate
  BY <1>1, <1>4 DEF StreamStep, StopSeen, StreamEnds, SwapRefused, SwapStarts, SwapBuilt,
              SwapDone, SwapFails, TickIdle, TickEncodes, TickFails, StreamFails
<1>5. CASE SessionStep
  BY <1>1, <1>5 DEF SessionStep, Connected, NotConnected, SessionStops, RouteFails,
              SessionCloses, ProcessAborts
<1>6. CASE DispatchStep
  BY <1>1, <1>6 DEF DispatchStep, ChannelOpens, ChannelNeverOpens, ChannelCloses, DispatcherEnds,
              ViewerCommands, DispatcherSends, SendFails, ForwardStats, ViewerInput
<1>7. CASE SamplerStep
  BY <1>1, <1>7 DEF SamplerStep, SamplerDecides, SamplerSends
<1>8. CASE UNCHANGED vars
  BY <1>1, <1>8 DEF vars
<1> QED
  BY <1>2, <1>3, <1>4, <1>5, <1>6, <1>7, <1>8 DEF Next

\* Only input of the viewer moves the pointer, and only within the source.
InSource == pointer \in (Origin.x..(Origin.x + Origin.w)) \X (Origin.y..(Origin.y + Origin.h))

LEMMA OriginFacts == Origin.x \in Int /\ Origin.y \in Int /\ Origin.w \in Nat /\ Origin.h \in Nat
BY DesktopAssumption

LEMMA PointerMoves == [Next]_vars => pointer' = pointer \/ InSource'
<1> SUFFICES ASSUME [Next]_vars PROVE pointer' = pointer \/ InSource'
  OBVIOUS
<1> DEFINE Same == pointer' = pointer
<1>1. CASE CaptureStep
  BY <1>1 DEF CaptureStep, FirstFrame, RecorderFails, FrameArrives, StopFlagSeen,
              CaptureWindow, WindowEnds, input
<1>2. CASE StreamStep
  BY <1>2 DEF StreamStep, StopSeen, StreamEnds, TakeBitrate, SwapRefused, SwapStarts, SwapBuilt,
              SwapDone, SwapFails, TickIdle, TickEncodes, TickFails, StreamFails, input
<1>3. CASE SessionStep
  BY <1>3 DEF SessionStep, Connected, NotConnected, SessionStops, RouteFails,
              SessionCloses, ProcessAborts, AbortCompanions, DropInjector, input
<1>4. CASE DispatchStep /\ ~ViewerInput
  BY <1>4 DEF DispatchStep, ChannelOpens, ChannelNeverOpens, ChannelCloses, DispatcherEnds,
              DropInjector, ViewerCommands, DispatcherSends, SendFails, ForwardStats, input
<1>5. CASE ViewerInput
  <2>1. CASE pointer' = pointer
    BY <2>1
  <2>2. ASSUME NEW x \in Positions, NEW y \in Positions,
               pointer' = <<to_absolute(x, Origin.x, Origin.w), to_absolute(y, Origin.y, Origin.h)>>
        PROVE  InSource'
    <3>1. x \in Int /\ y \in Int
      BY DesktopAssumption
    <3>2. to_absolute(x, Origin.x, Origin.w) \in Origin.x..(Origin.x + Origin.w)
      BY <3>1, OriginFacts, AbsoluteFacts
    <3>3. to_absolute(y, Origin.y, Origin.h) \in Origin.y..(Origin.y + Origin.h)
      BY <3>1, OriginFacts, AbsoluteFacts
    <3> QED
      BY <2>2, <3>2, <3>3 DEF InSource
  <2> QED
    BY <1>5, <2>1, <2>2 DEF ViewerInput
<1>6. CASE SamplerStep
  BY <1>6 DEF SamplerStep, SamplerDecides, SamplerSends, input
<1>7. CASE UNCHANGED vars
  BY <1>7 DEF vars, input
<1> QED
  BY <1>1, <1>2, <1>3, <1>4, <1>5, <1>6, <1>7 DEF Next

LEMMA PointerStep ==
  ASSUME PointerTypes, [Next]_vars
  PROVE  PointerTypes'
<1>1. CASE pointer' = pointer
  BY <1>1 DEF PointerTypes
<1>2. CASE InSource'
  BY <1>2, OriginFacts DEF PointerTypes, InSource
<1> QED
  BY <1>1, <1>2, PointerMoves

LEMMA TypesInit == Init => TypeInv
<1> SUFFICES ASSUME Init PROVE TypeInv
  OBVIOUS
<1>1. TaskTypes
  BY DEF Init, TaskTypes
<1>2. FlagTypes
  BY Zenon DEF Init, FlagTypes
<1>3. StartProfile.bps \in Nat /\ Box(StartProfile) \in Pairs
  BY ProfileFacts
<1>4. QualityTypes
  BY <1>3, ProfileFacts, Constants DEF Init, QualityTypes
<1>5. <<>> \in Seq(Commands) /\ <<>> \in Seq(Nat)
  OBVIOUS
<1>6. QueueTypes
  BY <1>5, Constants DEF Init, QueueTypes
<1>7. CompanionTypes
  BY <1>3, Constants DEF Init, CompanionTypes
<1>8. HistoryTypes /\ PointerTypes
  BY DEF Init, HistoryTypes, PointerTypes
<1> QED
  BY <1>1, <1>2, <1>4, <1>6, <1>7, <1>8, SourceInit DEF TypeInv

LEMMA TypesStep == TypeInv /\ [Next]_vars => TypeInv'
<1> SUFFICES ASSUME TypeInv, [Next]_vars PROVE TypeInv'
  OBVIOUS
<1> USE DEF TypeInv
<1>1. SourceInv'
  BY SourceStep
<1>2. TaskTypes' /\ FlagTypes' /\ HistoryTypes' /\ PointerTypes'
  BY TaskStep, FlagStep, HistoryStep, PointerStep
<1>3. QualityTypes'
  BY QualityStep
<1>4. QueueTypes'
  BY <1>3, QueueStep
<1>5. CompanionTypes'
  BY CompanionStep
<1> QED
  BY <1>1, <1>2, <1>3, <1>4, <1>5

LEMMA TypesInvariance == Spec => []TypeInv
BY TypesInit, TypesStep, PTL DEF Spec

LEMMA TypesImply == TypeInv => TypeOK
<1> SUFFICES ASSUME TypeInv PROVE TypeOK
  OBVIOUS
<1>1. {latched, pending, manual, lost, injector, held} \subseteq BOOLEAN
  <2>1. FlagTypes
    BY DEF TypeInv
  <2> QED
    BY <2>1, Zenon DEF FlagTypes
<1>2. threads \in [ThreadIds -> [id : Sources \cup {None}, owned : BOOLEAN, stop : BOOLEAN,
                                 at : {"none", "starting", "running", "ended"},
                                 queue : Seq(Pairs), asked : Nat]]
  <2>1. Frames \subseteq Pairs
    BY FrameSides DEF Pairs
  <2>2. Seq(Frames) \subseteq Seq(Pairs)
    BY <2>1
  <2>3. threads \in [ThreadIds -> ThreadSet]
    BY DEF TypeInv, SourceInv, ThreadTypes
  <2> QED
    BY <2>2, <2>3 DEF ThreadSet, Places
<1>3. source \in 0..MaxThreads /\ next \in 0..MaxThreads /\ (source # 0 => source # next)
  BY DEF TypeInv, SourceInv, IdsShape, StageShape, ThreadIds
<1> QED
  BY <1>1, <1>2, <1>3
  DEF TypeInv, TypeOK, TaskTypes, QualityTypes, QueueTypes, CompanionTypes, HistoryTypes, PointerTypes

\* Every variable keeps its type and both channels their capacity, and a stream
\* and its swap never use the same thread (main.rs run_desktop_session,
\* desktop.rs run_stream, swap_source).
THEOREM SessionTypes == Spec => []TypeOK
BY TypesInvariance, TypesImply, PTL

\* Whatever positions the viewer sends, the pointer stays within the source the
\* session started with (input.rs to_absolute, clamp01).
THEOREM PointerStaysInSource == Spec => []PointerInSource
<1> DEFINE Inv == pointer = None \/ InSource
<1>1. Init => Inv
  BY DEF Init
<1>2. Inv /\ [Next]_vars => Inv'
  BY PointerMoves DEF InSource
<1>3. Inv => PointerInSource
  BY DEF PointerInSource, InSource
<1> QED
  BY <1>1, <1>2, <1>3, PTL DEF Spec

\* Nothing but a tick encodes.
LEMMA OnlyTicksEncode == [Next]_vars => size' = size \/ TickEncodes
<1> SUFFICES ASSUME [Next]_vars, ~TickEncodes PROVE size' = size
  OBVIOUS
<1>1. CASE CaptureStep
  BY <1>1 DEF CaptureStep, FirstFrame, RecorderFails, FrameArrives, StopFlagSeen,
              CaptureWindow, WindowEnds, quality
<1>2. CASE StreamStep
  BY <1>2 DEF StreamStep, StopSeen, StreamEnds, TakeBitrate, SwapRefused, SwapStarts, SwapBuilt,
              SwapDone, SwapFails, TickIdle, TickFails, quality
<1>3. CASE SessionStep
  BY <1>3 DEF SessionStep, Connected, NotConnected, SessionStops, RouteFails,
              SessionCloses, ProcessAborts, quality
<1>4. CASE DispatchStep
  BY <1>4 DEF DispatchStep, ChannelOpens, ChannelNeverOpens, ChannelCloses, DispatcherEnds,
              ViewerCommands, DispatcherSends, SendFails, ForwardStats, ViewerInput, quality
<1>5. CASE SamplerStep
  BY <1>5 DEF SamplerStep, SamplerDecides, SamplerSends, quality
<1>6. CASE UNCHANGED vars
  BY <1>6 DEF vars, quality
<1> QED
  BY <1>1, <1>2, <1>3, <1>4, <1>5, <1>6 DEF Next

\* What the encoder is given has even sides and fits the box of the profile,
\* across swaps and fall-backs, and is empty on a side only for a frame of one
\* pixel there (desktop.rs downscale, crop_to_even).
THEOREM EncodedSizesFit == Spec => FramesFit
<1> DEFINE f == threads[source].queue[Len(threads[source].queue)]
           Fit == /\ size'[1] \in 0..profile.w /\ size'[2] \in 0..profile.h
                  /\ size'[1] % 2 = 0 /\ size'[2] % 2 = 0
                  /\ \A side \in {1, 2} : size'[side] = 0 => f[side] = 1
<1>1. TypeInv /\ [Next]_vars => (size' # size => Fit)
  <2> SUFFICES ASSUME TypeInv, [Next]_vars, size' # size
               PROVE  Fit
    OBVIOUS
  <2>1. TickEncodes
    BY OnlyTicksEncode
  <2>2. SourceInv /\ profile \in Profiles
    BY DEF TypeInv, QualityTypes
  <2>3. /\ size'[1] \in Nat /\ size'[2] \in Nat
        /\ size'[1] <= profile.w /\ size'[2] <= profile.h
        /\ size'[1] % 2 = 0 /\ size'[2] % 2 = 0
    BY <2>1, <2>2, TickFits DEF Pairs
  <2>4. \A side \in {1, 2} : size'[side] = 0 => f[side] = 1
    BY <2>1, <2>2, TickFits
  <2>5. profile.w \in Nat /\ profile.h \in Nat
    BY <2>2 DEF Profiles
  <2> HIDE DEF f
  <2> QED
    BY <2>3, <2>4, <2>5
<1> QED
  BY <1>1, TypesInvariance, PTL DEF Spec, FramesFit

-----------------------------------------------------------------------------
(* What the viewer knows.  The last stats frame on its way, or the last the *)
(* viewer saw, says the bitrate in force, unless one is owed or was lost.  *)

Latest == IF events = <<>> THEN ui ELSE events[Len(events)]

ReportInv == ~pending /\ ~lost => Latest = profile.bps

\* A stats frame that finds a place is the latest.
LEMMA Reported ==
  ASSUME events \in Seq(Nat), NEW pr, pr.bps \in Nat, SendStats(pr)
  PROVE  lost' \/ Latest' = pr.bps
<1> DEFINE n == pr.bps
<1>1. lost' = TRUE \/ events' = Append(events, n)
  BY DEF SendStats
<1> HIDE DEF n
<1>2. CASE events' = Append(events, n)
  <2>1. Len(events') = Len(events) + 1 /\ Len(events) \in Nat /\ events'[Len(events) + 1] = n
    BY <1>2, AppendProperties, LenProperties DEF n
  <2>2. events' # <<>>
    BY <2>1, EmptySeq
  <2> QED
    BY <2>1, <2>2 DEF Latest, n
<1> QED
  BY <1>1, <1>2

\* One that the viewer takes leaves the latest what it was.
LEMMA Forwarded ==
  ASSUME events \in Seq(Nat), ForwardStats
  PROVE  Latest' = Latest
<1>1. events # <<>> /\ events' = Tail(events) /\ ui' = Head(events)
  BY DEF ForwardStats
<1>2. /\ Len(events) \in Nat \ {0} /\ Len(events') = Len(events) - 1
      /\ Head(events) = events[1]
      /\ \A i \in 1..Len(events') : events'[i] = events[i + 1]
  BY <1>1, EmptySeq, LenProperties, HeadTailProperties
<1>3. events' \in Seq(Nat)
  BY <1>1, HeadTailProperties
<1>4. CASE Len(events) = 1
  <2>1. events' = <<>>
    BY <1>2, <1>3, <1>4, EmptySeq
  <2> QED
    BY <1>1, <1>2, <1>4, <2>1 DEF Latest
<1>5. CASE Len(events) > 1
  <2>1. events' # <<>>
    BY <1>2, <1>5, EmptySeq
  <2>2. events'[Len(events')] = events[Len(events)]
    BY <1>2, <1>5
  <2> QED
    BY <1>1, <2>1, <2>2 DEF Latest
<1> QED
  BY <1>2, <1>4, <1>5

LEMMA ReportStep ==
  ASSUME TypeInv, TypeInv', ReportInv, [Next]_vars
  PROVE  ReportInv'
<1> DEFINE Same == UNCHANGED <<events, ui, pending, lost, profile>>
<1>1. CASE Same
  BY <1>1 DEF ReportInv, Latest
<1>2. events \in Seq(Nat) /\ profile.bps \in Nat /\ profile'.bps \in Nat
  BY ProfileFacts DEF TypeInv, QueueTypes, QualityTypes
<1>3. CASE TakeBitrate
  <2>1. \/ Same
        \/ profile' = [profile EXCEPT !.bps = Head(control).bps] /\ SendStats(profile')
    BY <1>3 DEF TakeBitrate, RetargetEncoder, dispatch
  <2>2. CASE SendStats(profile')
    BY <1>2, <2>2, Reported DEF ReportInv
  <2> QED
    BY <1>1, <2>1, <2>2
<1>4. CASE SwapRefused \/ SwapFails
  <2>1. SendStats(profile) /\ profile' = profile
    BY <1>4 DEF SwapRefused, SwapFails, quality
  <2> QED
    BY <1>2, <2>1, Reported DEF ReportInv
<1>5. CASE SwapDone
  <2>1. Same \/ pending' = TRUE
    BY <1>5 DEF SwapDone, dispatch
  <2> QED
    BY <1>1, <2>1 DEF ReportInv
<1>6. CASE TickEncodes
  <2>1. CASE pending' = TRUE
    BY <2>1 DEF ReportInv
  <2>2. CASE pending /\ SendStats(profile) /\ profile' = profile
    BY <1>2, <2>2, Reported DEF ReportInv
  <2>3. CASE ~pending /\ UNCHANGED <<events, lost, profile, ui>>
    BY <2>3 DEF ReportInv, Latest
  <2> QED
    BY <1>6, <2>1, <2>2, <2>3 DEF TickEncodes, FallBack, dispatch
<1>7. CASE ForwardStats
  <2>1. Latest' = Latest /\ UNCHANGED <<pending, lost, profile>>
    BY <1>2, <1>7, Forwarded DEF ForwardStats, quality
  <2> QED
    BY <2>1 DEF ReportInv
<1>8. CASE CaptureStep
  BY <1>1, <1>8 DEF CaptureStep, FirstFrame, RecorderFails, FrameArrives, StopFlagSeen,
              CaptureWindow, WindowEnds, quality, channels, dispatch
<1>9. CASE StopSeen \/ StreamEnds \/ SwapStarts \/ SwapBuilt \/ TickIdle \/ TickFails
  BY <1>1, <1>9 DEF StopSeen, StreamEnds, SwapStarts, SwapBuilt, TickIdle, TickFails,
              StreamFails, quality, channels, dispatch
<1>10. CASE SessionStep
  BY <1>1, <1>10 DEF SessionStep, Connected, NotConnected, SessionStops, RouteFails,
              SessionCloses, ProcessAborts, quality, channels, dispatch
<1>11. CASE DispatchStep /\ ~ForwardStats
  BY <1>1, <1>11 DEF DispatchStep, ChannelOpens, ChannelNeverOpens, ChannelCloses,
              DispatcherEnds, ViewerCommands, DispatcherSends, SendFails, ViewerInput, quality,
              channels
<1>12. CASE SamplerStep
  BY <1>1, <1>12 DEF SamplerStep, SamplerDecides, SamplerSends, quality, channels, dispatch
<1>13. CASE UNCHANGED vars
  BY <1>1, <1>13 DEF vars, quality, channels, dispatch
<1> QED
  BY <1>3, <1>4, <1>5, <1>6, <1>7, <1>8, <1>9, <1>10, <1>11, <1>12, <1>13 DEF Next, StreamStep

\* A viewer to whom no stats frame is on its way knows the bitrate in force,
\* unless one found the events channel full (desktop.rs send_stats,
\* pending_stats; main.rs events_rx).
THEOREM ViewerKnows == Spec => []ViewerKnowsBitrate
<1>1. Init => ReportInv
  BY DEF Init, ReportInv
<1>2. TypeInv /\ TypeInv' /\ ReportInv /\ [Next]_vars => ReportInv'
  BY ReportStep
<1>3. ReportInv => ViewerKnowsBitrate
  BY DEF ReportInv, ViewerKnowsBitrate, Latest
<1> QED
  BY <1>1, <1>2, <1>3, TypesInvariance, PTL DEF Spec

-----------------------------------------------------------------------------
(* Auto-ABR against the viewer.  A retarget overrules the viewer if its     *)
(* bitrate was taken before it, or waits in front of it: at most one does,  *)
(* the one the sampler was sending when the latch closed.                   *)

IsAuto(c) == c.type = "bitrate" /\ c.auto
IsManual(c) == c.type = "bitrate" /\ ~c.auto

\* The retargets of q that overrule, when o is the history.
Overruling(q, o) ==
  {i \in 1..Len(q) : IsAuto(q[i]) /\ (o # None \/ \E j \in 1..(i - 1) : IsManual(q[j]))}

AutoInv ==
  /\ overruled \in {None, 0, 1}
  /\ sending # None => ~IsAuto(sending)
  /\ ~manual => /\ overruled = None /\ (sending # None => ~IsManual(sending))
                /\ \A i \in 1..Len(control) : ~IsManual(control[i])
  /\ \A i, j \in Overruling(control, overruled) : i = j
  /\ Overruling(control, overruled) # {} => overruled # 1 /\ abr # "sending"
  /\ manual /\ abr = "sending" => overruled # 1

\* Nothing overrules before a viewer's bitrate.
LEMMA NoneOverrules ==
  ASSUME NEW q, \A i \in 1..Len(q) : ~IsManual(q[i]), Len(q) \in Nat
  PROVE  Overruling(q, None) = {}
BY DEF Overruling

\* What overrules once the first command was taken did so before.
LEMMA TakeOverrules ==
  ASSUME NEW S, NEW q \in Seq(S), q # <<>>, NEW o, NEW n,
         o = None /\ n # None => IsManual(Head(q))
  PROVE  \A i \in Overruling(Tail(q), n) : i \in Nat /\ i + 1 \in Overruling(q, o)
<1>1. /\ Len(q) \in Nat \ {0} /\ Len(Tail(q)) = Len(q) - 1 /\ Head(q) = q[1]
      /\ \A i \in 1..Len(Tail(q)) : Tail(q)[i] = q[i + 1]
  BY EmptySeq, LenProperties, HeadTailProperties
<1> SUFFICES ASSUME NEW i \in Overruling(Tail(q), n)
             PROVE  i \in Nat /\ i + 1 \in Overruling(q, o)
  OBVIOUS
<1>2. /\ i \in 1..(Len(q) - 1) /\ IsAuto(Tail(q)[i])
      /\ n # None \/ \E j \in 1..(i - 1) : IsManual(Tail(q)[j])
  BY <1>1 DEF Overruling
<1>3. i + 1 \in 1..Len(q) /\ IsAuto(q[i + 1])
  BY <1>1, <1>2
<1>4. o # None \/ \E j \in 1..i : IsManual(q[j])
  <2>1. CASE n # None
    BY <1>1, <1>2, <2>1
  <2>2. ASSUME NEW j \in 1..(i - 1), IsManual(Tail(q)[j]) PROVE \E k \in 1..i : IsManual(q[k])
    <3>1. j \in 1..Len(Tail(q)) /\ j + 1 \in 1..i
      BY <1>1, <1>2
    <3>2. IsManual(q[j + 1])
      BY <1>1, <2>2, <3>1
    <3> QED
      BY <3>1, <3>2
  <2> QED
    BY <1>2, <2>1, <2>2
<1>5. (i + 1) - 1 = i /\ i \in Nat
  BY <1>2, <1>1
<1> QED
  BY <1>3, <1>4, <1>5 DEF Overruling

\* A command that is put last overrules, if at all, alone.
LEMMA PutOverrules ==
  ASSUME NEW S, NEW q \in Seq(S), NEW c \in S, NEW o
  PROVE  \A i \in Overruling(Append(q, c), o) :
           i \in Overruling(q, o) \/ (i = Len(q) + 1 /\ IsAuto(c))
<1>1. /\ Len(q) \in Nat /\ Len(Append(q, c)) = Len(q) + 1 /\ Append(q, c)[Len(q) + 1] = c
      /\ \A i \in 1..Len(q) : Append(q, c)[i] = q[i]
  BY AppendProperties, LenProperties
<1> SUFFICES ASSUME NEW i \in Overruling(Append(q, c), o), i # Len(q) + 1
             PROVE  i \in Overruling(q, o)
  <2>1. Append(q, c)[Len(q) + 1] = c
    BY <1>1
  <2> QED
    BY <2>1 DEF Overruling
<1>2. /\ i \in 1..Len(q) /\ IsAuto(Append(q, c)[i])
      /\ o # None \/ \E j \in 1..(i - 1) : IsManual(Append(q, c)[j])
  BY <1>1 DEF Overruling
<1>3. IsAuto(q[i]) /\ \A j \in 1..(i - 1) : Append(q, c)[j] = q[j]
  BY <1>1, <1>2
<1> QED
  BY <1>2, <1>3 DEF Overruling

\* The viewer's bitrates among the commands, when one is put or taken.
LEMMA ManualMoves ==
  ASSUME NEW S, NEW q \in Seq(S), \A i \in 1..Len(q) : ~IsManual(q[i])
  PROVE  /\ q # <<>> => \A i \in 1..Len(Tail(q)) : ~IsManual(Tail(q)[i])
         /\ \A c \in S : ~IsManual(c) =>
              \A i \in 1..Len(Append(q, c)) : ~IsManual(Append(q, c)[i])
<1>1. ASSUME q # <<>>, NEW i \in 1..Len(Tail(q)) PROVE ~IsManual(Tail(q)[i])
  <2>1. Len(Tail(q)) = Len(q) - 1 /\ Len(q) \in Nat /\ Tail(q)[i] = q[i + 1]
    BY <1>1, LenProperties, HeadTailProperties
  <2>2. i + 1 \in 1..Len(q)
    BY <2>1
  <2> QED
    BY <2>1, <2>2
<1>2. ASSUME NEW c \in S, ~IsManual(c), NEW i \in 1..Len(Append(q, c))
      PROVE  ~IsManual(Append(q, c)[i])
  <2>1. /\ Len(q) \in Nat /\ Len(Append(q, c)) = Len(q) + 1 /\ Append(q, c)[Len(q) + 1] = c
        /\ \A k \in 1..Len(q) : Append(q, c)[k] = q[k]
    BY AppendProperties, LenProperties
  <2>2. CASE i = Len(q) + 1
    BY <1>2, <2>1, <2>2
  <2>3. CASE i \in 1..Len(q)
    BY <2>1, <2>3
  <2> QED
    BY <2>1, <2>2, <2>3
<1> QED
  BY <1>1, <1>2

\* The stream takes a command.
LEMMA TakeKeeps ==
  ASSUME TypeInv, AutoInv, control # <<>>, control' = Tail(control),
         UNCHANGED <<sending, manual, abr>>,
         \/ overruled' = overruled
         \/ IsManual(Head(control)) /\ overruled = None /\ overruled' = 0
         \/ IsAuto(Head(control)) /\ overruled # None /\ overruled' = overruled + 1
  PROVE  AutoInv'
<1> DEFINE old == Overruling(control, overruled)
           new == Overruling(control', overruled')
<1>1. control \in Seq(Commands)
  BY DEF TypeInv, QueueTypes
<1>2. \A i \in new : i \in Nat /\ i + 1 \in old
  BY <1>1, TakeOverrules
<1>3. Len(control) \in Nat \ {0} /\ Head(control) = control[1]
  BY <1>1, EmptySeq, LenProperties, HeadTailProperties
<1>4. IsAuto(Head(control)) /\ overruled # None => 1 \in old
  BY <1>3 DEF Overruling
<1>5. 1 \notin new \/ 2 \in old
  BY <1>2
<1>6. \A i, j \in new : i = j
  BY <1>2 DEF AutoInv
<1>7. IsAuto(Head(control)) /\ overruled # None => new = {} /\ overruled = 0 /\ abr # "sending"
  <2> SUFFICES ASSUME 1 \in old PROVE new = {} /\ overruled # 1 /\ abr # "sending" 
    BY <1>4, Constants DEF AutoInv
  <2>1. \A i \in new : i + 1 = 1 /\ i \in Nat
    BY <1>2 DEF AutoInv
  <2>2. \A i \in new : i \notin 1..Len(control')
    BY <2>1
  <2>3. new = {}
    BY <2>2 DEF Overruling
  <2> QED
    BY <2>3 DEF AutoInv
<1>8. new # {} => old # {}
  BY <1>2
<1>9. ~manual => \A i \in 1..Len(control') : ~IsManual(control'[i])
  BY <1>1, ManualMoves DEF AutoInv
<1>10. ~manual => ~IsManual(Head(control))
  BY <1>3 DEF AutoInv
<1> HIDE DEF old, new
<1>11. /\ overruled \in {None, 0, 1}
       /\ old # {} => overruled # 1 /\ abr # "sending"
       /\ sending # None => ~IsAuto(sending)
       /\ ~manual => overruled = None /\ (sending # None => ~IsManual(sending))
       /\ manual /\ abr = "sending" => overruled # 1
  BY DEF AutoInv, old
<1>12. /\ overruled' \in {None, 0, 1} /\ (~manual => overruled' = None)
       /\ new # {} => overruled' # 1 /\ abr # "sending"
       /\ manual /\ abr = "sending" => overruled' # 1
  BY <1>7, <1>8, <1>10, <1>11, Constants
<1> QED
  BY <1>6, <1>9, <1>11, <1>12 DEF AutoInv, new

\* A command is put on the control channel.
LEMMA PutKeeps ==
  ASSUME TypeInv, AutoInv, NEW c \in Commands, control' = Append(control, c),
         UNCHANGED <<manual, overruled>>, sending' = sending \/ sending' = None,
         ~manual => ~IsManual(c),
         \/ ~IsAuto(c) /\ abr' = abr
         \/ abr = "sending" /\ abr' = "idle"
  PROVE  AutoInv'
<1> DEFINE old == Overruling(control, overruled)
           new == Overruling(control', overruled')
           len == Len(control)
<1>1. control \in Seq(Commands)
  BY DEF TypeInv, QueueTypes
<1>2. \A i \in new : i \in old \/ (i = len + 1 /\ IsAuto(c))
  BY <1>1, PutOverrules
<1>3. ~manual => \A i \in 1..Len(control') : ~IsManual(control'[i])
  BY <1>1, ManualMoves DEF AutoInv
<1>4. ~manual => new = {}
  <2>1. Len(control') \in Nat
    BY <1>1, AppendProperties, LenProperties
  <2> QED
    BY <1>3, <2>1, NoneOverrules DEF AutoInv
<1> HIDE DEF old, new, len
<1>5. /\ overruled \in {None, 0, 1}
      /\ old # {} => overruled # 1 /\ abr # "sending"
      /\ \A i, j \in old : i = j
      /\ sending # None => ~IsAuto(sending)
      /\ ~manual => overruled = None /\ (sending # None => ~IsManual(sending))
      /\ manual /\ abr = "sending" => overruled # 1
  BY DEF AutoInv, old
<1>6. \A i, j \in new : i = j
  BY <1>2, <1>5
<1>7. new # {} => overruled # 1 /\ abr' # "sending"
  BY <1>2, <1>4, <1>5
<1> QED
  BY <1>3, <1>5, <1>6, <1>7 DEF AutoInv, new

LEMMA AutoStep ==
  ASSUME TypeInv, AutoInv, [Next]_vars
  PROVE  AutoInv'
<1> DEFINE Same == UNCHANGED <<control, overruled, sending, manual, abr>>
<1>1. CASE Same
  BY <1>1 DEF AutoInv, Overruling
<1>2. control \in Seq(Commands) /\ Len(control) \in Nat
  BY LenProperties DEF TypeInv, QueueTypes
\* The channel is cleared, the sampler or the command of the dispatcher is gone.
<1>3. ASSUME control' = control \/ control' = <<>>, UNCHANGED <<overruled, manual>>,
             sending' = sending \/ sending' = None, abr' = abr \/ abr' \in {"idle", "gone"}
      PROVE  AutoInv'
  <2>1. CASE control' = <<>>
    <3>1. Overruling(control', overruled') = {} /\ Len(control') = 0
      BY <2>1 DEF Overruling
    <3> QED
      BY <1>3, <3>1 DEF AutoInv
  <2>2. CASE control' = control
    BY <1>3, <2>2 DEF AutoInv, Overruling
  <2> QED
    BY <1>3, <2>1, <2>2
<1>4. CASE CaptureStep
  BY <1>1, <1>4 DEF CaptureStep, FirstFrame, RecorderFails, FrameArrives, StopFlagSeen,
              CaptureWindow, WindowEnds, channels, dispatch, sampler
<1>5. CASE TakeBitrate
  <2>1. /\ control # <<>> /\ control' = Tail(control) /\ UNCHANGED <<sending, manual, abr>>
        /\ Head(control).type = "bitrate"
        /\ \/ overruled' = overruled
           \/ ~Head(control).auto /\ overruled = None /\ overruled' = 0
           \/ Head(control).auto /\ overruled # None /\ overruled' = overruled + 1
    BY <1>5 DEF TakeBitrate, HasCommand, dispatch, sampler
  <2> QED
    BY <2>1, TakeKeeps DEF IsAuto, IsManual
<1>6. CASE SwapRefused \/ SwapStarts
  <2>1. /\ control # <<>> /\ control' = Tail(control) /\ UNCHANGED <<sending, manual, abr>>
        /\ overruled' = overruled
    BY <1>6 DEF SwapRefused, SwapStarts, HasCommand, dispatch, sampler
  <2> QED
    BY <2>1, TakeKeeps
<1>7. CASE StreamStep /\ ~(TakeBitrate \/ SwapRefused \/ SwapStarts)
  BY <1>3, <1>7 DEF StreamStep, StopSeen, StreamEnds, SwapBuilt, SwapDone, SwapFails, TickIdle,
              TickEncodes, TickFails, StreamFails, channels, dispatch, sampler
<1>8. CASE SessionStep
  <2>1. CASE Connected
    BY <1>3, <2>1 DEF Connected, channels
  <2>2. CASE SessionStep /\ ~Connected
    BY <1>3, <2>2 DEF SessionStep, NotConnected, SessionStops, RouteFails, SessionCloses,
                ProcessAborts, AbortCompanions, channels, dispatch, sampler
  <2> QED
    BY <1>8, <2>1, <2>2
<1>9. CASE ViewerCommands
  <2>1. /\ UNCHANGED <<control, overruled, abr>>
        /\ \/ (\E bps \in Bitrates : sending' = SetBitrate(clamp_bitrate(bps), FALSE)) /\ manual' = TRUE
           \/ (\E id \in Sources \cup {Unknown} : sending' = SourceSwap(id)) /\ manual' = manual
    BY <1>9 DEF ViewerCommands, channels, sampler
  <2>2. ASSUME NEW bps \in Bitrates, sending' = SetBitrate(clamp_bitrate(bps), FALSE),
               manual' = TRUE
        PROVE  AutoInv'
    <3>1. ~IsAuto(sending')
      BY <2>2, Zenon DEF IsAuto, SetBitrate
    <3>2. abr = "sending" => overruled # 1
      BY Constants DEF AutoInv
    <3>3. Overruling(control', overruled') = Overruling(control, overruled)
      BY <2>1
    <3>4. manual' /\ UNCHANGED <<abr, overruled>>
      BY <2>1, <2>2
    <3> QED
      BY <3>1, <3>2, <3>3, <3>4 DEF AutoInv
  <2>3. ASSUME NEW id \in Sources \cup {Unknown}, sending' = SourceSwap(id), manual' = manual
        PROVE  AutoInv'
    <3>1. ~IsAuto(sending') /\ ~IsManual(sending')
      BY <2>3 DEF IsAuto, IsManual, SourceSwap
    <3> QED
      BY <2>1, <2>3, <3>1 DEF AutoInv, Overruling
  <2> QED
    BY <2>1, <2>2, <2>3
<1>10. CASE DispatcherSends
  <2>1. /\ sending # None /\ control' = Append(control, sending) /\ sending' = None
        /\ UNCHANGED <<manual, overruled, abr>>
    BY <1>10 DEF DispatcherSends, sampler
  <2>2. sending \in Commands /\ ~IsAuto(sending) /\ (~manual => ~IsManual(sending))
    BY <2>1 DEF TypeInv, CompanionTypes, AutoInv
  <2> QED
    BY <2>1, <2>2, PutKeeps
<1>11. CASE DispatchStep /\ ~(ViewerCommands \/ DispatcherSends)
  BY <1>3, <1>11 DEF DispatchStep, ChannelOpens, ChannelNeverOpens, ChannelCloses,
              DispatcherEnds, SendFails, ForwardStats, ViewerInput, channels, sampler
<1>12. CASE SamplerDecides
  <2>1. ~manual /\ UNCHANGED <<control, overruled, sending, manual>>
    BY <1>12 DEF SamplerDecides, channels, dispatch
  <2>2. Overruling(control, overruled) = {}
    BY <1>2, <2>1, NoneOverrules DEF AutoInv
  <2> QED
    BY <2>1, <2>2 DEF AutoInv
<1>13. CASE SamplerSends
  <2>1. /\ abr = "sending" /\ UNCHANGED <<sending, manual, overruled>>
        /\ \/ control' = Append(control, SetBitrate(retarget, TRUE)) /\ abr' = "idle"
           \/ control' = control /\ abr' = "gone"
    BY <1>13 DEF SamplerSends, dispatch
  <2>2. SetBitrate(retarget, TRUE) \in Commands
    BY CommandFacts DEF TypeInv, CompanionTypes
  <2>3. ~IsManual(SetBitrate(retarget, TRUE))
    BY Zenon DEF IsManual, SetBitrate
  <2> QED
    BY <1>3, <2>1, <2>2, <2>3, PutKeeps
<1>14. CASE UNCHANGED vars
  BY <1>1, <1>14 DEF vars, channels, dispatch, sampler
<1> QED
  BY <1>4, <1>5, <1>6, <1>7, <1>8, <1>9, <1>10, <1>11, <1>12, <1>13, <1>14
  DEF Next, DispatchStep, SamplerStep

\* Once the encoder took a bitrate of the viewer, at most one retarget of
\* auto-ABR still overrules it, however many bitrates the viewer and GCC ask for
\* and whatever the channels hold (main.rs abr_task, control_task).
THEOREM AutoGivesWayHolds == Spec => []AutoGivesWay
<1>1. Init => AutoInv
  BY DEF Init, AutoInv, Overruling
<1>2. TypeInv /\ AutoInv /\ [Next]_vars => AutoInv'
  BY AutoStep
<1>3. AutoInv => AutoGivesWay
  BY DEF AutoInv, AutoGivesWay
<1> QED
  BY <1>1, <1>2, <1>3, TypesInvariance, PTL DEF Spec

-----------------------------------------------------------------------------
(* The encoder and the profile.                                            *)

\* A profile is a record of its three fields, so that an EXCEPT sets its bitrate.
IsProfile(p) == p = [w |-> p.w, h |-> p.h, bps |-> p.bps]

EncoderInv == IsProfile(profile) /\ EncoderFollowsProfile

\* A session starts with an encoder for its profile.
LEMMA EncoderInit == Init => EncoderInv
BY DesktopAssumption DEF Init, EncoderInv, EncoderFollowsProfile, IsProfile,
                         DEFAULT_1080P30, SAFE_720P30

\* A retarget gives encoder and profile the same bitrate.
LEMMA RetargetAgrees ==
  ASSUME NEW bps, IsProfile(profile), RetargetEncoder(bps)
  PROVE  EncoderInv'
<1>1. profile' = [profile EXCEPT !.bps = bps] /\ encoder' = bps
  BY DEF RetargetEncoder
<1>2. profile = [w |-> profile.w, h |-> profile.h, bps |-> profile.bps]
  BY DEF IsProfile
<1>3. profile' = [w |-> profile.w, h |-> profile.h, bps |-> bps]
  BY <1>1, <1>2
<1>4. QED
  BY <1>1, <1>3 DEF EncoderInv, EncoderFollowsProfile, IsProfile

\* A tick changes both together or neither.
LEMMA TickAgrees ==
  ASSUME EncoderInv, TickEncodes
  PROVE  EncoderInv'
<1>1. CASE UNCHANGED <<profile, encoder>>
  BY <1>1 DEF EncoderInv, EncoderFollowsProfile, IsProfile
<1>2. CASE FallBack
  <2>1. profile' = [w |-> 1280, h |-> 720, bps |-> 4000] /\ encoder' = 4000
    BY <1>2 DEF FallBack, SAFE_720P30
  <2>2. IsProfile(profile')
    BY <2>1 DEF IsProfile
  <2>3. QED
    BY <2>1, <2>2 DEF EncoderInv, EncoderFollowsProfile
<1>3. QED
  BY <1>1, <1>2 DEF TickEncodes

\* Every step keeps the encoder with the profile.
LEMMA EncoderNext == EncoderInv /\ [Next]_vars => EncoderInv'
<1> SUFFICES ASSUME EncoderInv, [Next]_vars
             PROVE  EncoderInv'
  OBVIOUS
<1> DEFINE Same == UNCHANGED <<profile, encoder>>
<1>1. CASE Same
  BY <1>1 DEF EncoderInv, EncoderFollowsProfile, IsProfile
<1>2. CASE TakeBitrate
  <2>1. Same \/ RetargetEncoder(Head(control).bps)
    BY <1>2 DEF TakeBitrate
  <2>2. QED
    BY <1>1, <2>1, RetargetAgrees DEF EncoderInv
<1>3. CASE SwapDone
  BY <1>3 DEF SwapDone, EncoderInv, EncoderFollowsProfile, IsProfile
<1>4. CASE TickEncodes
  BY <1>4, TickAgrees
<1>5. CASE CaptureStep
  <2>1. Same
    BY <1>5 DEF CaptureStep, FirstFrame, RecorderFails, FrameArrives, StopFlagSeen,
                CaptureWindow, WindowEnds, quality
  <2>2. QED
    BY <1>1, <2>1
<1>6. CASE StreamStep /\ ~(TakeBitrate \/ SwapDone \/ TickEncodes)
  <2>1. Same
    BY <1>6 DEF StreamStep, StopSeen, StreamEnds, SwapRefused, SwapStarts, SwapBuilt,
                SwapFails, TickIdle, TickFails, quality
  <2>2. QED
    BY <1>1, <2>1
<1>7. CASE SessionStep
  <2>1. Same
    BY <1>7 DEF SessionStep, Connected, NotConnected, SessionStops, RouteFails,
                SessionCloses, ProcessAborts, quality
  <2>2. QED
    BY <1>1, <2>1
<1>8. CASE DispatchStep
  <2>1. Same
    BY <1>8 DEF DispatchStep, ChannelOpens, ChannelNeverOpens, ChannelCloses, DispatcherEnds,
                ViewerCommands, DispatcherSends, SendFails, ForwardStats, ViewerInput, quality
  <2>2. QED
    BY <1>1, <2>1
<1>9. CASE SamplerStep
  <2>1. Same
    BY <1>9 DEF SamplerStep, SamplerDecides, SamplerSends, quality
  <2>2. QED
    BY <1>1, <2>1
<1>10. CASE UNCHANGED vars
  <2>1. Same
    BY <1>10 DEF vars, quality
  <2>2. QED
    BY <1>1, <2>1
<1>11. QED
  BY <1>2, <1>3, <1>4, <1>5, <1>6, <1>7, <1>8, <1>9, <1>10 DEF Next

\* Whatever retargets, swaps and fall-backs follow one another, the encoder is
\* at the bitrate of the stream's profile (desktop.rs run_stream, swap_source).
THEOREM EncoderFollowsProfileHolds == Spec => []EncoderFollowsProfile
<1>1. EncoderInv => EncoderFollowsProfile
  BY DEF EncoderInv
<1>2. QED
  BY <1>1, EncoderInit, EncoderNext, PTL DEF Spec

-----------------------------------------------------------------------------
(* Keys.  A key can be held only by a dispatcher that runs; the teardown   *)
(* leaves no session closed while one does.  A dispatcher that ends had    *)
(* opened its channel, also when it ends over a command it holds.          *)

Gone == ctl \in {"none", "gone"}

KeysInv ==
  /\ sess = "connecting" => ctl = "none"
  /\ sess = "closed" => Gone
  /\ Gone /\ sess # "exited" => ~held
  /\ ctl # "serving" => sending = None

\* No key is held before the session.
LEMMA KeysInit == Init => KeysInv
BY DEF Init, KeysInv, Gone

\* Every step keeps the keys with a dispatcher that serves.
LEMMA KeysNext == KeysInv /\ [Next]_vars => KeysInv'
<1> SUFFICES ASSUME KeysInv, [Next]_vars
             PROVE  KeysInv'
  OBVIOUS
<1> DEFINE Same == UNCHANGED <<sess, ctl, held, sending>>
<1>1. CASE Same
  BY <1>1 DEF KeysInv, Gone
<1>2. CASE CaptureStep
  <2>1. Same
    BY <1>2 DEF CaptureStep, FirstFrame, RecorderFails, FrameArrives, StopFlagSeen,
                CaptureWindow, WindowEnds, dispatch, input
  <2>2. QED
    BY <1>1, <2>1
<1>3. CASE StreamStep
  <2>1. Same
    BY <1>3 DEF StreamStep, StopSeen, StreamEnds, TakeBitrate, SwapRefused, SwapStarts,
                SwapBuilt, SwapDone, SwapFails, TickIdle, TickEncodes, TickFails, StreamFails,
                dispatch, input
  <2>2. QED
    BY <1>1, <2>1
<1>4. CASE SessionStep
  <2>1. CASE Connected
    BY <2>1 DEF Connected, KeysInv, Gone, input
  <2>2. CASE NotConnected
    BY <2>2 DEF NotConnected, KeysInv, Gone, dispatch, input
  <2>3. CASE SessionStops \/ RouteFails
    BY <2>3 DEF SessionStops, RouteFails, KeysInv, Gone, dispatch, input
  <2>4. CASE SessionCloses
    BY <2>4 DEF SessionCloses, AbortCompanions, DropInjector, KeysInv, Gone
  <2>5. CASE ProcessAborts
    BY <2>5 DEF ProcessAborts, KeysInv, Gone
  <2>6. QED
    BY <1>4, <2>1, <2>2, <2>3, <2>4, <2>5 DEF SessionStep
<1>5. CASE DispatchStep
  <2>1. CASE ChannelOpens
    BY <2>1 DEF ChannelOpens, KeysInv, Gone, input
  <2>2. CASE ctl # "none" /\ DispatcherEnds
    BY <2>2 DEF DispatcherEnds, DropInjector, KeysInv, Gone
  <2>3. CASE ViewerInput
    BY <2>3 DEF ViewerInput, Hears, KeysInv, Gone
  <2>4. CASE ViewerCommands
    BY <2>4 DEF ViewerCommands, Hears, KeysInv, Gone, input
  <2>5. CASE DispatcherSends
    BY <2>5 DEF DispatcherSends, KeysInv, Gone, input
  <2>6. CASE ForwardStats
    BY <1>1, <2>6 DEF ForwardStats, input
  <2>7. CASE SendFails
    BY <2>2, <2>7 DEF SendFails, KeysInv
  <2>8. CASE ChannelNeverOpens \/ ChannelCloses
    BY <2>2, <2>8 DEF ChannelNeverOpens, ChannelCloses, Hears
  <2>9. QED
    BY <1>5, <2>1, <2>3, <2>4, <2>5, <2>6, <2>7, <2>8 DEF DispatchStep
<1>6. CASE SamplerStep
  <2>1. Same
    BY <1>6 DEF SamplerStep, SamplerDecides, SamplerSends, dispatch, input
  <2>2. QED
    BY <1>1, <2>1
<1>7. CASE UNCHANGED vars
  <2>1. Same
    BY <1>7 DEF vars, dispatch, input
  <2>2. QED
    BY <1>1, <2>1
<1>8. QED
  BY <1>2, <1>3, <1>4, <1>5, <1>6, <1>7 DEF Next

\* When the session has closed or its control channel is gone, the host is left
\* with no key pressed (main.rs control_task.abort; input.rs PlatformInjector).
THEOREM KeysReleasedHolds == Spec => []KeysReleased
<1>1. KeysInv => KeysReleased
  BY DEF KeysInv, KeysReleased, Gone
<1>2. QED
  BY <1>1, KeysInit, KeysNext, PTL DEF Spec
===============================================================================
