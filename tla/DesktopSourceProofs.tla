-------------------------- MODULE DesktopSourceProofs --------------------------
(***************************************************************************)
(* Capture threads and sources of DesktopStream, for any sources, sizes,   *)
(* capacities and bounds: their types, and which of them a stream owns.    *)
(***************************************************************************)
EXTENDS DesktopStream, DesktopFramesProofs, SequenceTheorems, TLAPS

-----------------------------------------------------------------------------
(* Constants.                                                              *)

\* The sizes a captured frame may have.
Frames == UNION {Sizes[s] : s \in Sources}

LEMMA FrameSides == Frames \subseteq (Nat \ {0}) \X (Nat \ {0})
BY DesktopAssumption DEF Frames

LEMMA Constants ==
  /\ Start \in Sources /\ Unknown \notin Sources /\ None \notin Sources /\ None \notin Nat
  /\ Monitors \cap Windows = {} /\ Sources = Monitors \cup Windows
  /\ \A s \in Sources : Sizes[s] \subseteq Frames /\ Sizes[s] # {}
  /\ SustainFrames \in Nat \ {0} /\ ControlCap \in Nat \ {0} /\ EventsCap \in Nat \ {0}
  /\ MaxThreads \in Nat \ {0} /\ MaxQueue \in Nat \ {0} /\ MaxFrames \in Nat
BY DesktopAssumption DEF Frames, Sources

-----------------------------------------------------------------------------
(* Capture threads.                                                        *)

Places == {"none", "starting", "running", "ended"}

\* A thread's record, its frames with positive sides.
ThreadSet == [id : Sources \cup {None}, owned : BOOLEAN, stop : BOOLEAN, at : Places,
              queue : Seq(Frames), asked : Nat]

\* Once it runs, a thread captures a source.
IsThread(th) == th \in ThreadSet /\ (th.at # "none" => th.id \in Sources)

ThreadTypes == threads \in [ThreadIds -> ThreadSet] /\ \A t \in ThreadIds : IsThread(threads[t])

\* What a thread's own step, or a tick of its source, does to it.
Works(old, new) ==
  /\ IsThread(new)
  /\ new.id = old.id /\ new.owned = old.owned /\ new.stop = old.stop
  /\ old.at = "none" <=> new.at = "none"
  /\ old.at = "ended" => new.at = "ended"

\* All threads, after such a step of one of them.
AllWork == ThreadTypes' /\ \A t \in ThreadIds : Works(threads[t], threads'[t])

LEMMA OneWorks ==
  ASSUME ThreadTypes, NEW t \in ThreadIds, threads' \in [ThreadIds -> ThreadSet],
         \A u \in ThreadIds \ {t} : threads'[u] = threads[u], Works(threads[t], threads'[t])
  PROVE  AllWork
<1>1. \A u \in ThreadIds : Works(threads[u], threads[u])
  BY DEF Works, ThreadTypes
<1>2. \A u \in ThreadIds : Works(threads[u], threads'[u])
  BY <1>1
<1>3. \A u \in ThreadIds : IsThread(threads'[u])
  BY <1>2 DEF Works
<1> QED
  BY <1>2, <1>3 DEF AllWork, ThreadTypes

LEMMA NoneWorks ==
  ASSUME ThreadTypes, threads' = threads
  PROVE  AllWork
BY DEF AllWork, ThreadTypes, Works

LEMMA EndsWorks ==
  ASSUME ThreadTypes, NEW t \in ThreadIds, threads[t].at # "none",
         threads' = [threads EXCEPT ![t].at = "ended"]
  PROVE  AllWork
<1>1. threads \in [ThreadIds -> ThreadSet] /\ threads[t].id \in Sources
  BY DEF ThreadTypes, IsThread
<1>2. threads' \in [ThreadIds -> ThreadSet] /\ \A u \in ThreadIds \ {t} : threads'[u] = threads[u]
  BY <1>1 DEF ThreadSet, Places
<1>3. Works(threads[t], threads'[t])
  BY <1>1 DEF ThreadSet, Places, Works, IsThread
<1> QED
  BY <1>2, <1>3, OneWorks

LEMMA FirstFrameWorks ==
  ASSUME ThreadTypes, NEW t \in ThreadIds, FirstFrame(t)
  PROVE  AllWork
<1>1. threads \in [ThreadIds -> ThreadSet] /\ threads[t].id \in Sources /\ threads[t].at = "starting"
  BY DEF ThreadTypes, IsThread, FirstFrame
<1>2. PICK q \in Seq(Frames) :
        threads' = [threads EXCEPT ![t].at = "running", ![t].queue = q]
  <2>1. PICK sz \in Sizes[threads[t].id] :
          threads' = [threads EXCEPT ![t].at = "running",
                                     ![t].queue = IF threads[t].owned THEN <<sz>> ELSE <<>>]
    BY DEF FirstFrame
  <2>2. (IF threads[t].owned THEN <<sz>> ELSE <<>>) \in Seq(Frames)
    BY <1>1, Constants
  <2> QED
    BY <2>1, <2>2
<1>3. threads' \in [ThreadIds -> ThreadSet] /\ \A u \in ThreadIds \ {t} : threads'[u] = threads[u]
  BY <1>1, <1>2 DEF ThreadSet, Places
<1>4. Works(threads[t], threads'[t])
  BY <1>1, <1>2 DEF ThreadSet, Places, Works, IsThread
<1> QED
  BY <1>3, <1>4, OneWorks

LEMMA FrameArrivesWorks ==
  ASSUME ThreadTypes, NEW t \in ThreadIds, FrameArrives(t)
  PROVE  AllWork
<1>1. threads \in [ThreadIds -> ThreadSet] /\ threads[t].id \in Sources /\ threads[t].at = "running"
  BY DEF ThreadTypes, IsThread, FrameArrives
<1>2. PICK sz \in Sizes[threads[t].id] :
        \/ threads' = [threads EXCEPT ![t].queue = Append(@, sz)]
        \/ threads' = [threads EXCEPT ![t].at = "ended"]
  BY DEF FrameArrives
<1>3. CASE threads' = [threads EXCEPT ![t].at = "ended"]
  BY <1>1, <1>3, EndsWorks
<1>4. CASE threads' = [threads EXCEPT ![t].queue = Append(@, sz)]
  <2> DEFINE q == Append(threads[t].queue, sz)
  <2>1. q \in Seq(Frames)
    BY <1>1, Constants, AppendProperties DEF ThreadSet
  <2>2. threads' = [threads EXCEPT ![t].queue = q]
    BY <1>4
  <2> HIDE DEF q
  <2>3. threads' \in [ThreadIds -> ThreadSet] /\ \A u \in ThreadIds \ {t} : threads'[u] = threads[u]
    BY <1>1, <2>1, <2>2 DEF ThreadSet
  <2>4. Works(threads[t], threads'[t])
    BY <1>1, <2>1, <2>2 DEF ThreadSet, Works, IsThread
  <2> QED
    BY <2>3, <2>4, OneWorks
<1> QED
  BY <1>2, <1>3, <1>4

LEMMA CaptureWindowWorks ==
  ASSUME ThreadTypes, NEW t \in ThreadIds, CaptureWindow(t)
  PROVE  AllWork
<1>1. /\ threads \in [ThreadIds -> ThreadSet] /\ threads[t].id \in Sources
      /\ threads[t].at = "running"
  BY DEF ThreadTypes, IsThread, CaptureWindow
<1> DEFINE n == threads[t].asked - 1
<1>2. n \in Nat
  <2>1. threads[t].asked \in Nat /\ threads[t].asked > 0
    BY <1>1 DEF ThreadSet, CaptureWindow
  <2> QED
    BY <2>1
<1>3. CASE threads' = [threads EXCEPT ![t].asked = @ - 1]
  <2>1. threads' = [threads EXCEPT ![t].asked = n]
    BY <1>3
  <2> HIDE DEF n
  <2>2. threads' \in [ThreadIds -> ThreadSet] /\ \A u \in ThreadIds \ {t} : threads'[u] = threads[u]
    BY <1>1, <1>2, <2>1 DEF ThreadSet
  <2>3. Works(threads[t], threads'[t])
    BY <1>1, <1>2, <2>1 DEF ThreadSet, Works, IsThread
  <2> QED
    BY <2>2, <2>3, OneWorks
<1>4. ASSUME NEW sz \in Sizes[threads[t].id],
             threads' = [threads EXCEPT ![t].asked = @ - 1, ![t].queue = Append(@, sz)]
      PROVE  AllWork
  <2> DEFINE q == Append(threads[t].queue, sz)
  <2>1. q \in Seq(Frames)
    BY <1>1, Constants, AppendProperties DEF ThreadSet
  <2>2. threads' = [threads EXCEPT ![t].asked = n, ![t].queue = q]
    BY <1>1, <1>4
  <2> HIDE DEF q, n
  <2>3. threads' \in [ThreadIds -> ThreadSet] /\ \A u \in ThreadIds \ {t} : threads'[u] = threads[u]
    BY <1>1, <1>2, <2>1, <2>2 DEF ThreadSet
  <2>4. Works(threads[t], threads'[t])
    BY <1>1, <1>2, <2>1, <2>2 DEF ThreadSet, Works, IsThread
  <2> QED
    BY <2>3, <2>4, OneWorks
<1> HIDE DEF n
<1>5. \/ threads' = [threads EXCEPT ![t].asked = @ - 1]
      \/ \E sz \in Sizes[threads[t].id] :
           threads' = [threads EXCEPT ![t].asked = @ - 1, ![t].queue = Append(@, sz)]
      \/ threads' = [threads EXCEPT ![t].at = "ended"]
  BY DEF CaptureWindow
<1> QED
  BY <1>1, <1>3, <1>4, <1>5, EndsWorks

\* A step of a capture thread.
LEMMA CaptureWorks ==
  ASSUME ThreadTypes, CaptureStep
  PROVE  AllWork
<1>1. PICK t \in ThreadIds : \/ FirstFrame(t) \/ RecorderFails(t) \/ FrameArrives(t)
                             \/ StopFlagSeen(t) \/ CaptureWindow(t) \/ WindowEnds(t)
  BY DEF CaptureStep
<1>2. CASE RecorderFails(t)
  BY <1>2, EndsWorks DEF RecorderFails
<1>3. CASE StopFlagSeen(t)
  BY <1>3, EndsWorks DEF StopFlagSeen
<1>4. CASE WindowEnds(t)
  BY <1>4, EndsWorks DEF WindowEnds
<1> QED
  BY <1>1, <1>2, <1>3, <1>4, FirstFrameWorks, FrameArrivesWorks, CaptureWindowWorks

\* A tick of the stream's source.
LEMMA TickWorks ==
  ASSUME ThreadTypes, source \in ThreadIds,
         threads' = [threads EXCEPT ![source] = Polled(@)]
  PROVE  AllWork
<1> DEFINE th == threads[source]
<1>1. th \in ThreadSet /\ IsThread(th)
  BY DEF ThreadTypes
<1>2. <<>> \in Seq(Frames)
  OBVIOUS
<1>3. (IF th.at = "running" THEN th.asked + 1 ELSE th.asked) \in Nat
  BY <1>1 DEF ThreadSet
<1>4. Polled(th) \in ThreadSet
  BY <1>1, <1>2, <1>3 DEF Polled, ThreadSet
<1>5. /\ Polled(th).id = th.id /\ Polled(th).owned = th.owned /\ Polled(th).stop = th.stop
      /\ Polled(th).at = th.at
  BY <1>1 DEF Polled, ThreadSet
<1>6. Works(th, Polled(th))
  BY <1>1, <1>4, <1>5 DEF Works, IsThread
<1>7. /\ threads'[source] = Polled(th)
      /\ \A u \in ThreadIds \ {source} : threads'[u] = threads[u]
      /\ threads' \in [ThreadIds -> ThreadSet]
  BY <1>4 DEF ThreadTypes
<1> QED
  BY <1>6, <1>7, OneWorks

-----------------------------------------------------------------------------
(* The stream's source and the source a swap builds.                       *)

\* The thread delivers to someone and was not told to stop.
Live(t) == threads[t].owned /\ ~threads[t].stop /\ ~Ended(t)

\* The ids are of threads that were started.
IdsShape ==
  /\ source \in 0..MaxThreads /\ next \in 0..MaxThreads
  /\ source # 0 => threads[source].at # "none" /\ next # source
  /\ next # 0 => threads[next].at # "none"

\* What each stage of the stream has.
StageShape ==
  /\ sess = "connecting" => stream = "none"
  /\ stream \in {"none", "run", "stopping"} => next = 0
  /\ (sess = "connecting" \/ stream \in {"run", "building"}) => source # 0 /\ ~threads[source].stop
  /\ stream \in {"joining", "stopping"} => source # 0
  /\ stream \in {"building", "joining"} => next # 0 /\ ~threads[next].stop

\* No other thread is live.
LiveShape == \A t \in ThreadIds : Live(t) => t \in {source, next}

SourceInv == ThreadTypes /\ IdsShape /\ StageShape /\ LiveShape

LEMMA Ids == \A n \in 0..MaxThreads : n # 0 => n \in ThreadIds
BY Constants DEF ThreadIds

LEMMA IdsAreNotZero == \A n \in ThreadIds : n # 0 /\ n \in 0..MaxThreads
BY Constants DEF ThreadIds

\* Work of the threads changes nothing of that.
LEMMA WorkKeeps ==
  ASSUME SourceInv, AllWork, UNCHANGED <<sess, source, next, stream>>
  PROVE  SourceInv'
<1>1. ThreadTypes'
  BY DEF AllWork
<1>2. \A t \in ThreadIds : /\ threads'[t].at = "none" <=> threads[t].at = "none"
                           /\ threads'[t].stop = threads[t].stop
                           /\ threads'[t].owned = threads[t].owned
                           /\ threads[t].at = "ended" => threads'[t].at = "ended"
  BY DEF AllWork, Works
<1>3. IdsShape'
  BY <1>2, Ids DEF SourceInv, IdsShape
<1>4. StageShape'
  BY <1>2, Ids DEF SourceInv, IdsShape, StageShape
<1>5. LiveShape'
  BY <1>2 DEF SourceInv, LiveShape, Live, Ended
<1> QED
  BY <1>1, <1>3, <1>4, <1>5 DEF SourceInv

\* One thread is replaced.
LEMMA OneReplaced ==
  ASSUME ThreadTypes, NEW t \in ThreadIds, NEW new, IsThread(new),
         threads' = [threads EXCEPT ![t] = new]
  PROVE  /\ ThreadTypes' /\ threads'[t] = new
         /\ \A u \in ThreadIds \ {t} : threads'[u] = threads[u]
<1>1. new \in ThreadSet
  BY DEF IsThread
<1>2. /\ threads' \in [ThreadIds -> ThreadSet] /\ threads'[t] = new
      /\ \A u \in ThreadIds \ {t} : threads'[u] = threads[u]
  BY <1>1 DEF ThreadTypes
<1> QED
  BY <1>2 DEF ThreadTypes

\* What the sources' operations make of a thread.
LEMMA StoppedFacts ==
  ASSUME NEW th, IsThread(th)
  PROVE  /\ IsThread(Stopped(th)) /\ Stopped(th).at = th.at
         /\ ~(Stopped(th).owned /\ ~Stopped(th).stop)
<1>1. th \in ThreadSet
  BY DEF IsThread
<1>2. [th EXCEPT !.stop = TRUE] \in ThreadSet
  BY <1>1 DEF ThreadSet
<1>3. [th EXCEPT !.owned = FALSE, !.queue = <<>>] \in ThreadSet
  <2>1. <<>> \in Seq(Frames)
    OBVIOUS
  <2> QED
    BY <1>1, <2>1 DEF ThreadSet
<1>4. /\ [th EXCEPT !.stop = TRUE].at = th.at /\ [th EXCEPT !.stop = TRUE].id = th.id
      /\ [th EXCEPT !.stop = TRUE].stop
  BY <1>1 DEF ThreadSet
<1>5. LET new == [th EXCEPT !.owned = FALSE, !.queue = <<>>]
      IN  new.at = th.at /\ new.id = th.id /\ ~new.owned
  BY <1>1 DEF ThreadSet
<1>6. CASE th.id \in Monitors
  BY <1>2, <1>4, <1>6 DEF Stopped, IsThread
<1>7. CASE th.id \notin Monitors
  BY <1>3, <1>5, <1>7 DEF Stopped, IsThread
<1> QED
  BY <1>6, <1>7

LEMMA DroppedFacts ==
  ASSUME NEW th, IsThread(th)
  PROVE  /\ IsThread(Dropped(th)) /\ Dropped(th).at = th.at
         /\ ~Dropped(th).owned /\ Dropped(th).stop = th.stop
<1>1. th \in ThreadSet
  BY DEF IsThread
<1>2. Dropped(th) \in ThreadSet
  <2>1. <<>> \in Seq(Frames)
    OBVIOUS
  <2> QED
    BY <1>1, <2>1 DEF ThreadSet, Dropped
<1>3. Dropped(th).at = th.at /\ Dropped(th).id = th.id /\ ~Dropped(th).owned /\ Dropped(th).stop = th.stop
  BY <1>1 DEF ThreadSet, Dropped
<1> QED
  BY <1>2, <1>3 DEF IsThread

LEMMA NewFacts ==
  ASSUME NEW id \in Sources
  PROVE  IsThread(New(id)) /\ New(id).at # "none" /\ ~New(id).stop
<1>1. New(id).id = id /\ New(id).at \in {"starting", "running"} /\ ~New(id).stop
  BY DEF New, Thread
<1>2. New(id) \in ThreadSet
  <2>1. <<>> \in Seq(Frames) /\ 0 \in Nat /\ id \in Sources \cup {None}
    OBVIOUS
  <2>2. (IF id \in Monitors THEN "starting" ELSE "running") \in Places
    BY DEF Places
  <2> QED
    BY <2>1, <2>2, Zenon DEF New, Thread, ThreadSet
<1> QED
  BY <1>1, <1>2 DEF IsThread

LEMMA NoThreadFacts == IsThread(NoThread) /\ ~NoThread.owned
BY DEF IsThread, NoThread, ThreadSet, Places

\* Dropping both sources leaves no live thread.
LEMMA DropKeeps ==
  ASSUME SourceInv, DropSources,
         sess' # "connecting", stream' \notin {"run", "building", "joining", "stopping"}
  PROVE  SourceInv'
<1>1. /\ threads' = [t \in ThreadIds |-> IF t \in {source, next} THEN Dropped(threads[t]) ELSE threads[t]]
      /\ source' = 0 /\ next' = 0
  BY DEF DropSources
<1>2. \A t \in ThreadIds : IsThread(threads[t])
  BY DEF SourceInv, ThreadTypes
<1>3. \A t \in ThreadIds : IsThread(threads'[t])
  BY <1>1, <1>2, DroppedFacts
<1>4. threads' \in [ThreadIds -> ThreadSet]
  BY <1>1, <1>2, DroppedFacts DEF IsThread
<1>5. ThreadTypes'
  BY <1>3, <1>4 DEF ThreadTypes
<1>6. IdsShape'
  BY <1>1, Constants DEF IdsShape
<1>7. StageShape'
  BY <1>1 DEF StageShape
<1>8. LiveShape'
  <2>1. \A t \in ThreadIds : t \in {source, next} => ~threads'[t].owned
    BY <1>1, <1>2, DroppedFacts
  <2>2. \A t \in ThreadIds : t \notin {source, next} => threads'[t] = threads[t]
    BY <1>1
  <2> QED
    BY <2>1, <2>2 DEF SourceInv, LiveShape, Live, Ended
<1> QED
  BY <1>5, <1>6, <1>7, <1>8 DEF SourceInv

LEMMA StopSeenKeeps ==
  ASSUME SourceInv, StopSeen
  PROVE  SourceInv'
<1> DEFINE new == Stopped(threads[source])
<1>1. /\ stream = "run" /\ stream' = "stopping" /\ UNCHANGED <<sess, source, next>>
      /\ threads' = [threads EXCEPT ![source] = new] /\ sess = "stopping"
  BY DEF StopSeen
<1>2. ThreadTypes /\ source \in ThreadIds /\ source # 0 /\ next = 0 /\ threads[source].at # "none"
  BY <1>1, Ids DEF SourceInv, StageShape, IdsShape
<1>3. IsThread(threads[source])
  BY <1>2 DEF ThreadTypes
<1>4. IsThread(new) /\ new.at = threads[source].at /\ ~(new.owned /\ ~new.stop)
  BY <1>3, StoppedFacts
<1> HIDE DEF new
<1>5. /\ ThreadTypes' /\ threads'[source] = new
      /\ \A u \in ThreadIds \ {source} : threads'[u] = threads[u]
  BY <1>1, <1>2, <1>4, OneReplaced
<1>6. IdsShape' /\ StageShape'
  BY <1>1, <1>2, <1>4, <1>5 DEF SourceInv, IdsShape, StageShape
<1>7. LiveShape'
  BY <1>1, <1>5 DEF SourceInv, LiveShape, Live, Ended
<1> QED
  BY <1>5, <1>6, <1>7 DEF SourceInv

LEMMA StreamEndsKeeps ==
  ASSUME SourceInv, StreamEnds
  PROVE  SourceInv'
<1>1. /\ stream = "stopping" /\ Ended(source) /\ stream' = "ended" /\ source' = 0
      /\ UNCHANGED <<threads, next, sess>>
  BY DEF StreamEnds
<1>2. ThreadTypes'
  BY <1>1 DEF SourceInv, ThreadTypes
<1>3. next = 0 /\ sess # "connecting"
  BY <1>1 DEF SourceInv, StageShape
<1>4. IdsShape' /\ StageShape'
  BY <1>1, <1>3, Constants DEF SourceInv, IdsShape, StageShape
<1>5. LiveShape'
  BY <1>1 DEF SourceInv, LiveShape, Live, Ended
<1> QED
  BY <1>2, <1>4, <1>5 DEF SourceInv

LEMMA SwapStartsKeeps ==
  ASSUME SourceInv, SwapStarts
  PROVE  SourceInv'
<1>1. PICK n \in Unused : /\ next' = n /\ stream' = "building" /\ stream = "run"
                          /\ threads' = [threads EXCEPT ![n] = New(Head(control).id)]
                          /\ Head(control).id \in Sources /\ UNCHANGED <<sess, source>>
  BY DEF SwapStarts, HasCommand
<1>2. n \in ThreadIds /\ threads[n].at = "none"
  BY DEF Unused
<1>3. /\ ThreadTypes /\ source \in ThreadIds /\ source # 0 /\ next = 0
      /\ threads[source].at # "none" /\ ~threads[source].stop /\ sess # "connecting"
  BY <1>1, Ids DEF SourceInv, StageShape, IdsShape
<1> DEFINE new == New(Head(control).id)
<1>4. IsThread(new) /\ new.at # "none" /\ ~new.stop
  BY <1>1, NewFacts
<1>5. threads' = [threads EXCEPT ![n] = new]
  BY <1>1
<1> HIDE DEF new
<1>6. /\ ThreadTypes' /\ threads'[n] = new
      /\ \A u \in ThreadIds \ {n} : threads'[u] = threads[u]
  BY <1>2, <1>3, <1>4, <1>5, OneReplaced
<1>7. n # source /\ n # 0 /\ n \in 0..MaxThreads
  BY <1>2, <1>3, IdsAreNotZero
<1>8. IdsShape'
  BY <1>1, <1>3, <1>4, <1>6, <1>7 DEF SourceInv, IdsShape
<1>9. StageShape'
  BY <1>1, <1>3, <1>4, <1>6, <1>7 DEF StageShape
<1>10. LiveShape'
  BY <1>1, <1>3, <1>6, IdsAreNotZero DEF SourceInv, LiveShape, Live, Ended
<1> QED
  BY <1>6, <1>8, <1>9, <1>10 DEF SourceInv

LEMMA SwapBuiltKeeps ==
  ASSUME SourceInv, SwapBuilt
  PROVE  SourceInv'
<1> DEFINE new == Stopped(threads[source])
<1>1. /\ stream = "building" /\ stream' = "joining" /\ UNCHANGED <<sess, source, next>>
      /\ threads' = [threads EXCEPT ![source] = new]
  BY DEF SwapBuilt
<1>2. /\ ThreadTypes /\ source \in ThreadIds /\ next \in ThreadIds /\ source # next
      /\ source # 0 /\ next # 0 /\ ~threads[next].stop /\ sess # "connecting"
  BY <1>1, Ids DEF SourceInv, StageShape, IdsShape
<1>3. IsThread(threads[source])
  BY <1>2 DEF ThreadTypes
<1>4. IsThread(new) /\ new.at = threads[source].at /\ ~(new.owned /\ ~new.stop)
  BY <1>3, StoppedFacts
<1> HIDE DEF new
<1>5. /\ ThreadTypes' /\ threads'[source] = new
      /\ \A u \in ThreadIds \ {source} : threads'[u] = threads[u]
  BY <1>1, <1>2, <1>4, OneReplaced
<1>6. IdsShape' /\ StageShape'
  BY <1>1, <1>2, <1>4, <1>5 DEF SourceInv, IdsShape, StageShape
<1>7. LiveShape'
  BY <1>1, <1>5 DEF SourceInv, LiveShape, Live, Ended
<1> QED
  BY <1>5, <1>6, <1>7 DEF SourceInv

LEMMA SwapDoneKeeps ==
  ASSUME SourceInv, SwapDone
  PROVE  SourceInv'
<1>1. stream = "joining" /\ Ended(source) /\ sess' = sess
  BY DEF SwapDone
<1>2. /\ ThreadTypes /\ source \in ThreadIds /\ next \in ThreadIds /\ source # next
      /\ next # 0 /\ ~threads[next].stop /\ threads[next].at # "none" /\ sess # "connecting"
  BY <1>1, Ids DEF SourceInv, StageShape, IdsShape
<1>3. CASE source' = next /\ next' = 0 /\ stream' = "run" /\ threads' = threads
  <2>1. ThreadTypes'
    BY <1>2, <1>3 DEF ThreadTypes
  <2>2. IdsShape'
    BY <1>2, <1>3, Constants, IdsAreNotZero DEF SourceInv, IdsShape
  <2>3. StageShape'
    BY <1>1, <1>2, <1>3 DEF StageShape
  <2>4. LiveShape'
    BY <1>1, <1>3 DEF SourceInv, LiveShape, Live, Ended
  <2> QED
    BY <2>1, <2>2, <2>3, <2>4 DEF SourceInv
<1>4. CASE stream' = "aborted" /\ DropSources
  BY <1>1, <1>2, <1>4, DropKeeps
<1> QED
  BY <1>3, <1>4 DEF SwapDone

LEMMA SwapFailsKeeps ==
  ASSUME SourceInv, SwapFails
  PROVE  SourceInv'
<1> DEFINE new == Dropped(threads[next])
<1>1. /\ stream = "building" /\ stream' = "run" /\ next' = 0 /\ UNCHANGED <<sess, source>>
      /\ threads' = [threads EXCEPT ![next] = new]
  BY DEF SwapFails
<1>2. /\ ThreadTypes /\ source \in ThreadIds /\ next \in ThreadIds /\ source # next
      /\ source # 0 /\ next # 0 /\ ~threads[source].stop /\ threads[source].at # "none"
      /\ sess # "connecting"
  BY <1>1, Ids DEF SourceInv, StageShape, IdsShape
<1>3. IsThread(threads[next])
  BY <1>2 DEF ThreadTypes
<1>4. IsThread(new) /\ ~new.owned
  BY <1>3, DroppedFacts
<1> HIDE DEF new
<1>5. /\ ThreadTypes' /\ threads'[next] = new
      /\ \A u \in ThreadIds \ {next} : threads'[u] = threads[u]
  BY <1>1, <1>2, <1>4, OneReplaced
<1>6. IdsShape'
  BY <1>1, <1>2, <1>5, Constants, IdsAreNotZero DEF SourceInv, IdsShape
<1>7. StageShape'
  BY <1>1, <1>2, <1>5 DEF StageShape
<1>8. LiveShape'
  BY <1>1, <1>4, <1>5 DEF SourceInv, LiveShape, Live, Ended
<1> QED
  BY <1>5, <1>6, <1>7, <1>8 DEF SourceInv

\* Every step keeps the stream's sources in shape.
LEMMA SourceStep ==
  ASSUME SourceInv, [Next]_vars
  PROVE  SourceInv'
<1> DEFINE Same == UNCHANGED <<threads, source, next, stream, sess>>
<1>a. CASE Same
  <2>1. AllWork
    BY <1>a, NoneWorks DEF SourceInv
  <2> QED
    BY <1>a, <2>1, WorkKeeps
<1>b. ASSUME threads' = threads, UNCHANGED <<source, next, stream>>, sess' # "connecting"
      PROVE  SourceInv'
  BY <1>b DEF SourceInv, ThreadTypes, IdsShape, StageShape, LiveShape, Live, Ended
<1>1. CASE CaptureStep
  <2>1. UNCHANGED <<sess, source, next, stream>>
    BY <1>1 DEF CaptureStep, FirstFrame, RecorderFails, FrameArrives, StopFlagSeen,
                CaptureWindow, WindowEnds
  <2> QED
    BY <1>1, <2>1, CaptureWorks, WorkKeeps DEF SourceInv
<1>2. CASE TickIdle \/ TickEncodes
  <2>1. /\ UNCHANGED <<sess, source, next, stream>> /\ stream = "run"
        /\ threads' = [threads EXCEPT ![source] = Polled(@)]
    BY <1>2 DEF TickIdle, TickEncodes, CanTick
  <2>2. source \in ThreadIds
    BY <2>1, Ids DEF SourceInv, StageShape, IdsShape
  <2>3. AllWork
    BY <2>1, <2>2, TickWorks DEF SourceInv
  <2> QED
    BY <2>1, <2>3, WorkKeeps
<1>3. CASE TakeBitrate \/ SwapRefused
  BY <1>3, <1>a DEF TakeBitrate, SwapRefused, capture
<1>4. CASE TickFails
  <2>1. stream = "run" /\ stream' = "failed" /\ DropSources /\ sess' = sess
    BY <1>4 DEF TickFails, StreamFails, CanTick
  <2> QED
    BY <2>1, DropKeeps DEF SourceInv, StageShape
<1>5. CASE Connected
  <2>1. /\ sess = "connecting" /\ sess' = "serving" /\ stream' = "run"
        /\ UNCHANGED <<threads, source, next>>
    BY <1>5 DEF Connected, capture
  <2>2. stream = "none" /\ next = 0 /\ source # 0 /\ ~threads[source].stop
    BY <2>1 DEF SourceInv, StageShape
  <2>3. ThreadTypes' /\ IdsShape' /\ LiveShape'
    BY <2>1 DEF SourceInv, ThreadTypes, IdsShape, LiveShape, Live, Ended
  <2>4. StageShape'
    BY <2>1, <2>2 DEF StageShape
  <2> QED
    BY <2>3, <2>4 DEF SourceInv
<1>6. CASE NotConnected
  <2>1. sess = "connecting" /\ sess' = "closed" /\ DropSources /\ stream' = stream
    BY <1>6 DEF NotConnected
  <2>2. stream = "none"
    BY <2>1 DEF SourceInv, StageShape
  <2> QED
    BY <2>1, <2>2, DropKeeps
<1>7. CASE SessionStops \/ RouteFails
  BY <1>7, <1>b DEF SessionStops, RouteFails, capture
<1>8. CASE SessionCloses
  <2>1. sess' = "closed"
    BY <1>8 DEF SessionCloses
  <2>2. CASE UNCHANGED <<capture, stream>>
    BY <2>1, <2>2, <1>b DEF capture
  <2>3. CASE stream' = "aborted" /\ DropSources
    BY <2>1, <2>3, DropKeeps
  <2> QED
    BY <1>8, <2>2, <2>3 DEF SessionCloses
<1>9. CASE ProcessAborts
  <2>1. /\ StreamGone /\ stream' = stream /\ source' = 0 /\ next' = 0 /\ sess' = "exited"
        /\ threads' = [t \in ThreadIds |-> NoThread]
    BY <1>9 DEF ProcessAborts
  <2>2. \A t \in ThreadIds : threads'[t] = NoThread
    BY <2>1
  <2>3. threads' \in [ThreadIds -> ThreadSet]
    BY <2>1, NoThreadFacts DEF IsThread
  <2>4. ThreadTypes' /\ LiveShape'
    BY <2>2, <2>3, NoThreadFacts DEF ThreadTypes, LiveShape, Live
  <2>5. IdsShape' /\ StageShape'
    BY <2>1, Constants DEF IdsShape, StageShape, StreamGone
  <2> QED
    BY <2>4, <2>5 DEF SourceInv
<1>10. CASE DispatchStep
  BY <1>10, <1>a
  DEF DispatchStep, ChannelOpens, ChannelNeverOpens, ChannelCloses, DispatcherEnds,
      ViewerCommands, DispatcherSends, SendFails, ForwardStats, ViewerInput, capture
<1>11. CASE SamplerStep
  BY <1>11, <1>a DEF SamplerStep, SamplerDecides, SamplerSends, capture
<1>12. CASE UNCHANGED vars
  BY <1>12, <1>a DEF vars, capture
<1>13. StreamStep => \/ StopSeen \/ StreamEnds \/ TakeBitrate \/ SwapRefused \/ SwapStarts \/ SwapBuilt
                     \/ SwapDone \/ SwapFails \/ TickIdle \/ TickEncodes \/ TickFails
  BY DEF StreamStep
<1>14. SessionStep => \/ Connected \/ NotConnected \/ SessionStops \/ RouteFails
                      \/ SessionCloses \/ ProcessAborts
  BY DEF SessionStep
<1> QED
  BY <1>1, <1>2, <1>3, <1>4, <1>5, <1>6, <1>7, <1>8, <1>9, <1>10, <1>11, <1>12, <1>13, <1>14,
     StopSeenKeeps, StreamEndsKeeps, SwapStartsKeeps, SwapBuiltKeeps, SwapDoneKeeps, SwapFailsKeeps
  DEF Next

LEMMA SourceInit == Init => SourceInv
<1> SUFFICES ASSUME Init PROVE SourceInv
  OBVIOUS
<1> DEFINE q == IF Start \in Monitors THEN <<CHOOSE sz \in Sizes[Start] : TRUE>> ELSE <<>>
           th == [Thread(Start, "running") EXCEPT !.queue = q]
<1>1. q \in Seq(Frames)
  <2>1. (CHOOSE sz \in Sizes[Start] : TRUE) \in Frames
    BY Constants
  <2> QED
    BY <2>1
<1>2. threads = [t \in ThreadIds |-> IF t = 1 THEN th ELSE NoThread]
  BY DEF Init
<1> HIDE DEF q
<1>3. Thread(Start, "running") \in ThreadSet
  <2>1. <<>> \in Seq(Frames) /\ 0 \in Nat /\ Start \in Sources \cup {None} /\ "running" \in Places
    BY Constants DEF Places
  <2> QED
    BY <2>1, Zenon DEF Thread, ThreadSet
<1>4. /\ th \in ThreadSet /\ th.id = Start /\ th.at = "running" /\ ~th.stop
  <2>1. Thread(Start, "running").id = Start /\ Thread(Start, "running").at = "running" /\ ~Thread(Start, "running").stop
    BY DEF Thread
  <2> QED
    BY <1>1, <1>3, <2>1 DEF ThreadSet
<1>5. IsThread(th)
  BY <1>4, Constants DEF IsThread
<1> HIDE DEF th
<1>6. 1 \in ThreadIds /\ 1 \in 0..MaxThreads
  BY Constants DEF ThreadIds
<1>7. threads[1] = th /\ \A t \in ThreadIds : t # 1 => threads[t] = NoThread
  BY <1>2, <1>6
<1>8. threads \in [ThreadIds -> ThreadSet]
  BY <1>2, <1>4, NoThreadFacts DEF IsThread
<1>9. ThreadTypes
  BY <1>5, <1>7, <1>8, NoThreadFacts DEF ThreadTypes
<1>10. source = 1 /\ next = 0 /\ stream = "none" /\ sess = "connecting"
  BY DEF Init
<1>11. IdsShape /\ StageShape
  <2>1. threads[source].at # "none" /\ ~threads[source].stop
    BY <1>4, <1>7, <1>10
  <2>2. IdsShape
    BY <1>6, <1>10, <2>1, Constants DEF IdsShape
  <2>3. StageShape
    BY <1>10, <2>1 DEF StageShape
  <2> QED
    BY <2>2, <2>3
<1>12. LiveShape
  BY <1>7, <1>10, NoThreadFacts DEF LiveShape, Live
<1> QED
  BY <1>9, <1>11, <1>12 DEF SourceInv

LEMMA SourceInvariance == Spec => []SourceInv
BY SourceInit, SourceStep, PTL DEF Spec

\* Whatever swaps succeed, fail or time out, the stream that runs owns one
\* source that was not told to stop (desktop.rs swap_source).
THEOREM SwapKeepsOneSourceHolds == Spec => []SwapKeepsOneSource
<1>1. SourceInv => SwapKeepsOneSource
  BY DEF SourceInv, SwapKeepsOneSource, StageShape, LiveShape, Live, Ended, ThreadIds
<1> QED
  BY <1>1, SourceInvariance, PTL

===============================================================================
