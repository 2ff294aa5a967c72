------------------------------ MODULE SignalFeed ------------------------------
(***************************************************************************)
(* What a browser tab is promised about the signals of its session: it     *)
(* hears them in the order in which they were recorded, none twice, and it *)
(* may miss one of the agent's only once that one has expired.  Signals of *)
(* its own it may hear or not.  The promise is void once the server has    *)
(* read the agent's answer together with frames sent after it.             *)
(***************************************************************************)
EXTENDS Naturals, Sequences

VARIABLES
  log,    \* who recorded each signal, in order
  gone,   \* how many of the oldest signals have expired
  got,    \* the signals the tab has heard, as positions in log
  intact  \* the promise still holds

feedVars == <<log, gone, got, intact>>

LastGot == IF got = <<>> THEN 0 ELSE got[Len(got)]

Init == log = <<>> /\ gone = 0 /\ got = <<>> /\ intact = TRUE

Record ==
  /\ \E who \in {"browser", "agent"} : log' = Append(log, who)
  /\ UNCHANGED <<gone, got, intact>>

Expire ==
  /\ gone' \in (gone + 1)..Len(log)
  /\ UNCHANGED <<log, got, intact>>

Hear ==
  /\ \E i \in (LastGot + 1)..Len(log) :
       /\ \A j \in (LastGot + 1)..(i - 1) : log[j] = "agent" => j <= gone
       /\ got' = Append(got, i)
  /\ UNCHANGED <<log, gone, intact>>

\* Frames of one read overtake the answer: nothing is promised any more.
Void ==
  /\ intact' = FALSE
  /\ log' = <<>> /\ gone' = 0 /\ got' = <<>>

Next == intact /\ (Record \/ Expire \/ Hear \/ Void)

Spec == Init /\ [][Next]_feedVars

=============================================================================
