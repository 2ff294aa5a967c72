----------------------------- MODULE TerminalHost -----------------------------
(***************************************************************************)
(* What a host promises its browser about terminals, as if each create     *)
(* were decided and each shell started in one step: a terminal that was    *)
(* asked for gets a shell or a refusal, it has one live shell at most, and *)
(* all of them together stay within the cap.  The promise ends with the    *)
(* session.                                                                *)
(***************************************************************************)
EXTENDS Naturals, FiniteSets

CONSTANTS Terms, Pids, MaxSessions

VARIABLES
  fate,    \* unused, asked, refused or started; over once the session is
  live,    \* the live shells of each terminal, those that hold it
  open     \* the session is served

hostVars == <<fate, live, open>>

Occupied == {t \in Terms : live[t] # {}}

Init ==
  /\ fate = [t \in Terms |-> "unused"]
  /\ live = [t \in Terms |-> {}]
  /\ open = TRUE

Ask(t) ==
  /\ fate[t] = "unused"
  /\ fate' = [fate EXCEPT ![t] = "asked"]
  /\ UNCHANGED <<live, open>>

Refuse(t) ==
  /\ fate[t] = "asked"
  /\ fate' = [fate EXCEPT ![t] = "refused"]
  /\ UNCHANGED <<live, open>>

\* A terminal whose shell has left it, or that was refused, may get another.
Start(t, p) ==
  /\ fate[t] \in {"asked", "refused", "started"}
  /\ live[t] = {}
  /\ Cardinality(Occupied) < MaxSessions
  /\ fate' = [fate EXCEPT ![t] = "started"]
  /\ live' = [live EXCEPT ![t] = {p}]
  /\ UNCHANGED open

\* The shell exits or gives its terminal up.
End(t) ==
  /\ live[t] # {}
  /\ live' = [live EXCEPT ![t] = {}]
  /\ UNCHANGED <<fate, open>>

Over ==
  /\ open
  /\ open' = FALSE
  /\ fate' = [t \in Terms |-> "over"]
  /\ live' = [t \in Terms |-> {}]

Next ==
  \/ \E t \in Terms : Ask(t) \/ Refuse(t) \/ End(t)
  \/ \E t \in Terms, p \in Pids : Start(t, p)
  \/ Over

Spec == Init /\ [][Next]_hostVars

=============================================================================
