----------------------------- MODULE TimerSpec -----------------------------
(***************************************************************************)
(* What the timer module promises its users, without heap, recycling stack *)
(* or callbacks: armed timers fire at or after their tick, the earliest    *)
(* first, and none that is due is passed over - as long as nobody changed  *)
(* the tick of a queued timer in place.  Timer implements this.            *)
(***************************************************************************)
EXTENDS Integers

CONSTANTS Slots, Cycle

VARIABLES
  armed,      \* timers that will fire
  due,        \* slot |-> tick, meaningful for armed slots
  clock,
  resting,    \* between two passes
  disturbed   \* a queued timer was changed in place

vars == <<armed, due, clock, resting, disturbed>>

Ahead(a, b) ==
  LET d == (a - b) % Cycle IN IF 2 * d >= Cycle THEN d - Cycle ELSE d

Init ==
  /\ armed \subseteq Slots /\ due \in [Slots -> 0 .. Cycle - 1]
  /\ clock = 0 /\ resting = TRUE /\ disturbed = FALSE

SameElsewhere(s) == \A r \in Slots \ {s} : due'[r] = due[r]

Arm(s) ==
  /\ s \notin armed /\ armed' = armed \cup {s}
  /\ SameElsewhere(s)
  /\ disturbed' => disturbed
  /\ UNCHANGED <<clock, resting>>

(* Changes in place: the only steps that may disturb the order. *)
Disarm(s) ==
  /\ s \in armed /\ armed' = armed \ {s} /\ disturbed' \in BOOLEAN
  /\ SameElsewhere(s)
  /\ UNCHANGED <<clock, resting>>

Postpone(s) ==
  /\ s \in armed /\ Ahead(due'[s], due[s]) >= 0 /\ disturbed' \in BOOLEAN
  /\ SameElsewhere(s)
  /\ UNCHANGED <<armed, clock, resting>>

(* The slot of a timer that is not armed may be swept or written over; a sweep
   may restore the order. *)
Sweep ==
  /\ \A s \in armed : due'[s] = due[s]
  /\ disturbed' => disturbed
  /\ UNCHANGED <<armed, clock, resting>>

Fire(s) ==
  /\ ~resting
  /\ s \in armed /\ armed' = armed \ {s}
  /\ Ahead(due[s], clock) <= 0
  /\ ~disturbed => \A r \in armed : Ahead(due[s], due[r]) <= 0
  /\ disturbed' => disturbed
  /\ UNCHANGED <<due, clock, resting>>

Wake ==
  /\ resting /\ resting' = FALSE
  /\ Ahead(clock', clock) >= 0
  /\ UNCHANGED <<armed, due, disturbed>>

Rest ==
  /\ ~resting /\ resting' = TRUE
  /\ ~disturbed => \A s \in armed : Ahead(due[s], clock) > 0
  /\ UNCHANGED <<armed, due, clock, disturbed>>

Next ==
  \/ \E s \in Slots : Arm(s) \/ Disarm(s) \/ Postpone(s) \/ Fire(s)
  \/ Sweep \/ Wake \/ Rest

Spec == Init /\ [][Next]_vars
=============================================================================
