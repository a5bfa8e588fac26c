------------------------------- MODULE Timer -------------------------------
(***************************************************************************)
(* The timer wheel every server of the project runs on (common/timer.c):   *)
(* an array of timer slots, a binary heap of slot numbers ordered by due   *)
(* tick, and a stack of recycled slots.  The users of the API are the      *)
(* scripts' event timers of players (map/pc.c) and of NPCs (map/npc.c),    *)
(* the queued events of a player (map/npc.c) and one interval timer, as    *)
(* every server arms at start-up.                                          *)
(*                                                                         *)
(* Bounds: NumSlots caps timer_data (the code grows it by 256), Cycle is   *)
(* the width of the 32-bit tick, Hour the 3600000 ms delete_timer          *)
(* subtracts, Late the 1000 ms after which a callback is "late".  Each     *)
(* owner has one event timer where the code has MAX_EVENTTIMER.            *)
(***************************************************************************)
EXTENDS Integers, Sequences, FiniteSets

CONSTANTS
  Players,      \* sessions that own a pc_eventtimer
  Npcs,         \* scripts that own an npc_event_timer
  NumSlots,     \* cap on timer_data
  Delays,       \* delays scripts arm event timers with
  QueueDelay,   \* the 100 ms of a queued event
  Stretch,      \* what addtick_timer adds
  Steps,        \* how far the clock moves between two passes of do_timer
  Interval,     \* period of the interval timer
  MaxAhead,     \* cap on how far ahead a timer may be postponed
  Late, Hour, Cycle

ASSUME TimerAssumption ==
  /\ NumSlots \in Nat \ {0} /\ Cycle \in Nat \ {0} /\ Hour \in Nat
  /\ QueueDelay \in Nat /\ Interval \in Nat /\ MaxAhead \in Nat /\ Late \in Nat /\ Stretch \in Nat
  /\ Delays \subseteq Nat /\ Steps \subseteq Nat
  /\ Players \cap Npcs = {}

VARIABLES
  timer_data,       \* slot |-> [tick, func, id, type]
  timer_heap,       \* sequence of slots, a binary heap on tick
  free_timer_list,  \* stack of recycled slots
  timer_data_num,   \* slots ever used
  tick,             \* the clock, as the current pass of do_timer read it
  phase,            \* "idle": packets; "pass": in do_timer; "call": in a callback
  cur,              \* the slot whose callback runs
  eventtimer,       \* owner |-> the timer id it remembers, or NoTimer
  postponed         \* history: a timer was postponed since the heap last held
                    \* nothing but one timer

vars == <<timer_data, timer_heap, free_timer_list, timer_data_num, tick,
          phase, cur, eventtimer, postponed>>

Owners  == Players \cup Npcs
Slots   == 0 .. NumSlots - 1
NoTimer == -1
System  == "system"                 \* owner of the interval timer

TIMER_ONCE_AUTODEL == 1
TIMER_INTERVAL     == 2
TIMER_REMOVE_HEAP  == 16

Funcs == {"pc_eventtimer", "npc_event_timer", "interval", "NULL"}
FuncOf(o) == IF o \in Players THEN "pc_eventtimer" ELSE "npc_event_timer"

SeqRange(s) == {s[i] : i \in DOMAIN s}
Largest(S)  == CHOOSE x \in S : \A y \in S : y <= x

-----------------------------------------------------------------------------
(* Ticks are unsigned and wrap: two of them compare by signed difference. *)
DIFF_TICK(a, b) ==
  LET d == (a - b) % Cycle IN IF 2 * d >= Cycle THEN d - Cycle ELSE d

Due(data, s) == DIFF_TICK(data[s].tick, tick) <= 0

(* Positions of the heap, 1 for the root: those on the way up from one. *)
PathFrom[p \in 1 .. NumSlots] == {p} \cup (IF p = 1 THEN {} ELSE PathFrom[p \div 2])
IsAbove(p, q) == p \in PathFrom[q]

push_at_end(heap, data, s) == Append(heap, s)       \* mutant: no sift-up

(* Sift-up: the new slot stops at the deepest position of the path from the
   new leaf to the root whose parent is not later than it. *)
push_timer_heap(heap, data, s) ==
  LET n     == Len(heap) + 1
      Path  == {p \in 1 .. n : IsAbove(p, n)}
      Later(p) == DIFF_TICK(data[s].tick, data[heap[p \div 2]].tick) < 0
      stop  == Largest({p \in Path : p = 1 \/ ~Later(p)})
  IN [p \in 1 .. n |-> IF p = stop THEN s
                       ELSE IF p \in Path /\ p > stop THEN heap[p \div 2]
                       ELSE heap[p]]

pop_last_to_root(heap, data) ==                     \* mutant: no sift-down
  [p \in 1 .. Len(heap) - 1 |-> IF p = 1 THEN heap[Len(heap)] ELSE heap[p]]

(* The hole left by the root moves down along the earlier child to a leaf;
   the last slot of the heap goes there and sifts up. *)
pop_timer_heap(heap, data) ==
  LET n      == Len(heap) - 1
      last   == heap[n + 1]
      T(p)   == data[heap[p]].tick
      Picked(p) == IF p % 2 = 0 THEN p = n \/ DIFF_TICK(T(p + 1), T(p)) > 0
                                ELSE DIFF_TICK(T(p), T(p - 1)) <= 0
      Hole   == {p \in 1 .. n : \A q \in 2 .. n : IsAbove(q, p) => Picked(q)}
      Below(p) == CHOOSE q \in Hole : q \div 2 = p
      stop   == Largest({p \in Hole : p = 1 \/ DIFF_TICK(T(p), data[last].tick) <= 0})
  IN [p \in 1 .. n |-> IF p = stop THEN last
                       ELSE IF p \in Hole /\ p < stop THEN heap[Below(p)]
                       ELSE heap[p]]

-----------------------------------------------------------------------------
Init ==
  /\ timer_data = [s \in Slots |->
       IF s = 0 THEN [tick |-> Interval % Cycle, func |-> "interval", id |-> System,
                      type |-> TIMER_INTERVAL]
                ELSE [tick |-> 0, func |-> "NULL", id |-> System, type |-> 0]]
  /\ timer_heap = <<0>>
  /\ free_timer_list = <<>>
  /\ timer_data_num = 1
  /\ tick = 0
  /\ phase = "idle"
  /\ cur = NoTimer
  /\ eventtimer = [o \in Owners |-> NoTimer]
  /\ postponed = FALSE

(* Scripts run from packets (between passes), and from callbacks; the
   callback of an NPC's timer looks a session up under the NPC's id, finds
   none and runs nothing. *)
ScriptRuns == phase = "idle" \/ (phase = "call" /\ timer_data[cur].id \notin Npcs)

-----------------------------------------------------------------------------
(* add_timer: take the newest recycled slot, or open a new one. *)
HasSlot == free_timer_list # <<>> \/ timer_data_num < NumSlots
NewSlotKept == IF free_timer_list # <<>>            \* mutant: not the slot taken off
               THEN free_timer_list[1] ELSE timer_data_num

NewSlot == IF free_timer_list # <<>> THEN free_timer_list[Len(free_timer_list)]
                                     ELSE timer_data_num

add_timer(delay, func, id) ==
  /\ HasSlot
  /\ timer_data' = [timer_data EXCEPT ![NewSlot] =
       [tick |-> (tick + delay) % Cycle, func |-> func, id |-> id,
        type |-> TIMER_ONCE_AUTODEL]]
  /\ timer_heap' = push_timer_heap(timer_heap, timer_data', NewSlot)
  /\ IF free_timer_list # <<>>
     THEN /\ free_timer_list' = SubSeq(free_timer_list, 1, Len(free_timer_list) - 1)
          /\ UNCHANGED timer_data_num
     ELSE /\ timer_data_num' = timer_data_num + 1
          /\ UNCHANGED free_timer_list

(* delete_timer: refused for id 0, an id never handed out, or another
   function; otherwise the slot is emptied where it lies in the heap. *)
CanDeleteAny(t, func) == t > 0 /\ t < timer_data_num  \* mutant: func is not compared

CanDelete(t, func) ==
  t > 0 /\ t < timer_data_num /\ timer_data[t].func = func

delete_timer(t, func) ==
  IF CanDelete(t, func)
  THEN timer_data' = [timer_data EXCEPT
         ![t].func = "NULL", ![t].type = TIMER_ONCE_AUTODEL,
         ![t].tick = (@ - Hour) % Cycle]
  ELSE UNCHANGED timer_data

-----------------------------------------------------------------------------
(* pc_addeventtimer, npc_addeventtimer: one free entry is needed. *)
AddEventTimer(o, delay) ==
  /\ ScriptRuns
  /\ eventtimer[o] = NoTimer
  /\ add_timer(delay, FuncOf(o), o)
  /\ eventtimer' = [eventtimer EXCEPT ![o] = NewSlot]
  /\ UNCHANGED <<tick, phase, cur, postponed>>

(* pc_deleventtimer, pc_cleareventtimer, npc_deleventtimer: the entry is
   forgotten whether or not delete_timer accepted it. *)
DelEventTimer(o) ==
  /\ ScriptRuns
  /\ eventtimer[o] # NoTimer
  /\ delete_timer(eventtimer[o], FuncOf(o))
  /\ eventtimer' = [eventtimer EXCEPT ![o] = NoTimer]
  /\ UNCHANGED <<timer_heap, free_timer_list, timer_data_num, tick, phase, cur,
                 postponed>>

(* pc_addeventtimercount: addtick_timer postpones the timer in place.  Bound:
   once until the heap drains, and MaxAhead ahead of the clock at most (a timer
   postponed without end would hide those beneath it for half a Cycle). *)
AddEventTimerCount(o) ==
  /\ ScriptRuns
  /\ o \in Players
  /\ eventtimer[o] # NoTimer
  /\ ~postponed
  /\ DIFF_TICK(timer_data[eventtimer[o]].tick, tick) + Stretch <= MaxAhead
  /\ timer_data' = [timer_data EXCEPT ![eventtimer[o]].tick = (@ + Stretch) % Cycle]
  /\ postponed' = TRUE
  /\ UNCHANGED <<timer_heap, free_timer_list, timer_data_num, tick, phase, cur,
                 eventtimer>>

(* npc_event_dequeue: a player's next queued event, armed with the NPCs'
   callback; the timer id is dropped. *)
npc_event_dequeue(p) ==
  /\ ScriptRuns
  /\ add_timer(QueueDelay, "npc_event_timer", p)
  /\ UNCHANGED <<tick, phase, cur, eventtimer, postponed>>

-----------------------------------------------------------------------------
(* core.c's loop reads the clock and enters do_timer. *)
StartPass(dt) ==
  /\ phase = "idle"
  /\ tick' = (tick + dt) % Cycle
  /\ phase' = "pass"
  /\ UNCHANGED <<timer_data, timer_heap, free_timer_list, timer_data_num, cur,
                 eventtimer, postponed>>

(* One turn of do_timer's loop up to the callback: the root is due, leaves
   the heap and is marked.  An emptied slot is recycled at once.  The
   callback of a player's timer first forgets the id (pc_eventtimer). *)
Expire ==
  /\ phase = "pass"
  /\ timer_heap # <<>>
  /\ Due(timer_data, timer_heap[1])
  /\ LET s == timer_heap[1] IN
     /\ timer_heap' = pop_timer_heap(timer_heap, timer_data)
     /\ postponed' = (postponed /\ Len(timer_heap') > 1)
     /\ IF timer_data[s].func = "NULL"
        THEN /\ timer_data' = [timer_data EXCEPT ![s].type = 0]
             /\ free_timer_list' = Append(free_timer_list, s)
             /\ UNCHANGED <<phase, cur, eventtimer>>
        ELSE /\ timer_data' = [timer_data EXCEPT ![s].type = @ + TIMER_REMOVE_HEAP]
             /\ phase' = "call"
             /\ cur' = s
             /\ eventtimer' = [o \in Owners |->
                  IF timer_data[s].func = "pc_eventtimer" /\ timer_data[s].id = o
                     /\ eventtimer[o] = s
                  THEN NoTimer ELSE eventtimer[o]]
             /\ UNCHANGED free_timer_list
  /\ UNCHANGED <<timer_data_num, tick>>

(* The callback returned: while the mark is still there a one-shot slot is
   recycled and an interval timer is queued again; a slot deleted by its own
   callback has lost the mark and is left as it is. *)
CallbackReturns ==
  /\ phase = "call"
  /\ phase' = "pass"
  /\ cur' = NoTimer
  /\ LET ty == timer_data[cur].type IN
     \/ /\ ty = TIMER_REMOVE_HEAP + TIMER_ONCE_AUTODEL
        /\ timer_data' = [timer_data EXCEPT ![cur].type = 0]
        /\ free_timer_list' = Append(free_timer_list, cur)
        /\ UNCHANGED timer_heap
     \/ /\ ty = TIMER_REMOVE_HEAP + TIMER_INTERVAL
        /\ LET late == DIFF_TICK(timer_data[cur].tick, tick) < -Late
               base == IF late THEN tick ELSE timer_data[cur].tick
           IN timer_data' = [timer_data EXCEPT
                ![cur].tick = (base + Interval) % Cycle, ![cur].type = TIMER_INTERVAL]
        /\ timer_heap' = push_timer_heap(timer_heap, timer_data', cur)
        /\ UNCHANGED free_timer_list
     \/ /\ ty < TIMER_REMOVE_HEAP
        /\ UNCHANGED <<timer_data, timer_heap, free_timer_list>>
  /\ UNCHANGED <<timer_data_num, tick, eventtimer, postponed>>

(* Nothing at the root is due: do_timer returns to the loop. *)
EndPass ==
  /\ phase = "pass"
  /\ timer_heap = <<>> \/ ~Due(timer_data, timer_heap[1])
  /\ phase' = "idle"
  /\ UNCHANGED <<timer_data, timer_heap, free_timer_list, timer_data_num, tick,
                 cur, eventtimer, postponed>>

LoopStep == (\E dt \in Steps : StartPass(dt)) \/ Expire \/ CallbackReturns \/ EndPass

Next ==
  \/ \E o \in Owners, d \in Delays : AddEventTimer(o, d)
  \/ \E o \in Owners : DelEventTimer(o)
  \/ \E o \in Players : AddEventTimerCount(o)
  \/ \E p \in Players : npc_event_dequeue(p)
  \/ LoopStep

Spec == Init /\ [][Next]_vars

-----------------------------------------------------------------------------
(* Properties *)

Queued(s) == s \in SeqRange(timer_heap)
Free(s)   == s \in SeqRange(free_timer_list)
Used(s)   == s < timer_data_num
Lost(s)   == Used(s) /\ ~Queued(s) /\ ~Free(s) /\ s # cur

(* Types of the timer module's state. *)
TypeOK ==
  /\ timer_data \in [Slots -> [tick : 0 .. Cycle - 1, func : Funcs,
                               id : Owners \cup {System},
                               type : {0, 1, 2, 17, 18}]]
  /\ timer_heap \in Seq(Slots) /\ free_timer_list \in Seq(Slots)
  /\ timer_data_num \in 0 .. NumSlots
  /\ tick \in 0 .. Cycle - 1
  /\ phase \in {"idle", "pass", "call"} /\ cur \in Slots \cup {NoTimer}
  /\ eventtimer \in [Owners -> Slots \cup {NoTimer}]
  /\ postponed \in BOOLEAN

(* add_timer, do_timer and the sifts of the heap keep every slot in one place:
   queued once, or on the recycling stack once, or running.  A slot gets lost
   only when a callback deletes its own timer, which takes the stale id an NPC
   keeps after its timer has fired: npc_event_timer never forgets it.  Ticks
   stay within their width. *)
SlotPartition ==
  /\ TypeOK
  /\ Cardinality(SeqRange(timer_heap)) = Len(timer_heap)
  /\ Cardinality(SeqRange(free_timer_list)) = Len(free_timer_list)
  /\ \A s \in Slots :
       /\ ~(Queued(s) /\ Free(s)) /\ (s = cur => ~Queued(s) /\ ~Free(s))
       /\ ~Used(s) => ~Queued(s) /\ ~Free(s) /\ s # cur
       /\ Lost(s) => timer_data[s].func = "NULL" /\ timer_data[s].id \in Players

(* The id a player remembers names that player's own timer, still to fire:
   pc_deleventtimer and pc_addeventtimercount never reach another owner's
   timer, whatever stale ids the NPCs delete by. *)
PlayerTimerValid ==
  \A p \in Players : eventtimer[p] # NoTimer =>
    LET s == eventtimer[p] IN
    /\ Queued(s) /\ timer_data[s].id = p /\ timer_data[s].func = "pc_eventtimer"

(* When do_timer returns, a due timer is left in the heap only beneath a timer
   that delete_timer emptied: its tick went down in place and the heap was not
   told.  It then waits no longer than the longest delay in use.  (Postponing a
   timer in place can hide any other, until the heap drains.) *)
DueTimersFired ==
  phase = "idle" /\ ~postponed => \A p \in DOMAIN timer_heap :
    Due(timer_data, timer_heap[p]) =>
      /\ \E q \in 1 .. p : IsAbove(q, p) /\ timer_data[timer_heap[q]].func = "NULL"
      /\ timer_data[timer_heap[p]].func # "NULL" =>
           DIFF_TICK(timer_data[timer_heap[p]].tick, tick) > -Largest(Delays \cup {Interval})

(* The heap of slots, with recycling and callbacks, implements the timers of
   TimerSpec: earliest first and none passed over, once the heap is back in
   order after a delete_timer or addtick_timer. *)
HeapOrdered == \A p \in 2 .. Len(timer_heap) :
  DIFF_TICK(timer_data[timer_heap[p \div 2]].tick, timer_data[timer_heap[p]].tick) <= 0

Abstract == INSTANCE TimerSpec WITH
  armed     <- {s \in Slots : Queued(s) /\ timer_data[s].func # "NULL"},
  due       <- [s \in Slots |-> timer_data[s].tick],
  clock     <- tick,
  resting   <- (phase = "idle"),
  disturbed <- ~HeapOrdered

ImplementsTimerSpec == Abstract!Spec
=============================================================================
