------------------------------- MODULE Dialog -------------------------------
(***************************************************************************)
(* A player's dialog with NPCs: the script that is run in steps            *)
(* (map/script.c), the events that wait for its end (map/npc.c), and what  *)
(* else ends it (map/trade.c, map/clif.c).                                 *)
(*                                                                         *)
(* A script is a sequence of statements <<op, argument>>: "next" and "end";*)
(* "menu" with the statements to go to; "input"; "event", whose argument is*)
(* called; "warp" to a place; anything else changes nothing here.  Gotos   *)
(* lead forward.  The client answers the window it shows, and the answer   *)
(* is under way while other things happen.                                 *)
(*                                                                         *)
(* Bounds: MaxCalls events are called from outside (a monster's death, a   *)
(* waiting room, a timer), MaxMoves times something else than an answer    *)
(* happens to the player; nothing follows once the queue has been full.    *)
(***************************************************************************)
EXTENDS Integers, Sequences, FiniteSets, SequencesExt, FiniteSetsExt

CONSTANTS
  Places, Npcs, Shops, PlaceOf, Script,
  Events, EventOf,   \* event |-> [npc, pos, near: it is for players there only]
  MAX_EVENTQUEUE, MaxCalls, MaxMoves, Nil

DialogAssumption ==
  /\ Shops \subseteq Npcs /\ PlaceOf \in [Npcs -> Places] /\ DOMAIN Script = Npcs \ Shops
  /\ DOMAIN EventOf = Events /\ MAX_EVENTQUEUE \in Nat \ {0}
  /\ MaxCalls \in Nat /\ MaxMoves \in Nat /\ Nil \notin Npcs \cup Events

VARIABLES
  sd,        \* the session
  timers,    \* events whose timer (100 ms) runs, in its order
  disabled,  \* NPCs whose flag has bit 0
  window,    \* what the client shows of a dialog, or Nil
  reply,     \* what it answered, on its way, or Nil
  calls, runs, dropped,  \* history: event |-> how often
  interrupted,           \* history: a dialog was ended by something else
  strayed,               \* history: an event was refused for the player's place
  away,                  \* history: the player was moved while in a dialog
  filled,                \* history: the queue was full
  moves                  \* bound

history == <<calls, runs, dropped, interrupted, strayed, away, filled>>
vars    == <<sd, timers, disabled, window, reply, history, moves>>

Queue    == 1 .. MAX_EVENTQUEUE
NoEvents == [i \in Queue |-> Nil]
Newborn  == [npc_id |-> Nil, npc_pos |-> 0, menu_or_input |-> FALSE, npc_menu |-> 0,
             eventqueue |-> NoEvents, place |-> CHOOSE x \in Places : TRUE]
Waits(op) == op \in {"next", "menu", "input"}

Init ==
  /\ sd = Newborn /\ timers = <<>> /\ disabled = {} /\ window = Nil /\ reply = Nil
  /\ calls = [e \in Events |-> 0] /\ runs = [e \in Events |-> 0]
  /\ dropped = [e \in Events |-> 0]
  /\ interrupted = FALSE /\ strayed = FALSE /\ away = FALSE
  /\ filled = FALSE /\ moves = 0

-----------------------------------------------------------------------------
(* What a handler works on. *)
State == [sd |-> sd, timers |-> timers, window |-> window, calls |-> calls, runs |-> runs,
          dropped |-> dropped, interrupted |-> interrupted, strayed |-> strayed,
          away |-> away, filled |-> filled]
Becomes(s) ==
  /\ sd' = s.sd /\ timers' = s.timers /\ window' = s.window /\ calls' = s.calls
  /\ runs' = s.runs /\ dropped' = s.dropped /\ interrupted' = s.interrupted
  /\ strayed' = s.strayed /\ away' = s.away /\ filled' = s.filled

(* Mutant: the first event stays at the head of the queue. *)
DequeueKeeps(s) ==
  LET q == s.sd.eventqueue
      t == [s EXCEPT !.sd.npc_id = Nil]
  IN IF q[1] = Nil THEN t ELSE [t EXCEPT !.timers = Append(@, q[1])]

(* The loop that moves the queue up runs from its end, so every place gets
   what was in the last: right as long as only the first is taken. *)
npc_event_dequeue(s) ==
  LET q == s.sd.eventqueue
      t == [s EXCEPT !.sd.npc_id = Nil]
  IN IF q[1] = Nil THEN t
     ELSE [t EXCEPT !.timers = Append(@, q[1]),
                    !.sd.eventqueue = [i \in Queue |-> q[MAX_EVENTQUEUE]]]

Here(s, e)   == ~EventOf[e].near \/ s.sd.place = PlaceOf[EventOf[e].npc]
Dropped(s, e) == [s EXCEPT !.dropped[e] = @ + 1]
Astray(s, e)  == [Dropped(s, e) EXCEPT !.strayed = TRUE]

Enqueued(s, e) ==
  LET free == {i \in Queue : s.sd.eventqueue[i] = Nil}
  IN IF free = {} THEN [Dropped(s, e) EXCEPT !.filled = TRUE]
     ELSE [s EXCEPT !.sd.eventqueue[Min(free)] = e, !.filled = @ \/ Cardinality(free) = 1]

(* Mutant: an answer that was taken leaves menu_or_input set. *)
AnsweredKept(d) == d
Answered(d)     == [d EXCEPT !.sd.menu_or_input = FALSE]

(* One statement of the script of npc.  While it runs, npc_id is npc. *)
Statement(s, npc, k) ==
  LET op  == Script[npc][k][1]
      arg == Script[npc][k][2]
      d   == s.state
      at(pos) == [s EXCEPT !.pos = pos]
      shown(st, pos, flag) == [s EXCEPT !.halt = "wait", !.pos = pos,
                                 !.state.window = [npc |-> npc, op |-> st],
                                 !.state.sd.menu_or_input = flag]
      taken(pos) == [at(pos) EXCEPT !.state = Answered(@)]
  IN CASE op = "next" -> shown("next", k + 1, d.sd.menu_or_input)
       [] op = "end"  -> [s EXCEPT !.halt = "end"]
       [] op \in {"menu", "input"} /\ ~d.sd.menu_or_input -> shown(op, k, TRUE)
       [] op = "input" -> taken(k + 1)
       [] op = "menu" /\ d.sd.npc_menu = 255 -> [taken(k) EXCEPT !.halt = "end"]
       [] op = "menu" -> taken(IF d.sd.npc_menu \in DOMAIN arg THEN arg[d.sd.npc_menu] ELSE k + 1)
       [] op = "event" ->
            LET t == [d EXCEPT !.calls[arg] = @ + 1]
            IN [at(k + 1) EXCEPT !.state = IF Here(d, arg) THEN Enqueued(t, arg) ELSE Astray(t, arg)]
       [] op = "warp" -> [at(k + 1) EXCEPT !.state.sd.place = arg]
       [] OTHER -> at(k + 1)

(* Mutant: a script that ends keeps npc_id when an event waits. *)
EndKeeps(s) == IF s.sd.eventqueue = NoEvents THEN npc_event_dequeue(s) ELSE s
Ended(s)    == npc_event_dequeue(s)

(* From pos on, until the script waits or ends; behind its last statement it
   ends. *)
run_script(d, npc, pos) ==
  LET step(s, k) == IF s.halt = "" /\ s.pos = k THEN Statement(s, npc, k) ELSE s
      s == FoldLeft(step, [state |-> [d EXCEPT !.window = Nil], pos |-> pos, halt |-> ""],
                    [k \in 1 .. Len(Script[npc]) |-> k])
      off == s.state.sd.place # PlaceOf[npc]
  IN IF s.halt = "wait"
     THEN [s.state EXCEPT !.sd.npc_pos = s.pos, !.away = @ \/ off]
     ELSE [Ended(s.state) EXCEPT !.sd.npc_pos = -1]

npc_event(s, e) ==
  LET n == EventOf[e].npc
  IN IF ~Here(s, e) THEN Astray(s, e)
     ELSE IF s.sd.npc_id # Nil THEN Enqueued(s, e)
     ELSE IF n \in disabled THEN npc_event_dequeue(Dropped(s, e))
     ELSE run_script([s EXCEPT !.sd.npc_id = n, !.runs[e] = @ + 1], n, EventOf[e].pos)

-----------------------------------------------------------------------------
npc_checknear(npc) == PlaceOf[npc] = sd.place
Moved == moves < MaxMoves /\ moves' = moves + 1 /\ ~filled

(* Also when the player steps on the NPC's cells. *)
npc_click(npc) ==
  /\ Moved /\ sd.npc_id = Nil /\ npc_checknear(npc) /\ npc \notin disabled
  /\ Becomes(IF npc \in Shops THEN npc_event_dequeue(State)
             ELSE run_script([State EXCEPT !.sd.npc_id = npc], npc, 1))
  /\ UNCHANGED <<disabled, reply>>

ClientAnswers(v) ==
  /\ window # Nil /\ reply = Nil /\ ~filled
  /\ reply' = [npc |-> window.npc, op |-> window.op, value |-> v]
  /\ window' = Nil
  /\ UNCHANGED <<sd, timers, disabled, history, moves>>

npc_scriptcont(s, npc) ==
  IF npc # s.sd.npc_id \/ ~npc_checknear(npc) THEN s
  ELSE run_script(s, npc, s.sd.npc_pos)

clif_parse_NpcSelectMenu ==
  /\ reply # Nil /\ reply' = Nil /\ ~filled
  /\ Becomes(npc_scriptcont(IF reply.op = "menu" THEN [State EXCEPT !.sd.npc_menu = reply.value] ELSE State,
                            reply.npc))
  /\ UNCHANGED <<disabled, moves>>

npc_event_timer ==
  /\ timers # <<>> /\ ~filled
  /\ Becomes(npc_event([State EXCEPT !.timers = Tail(@)], Head(timers)))
  /\ UNCHANGED <<disabled, reply, moves>>

(* An event is called: pc_eventtimer, mob_damage, chat_triggerevent. *)
Call(e) ==
  /\ ~filled /\ FoldFunction(+, 0, calls) < MaxCalls
  /\ Becomes(npc_event([State EXCEPT !.calls[e] = @ + 1], e))
  /\ UNCHANGED <<disabled, reply, moves>>

(* The player's answer to a trade, or the partner's; closing one's shop. *)
trade_tradeack ==
  /\ Moved /\ sd.npc_id # Nil
  /\ Becomes([npc_event_dequeue(State) EXCEPT !.interrupted = TRUE])
  /\ UNCHANGED <<disabled, reply>>

clif_parse_WalkToXY(x) ==
  /\ Moved /\ sd.npc_id = Nil /\ x # sd.place
  /\ sd' = [sd EXCEPT !.place = x]
  /\ UNCHANGED <<timers, disabled, window, reply, history>>

(* Moved by others; a dialog goes on, out of reach. *)
pc_setpos(x) ==
  /\ Moved /\ x # sd.place
  /\ sd' = [sd EXCEPT !.place = x]
  /\ away' = (away \/ sd.npc_id # Nil)
  /\ UNCHANGED <<timers, disabled, window, reply, calls, runs, dropped, interrupted, strayed, filled>>

npc_enable(npc) ==
  /\ Moved
  /\ disabled' = IF npc \in disabled THEN disabled \ {npc} ELSE disabled \cup {npc}
  /\ UNCHANGED <<sd, timers, window, reply, history>>

Next ==
  \/ \E n \in Npcs : npc_click(n) \/ npc_enable(n)
  \/ \E v \in {1, 2, 255} : ClientAnswers(v)
  \/ \E e \in Events : Call(e)
  \/ \E x \in Places : clif_parse_WalkToXY(x) \/ pc_setpos(x)
  \/ clif_parse_NpcSelectMenu
  \/ npc_event_timer
  \/ trade_tradeack

(* Timers and sockets are served by the main loop; a player who is asked
   answers.  The first two are weak fairness with the guard written out, which
   TLC evaluates much faster than ENABLED. *)
Fairness == /\ []<>(timers = <<>> \/ filled) \/ []<><<npc_event_timer>>_vars
            /\ []<>(reply = Nil \/ filled) \/ []<><<clif_parse_NpcSelectMenu>>_vars
            /\ WF_vars(\E v \in {1, 2, 255} : ClientAnswers(v))
Spec == Init /\ [][Next]_vars /\ Fairness

-----------------------------------------------------------------------------
Shown == IF window # Nil THEN window ELSE reply
WindowAgrees ==
  ~interrupted /\ ~away =>
    IF sd.npc_id = Nil THEN window = Nil /\ reply = Nil /\ ~sd.menu_or_input
    ELSE /\ Shown # Nil /\ Shown.npc = sd.npc_id
         /\ LET op == Script[sd.npc_id][IF sd.menu_or_input THEN sd.npc_pos ELSE sd.npc_pos - 1][1]
            IN Shown.op = op /\ sd.menu_or_input = (op # "next")

Waiting(e) == Cardinality({i \in Queue : sd.eventqueue[i] = e})
              + Cardinality({i \in DOMAIN timers : timers[i] = e})
EventsKept ==
  ~filled =>
    /\ \A e \in Events : calls[e] = runs[e] + dropped[e] + Waiting(e)
    /\ ~strayed /\ sd.npc_id = Nil /\ sd.eventqueue # NoEvents => timers # <<>>

(* While no dialog was ended by a trade or a shop that closed and the player
   was not moved away from one, the client shows, or has just answered, what
   the session's script waits for; and only a script that waits for a menu or
   an input has menu_or_input set, so that none takes an answer that was not
   given to it.  Until the queue has been full, an event that is called is run
   once, waits once, or was refused for its place or for a disabled NPC; and
   what waits with no dialog before it has a timer, unless an event was refused
   for its place. *)
DialogAgrees == WindowAgrees /\ EventsKept

(* A dialog the player answers ends, unless the player is moved away from it
   (nothing frees it then) or the model ends. *)
DialogEnds == sd.npc_id # Nil ~> (sd.npc_id = Nil \/ away \/ filled)
=============================================================================
