------------------------------ MODULE MCTimer ------------------------------
(* A small timer wheel for TLC: one player, one NPC, four slots. *)
EXTENDS Timer
CONSTANTS p1, n1

MCDelays == {1, 3}
MCSteps  == {1, 2}

(* Ticks matter only through DIFF_TICK, so states that differ by a shift of the
   clock are one; the tick of a slot that is neither queued nor running is
   never read again. *)
RelativeTicks ==
  <<[s \in Slots |-> [timer_data[s] EXCEPT
       !.tick = IF Queued(s) \/ s = cur THEN (@ - tick) % Cycle ELSE 0]],
    timer_heap, free_timer_list, timer_data_num, phase, cur, eventtimer, postponed>>
=============================================================================
