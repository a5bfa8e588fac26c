---------------------------- MODULE MCMapSession ----------------------------
(* Instances of MapSession for TLC. *)
EXTENDS MapSession, TLC
CONSTANTS a1, a2, c1, c2
MCOneChar     == <<c1>>
MCTwoChars    == <<c1, c2>>
MCOneAccount  == [c \in Chars |-> a1]
MCOwnAccounts == [c \in Chars |-> IF c = c1 THEN a1 ELSE a2]
(* Past the point where every character is unclean nothing is claimed of any,
   and nothing becomes clean again. *)
SomeClean == \E c \in Chars : Clean(c)

(* Two states differ for the future in no more than this: what lies in memory
   nothing points to is overwritten before it is read, and a used entry of
   auth_fifo is never read again. *)
Reached(m, k) == InUse(m, k) \/ PointedTo(m, k) # {}
Relevant ==
  <<char_dat, [i \in Ring |-> IF auth_fifo[i].delflag = 0 THEN auth_fifo[i] ELSE Nil],
    auth_fifo_pos % AUTH_FIFO_SIZE, links, conn, id_db, waitclose, hist,
    [m \in Maps |-> [k \in Chunks |-> IF Reached(m, k) THEN sd[m][k] ELSE FreeSd]]>>

(* Sockets and pieces of memory are alike. *)
Alike == Permutations(Fds) \cup Permutations(Chunks)
=============================================================================
