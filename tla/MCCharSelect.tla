---------------------------- MODULE MCCharSelect ----------------------------
(* Instances of CharSelect for TLC. *)
EXTENDS CharSelect, TLC
CONSTANTS a1, a2
(* One account has the first and the last character of the file. *)
MCRoster ==
  <<[account |-> a1, char_id |-> 1, num |-> 0], [account |-> a2, char_id |-> 2, num |-> 0],
    [account |-> a1, char_id |-> 3, num |-> 1]>>

(* Two states differ for the future in no more than this: used entries are not
   read again, and slots past char_num only through a list or an entry. *)
Pointed ==
  UNION {Slots(session[f].found) : f \in Fds}
    \cup {auth_fifo[k].pos : k \in {j \in DOMAIN auth_fifo : auth_fifo[j].delflag = 0}}
Relevant ==
  <<[i \in DOMAIN tickets |-> IF tickets[i].delflag = 0 THEN tickets[i] ELSE NoTicket],
    ticket_pos % LOGIN_FIFO_SIZE, linkVars, session,
    [i \in Array |-> IF i <= char_num \/ i \in Pointed THEN char_dat[i] ELSE NoChar],
    char_num, char_id_count,
    [k \in DOMAIN auth_fifo |-> IF auth_fifo[k].delflag = 1 THEN NoEntry ELSE auth_fifo[k]],
    auth_fifo_pos % AUTH_FIFO_SIZE, IF answer.sound THEN answer ELSE NoAnswer,
    playing, issued, outdated>>
=============================================================================
