------------------------------ MODULE Whisper ------------------------------
(***************************************************************************)
(* Whispers: a map server asks the char server (map/intif.c), which asks   *)
(* every map server whether it has the listener and answers the asker's    *)
(* when one has, or when all have not (char/inter.c).                      *)
(*                                                                         *)
(* A whisper is a number here; its entry of wis_list has the id that goes  *)
(* to the map servers.  Servers are found by fd, players by name.  old is  *)
(* whether WISLIST_TTL has passed since an entry was made.  An answer      *)
(* names the asker only: which whisper it is about is kept for the record. *)
(* A whisper that is a GM command never leaves the map server.             *)
(*                                                                         *)
(* Bounds: Callers send MaxWhispers whispers in all; the players and the links move, come and  *)
(* go MaxMoves times in all.                                               *)
(***************************************************************************)
EXTENDS Integers, Sequences, FiniteSets, SequencesExt, FiniteSetsExt

CONSTANTS Maps, Chars, Callers, LastId, MaxWhispers, MaxMoves, Nil

VARIABLES
  nick_db,       \* character |-> the map server that has it, or Nil
  server_fd,     \* map server |-> the char server's fd of its link, or 0
  wis_list,      \* char server: entries, the newest first
  wis_id,
  toChar, toMap, \* map server |-> packets under way
  dead,          \* the char server crashed
  whispers,      \* history: what became of each
  moves          \* bound

link == <<toChar, toMap>>
vars == <<nick_db, server_fd, wis_list, wis_id, link, dead, whispers, moves>>

WhisperAssumption == /\ LastId \in Nat /\ MaxWhispers \in Nat /\ MaxMoves \in Nat /\ Nil \notin Maps

Init ==
  /\ nick_db \in [Chars -> Maps \cup {Nil}]
  /\ server_fd = CHOOSE f \in [Maps -> 1 .. Cardinality(Maps)] : \A m, n \in Maps : m # n => f[m] # f[n]
  /\ wis_list = <<>> /\ wis_id = 0 /\ dead = FALSE /\ whispers = <<>> /\ moves = 0
  /\ toChar = [m \in Maps |-> <<>>] /\ toMap = [m \in Maps |-> <<>>]

Linked == {m \in Maps : server_fd[m] # 0}

-----------------------------------------------------------------------------
(* Char server. *)

(* A step over an entry that was removed skips the next one, and leads through
   a null pointer when there is none. *)
check_ttl_wislist(list) ==
  FoldLeft(LAMBDA s, e : IF ~s.skip /\ e.old THEN [s EXCEPT !.skip = TRUE]
                         ELSE [list |-> Append(s.list, e), skip |-> FALSE],
           [list |-> <<>>, skip |-> FALSE], list)

add_wislist(list, m, msg) ==
  <<[id |-> wis_id, fd |-> server_fd[m], count |-> Cardinality(Linked), whisper |-> msg.whisper,
     old |-> FALSE]>> \o list
NextId == IF wis_id + 1 > LastId THEN 0 ELSE wis_id + 1

(* Mutant: an answer is given when the last server has replied. *)
EndsAtLast(e, flag) == e.count = 1
Ends(e, flag)       == e.count = 1 \/ flag # 1

mapif_parse_WisRequest(m, msg) ==
  LET swept == check_ttl_wislist(wis_list)
      call  == [kind |-> "message", id |-> wis_id, whisper |-> msg.whisper]
  IN /\ toChar' = [toChar EXCEPT ![m] = Tail(@)]
     /\ UNCHANGED <<nick_db, server_fd, whispers, moves>>
     /\ IF swept.skip THEN dead' = TRUE /\ UNCHANGED <<wis_list, wis_id, toMap>>
        ELSE /\ wis_list' = add_wislist(swept.list, m, msg) /\ wis_id' = NextId
             /\ toMap' = [n \in Maps |-> IF n \in Linked THEN Append(toMap[n], call) ELSE toMap[n]]
             /\ UNCHANGED dead

(* The first entry with the id; a reply about none came too late. *)
Found(id)   == {i \in DOMAIN wis_list : wis_list[i].id = id}
Answer(e, flag) == [kind |-> "end", whisper |-> e.whisper, flag |-> flag]

mapif_wis_end(e, flag) ==
  /\ toMap' = [n \in Maps |-> IF server_fd[n] = e.fd THEN Append(toMap[n], Answer(e, flag)) ELSE toMap[n]]
  /\ whispers' = [whispers EXCEPT ![e.whisper].ended = Append(@, flag)]

mapif_parse_WisReply(m, msg) ==
  /\ toChar' = [toChar EXCEPT ![m] = Tail(@)] /\ UNCHANGED <<nick_db, server_fd, wis_id, dead, moves>>
  /\ IF Found(msg.id) = {} THEN UNCHANGED <<wis_list, toMap, whispers>>
     ELSE LET i == Min(Found(msg.id)) IN
          IF Ends(wis_list[i], msg.flag)
          THEN mapif_wis_end(wis_list[i], msg.flag) /\ wis_list' = RemoveAt(wis_list, i)
          ELSE wis_list' = [wis_list EXCEPT ![i].count = @ - 1] /\ UNCHANGED <<toMap, whispers>>

inter_parse_frommap(m) ==
  /\ toChar[m] # <<>>
  /\ IF Head(toChar[m]).kind = "request" THEN mapif_parse_WisRequest(m, Head(toChar[m]))
     ELSE mapif_parse_WisReply(m, Head(toChar[m]))

-----------------------------------------------------------------------------
(* Map servers. *)
clif_parse_Wis(c, d) ==
  LET m == nick_db[c]
      w == Len(whispers) + 1
  IN /\ m # Nil /\ server_fd[m] # 0 /\ w <= MaxWhispers
     /\ toChar' = [toChar EXCEPT ![m] = Append(@, [kind |-> "request", whisper |-> w])]
     /\ whispers' = Append(whispers, [src |-> c, dst |-> d, there |-> nick_db[d] # Nil, heard |-> 0,
                                      ended |-> <<>>, told |-> 0, roamed |-> {},
                                      lost |-> nick_db[d] \notin Linked \cup {Nil}])
     /\ UNCHANGED <<nick_db, server_fd, wis_list, wis_id, toMap, dead, moves>>

intif_parse_WisMessage(m, msg) ==
  LET here == nick_db[whispers[msg.whisper].dst] = m
      reply == [kind |-> "reply", id |-> msg.id, flag |-> IF here THEN 0 ELSE 1, whisper |-> msg.whisper]
  IN /\ toChar' = [toChar EXCEPT ![m] = Append(@, reply)]
     /\ whispers' = IF here THEN [whispers EXCEPT ![msg.whisper].heard = @ + 1] ELSE whispers

intif_parse_WisEnd(m, msg) ==
  /\ whispers' = IF nick_db[whispers[msg.whisper].src] = m
                 THEN [whispers EXCEPT ![msg.whisper].told = @ + 1] ELSE whispers
  /\ UNCHANGED toChar

intif_parse(m) ==
  /\ toMap[m] # <<>> /\ toMap' = [toMap EXCEPT ![m] = Tail(@)]
  /\ LET msg == Head(toMap[m]) IN
       IF msg.kind = "message" THEN intif_parse_WisMessage(m, msg) ELSE intif_parse_WisEnd(m, msg)
  /\ UNCHANGED <<nick_db, server_fd, wis_list, wis_id, dead, moves>>

-----------------------------------------------------------------------------
Moves == moves < MaxMoves /\ moves' = moves + 1

(* A player leaves a map server, for good or for another one, and comes. *)
Roam(c) == [w \in DOMAIN whispers |->
  [whispers[w] EXCEPT !.roamed = IF c \in {whispers[w].src, whispers[w].dst} THEN @ \cup {c} ELSE @]]
map_quit(c) ==
  /\ nick_db[c] # Nil /\ nick_db' = [nick_db EXCEPT ![c] = Nil] /\ Moves /\ whispers' = Roam(c)
  /\ UNCHANGED <<server_fd, wis_list, wis_id, link, dead>>
pc_authok(c, m) ==
  /\ nick_db[c] = Nil /\ nick_db' = [nick_db EXCEPT ![c] = m] /\ Moves /\ whispers' = Roam(c)
  /\ UNCHANGED <<server_fd, wis_list, wis_id, link, dead>>

(* What is lost with a link: what is under way on it, what its server asked,
   and what is for its players. *)
About(m) ==
  {msg.whisper : msg \in ToSet(toChar[m]) \cup ToSet(toMap[m])}
  \cup {e.whisper : e \in {x \in ToSet(wis_list) : x.fd = server_fd[m]}}
  \cup {w \in DOMAIN whispers : nick_db[whispers[w].dst] = m /\ whispers[w].ended = <<>>}
parse_frommap(m) ==
  /\ server_fd[m] # 0 /\ server_fd' = [server_fd EXCEPT ![m] = 0] /\ Moves
  /\ toChar' = [toChar EXCEPT ![m] = <<>>] /\ toMap' = [toMap EXCEPT ![m] = <<>>]
  /\ whispers' = [w \in DOMAIN whispers |->
                   [whispers[w] EXCEPT !.lost = @ \/ w \in About(m)]]
  /\ UNCHANGED <<nick_db, wis_list, wis_id, dead>>
parse_char(m) ==
  /\ server_fd[m] = 0 /\ Moves
  /\ server_fd' = [server_fd EXCEPT ![m] = Min(1 .. Cardinality(Maps) \ {server_fd[n] : n \in Maps})]
  /\ UNCHANGED <<nick_db, wis_list, wis_id, link, dead, whispers>>

(* Half a minute: what has no answer yet may be forgotten. *)
TickPasses ==
  /\ \E e \in ToSet(wis_list) : ~e.old
  /\ wis_list' = [i \in DOMAIN wis_list |-> [wis_list[i] EXCEPT !.old = TRUE]]
  /\ whispers' = [w \in DOMAIN whispers |->
       [whispers[w] EXCEPT !.lost = @ \/ w \in {wis_list[i].whisper : i \in DOMAIN wis_list}]]
  /\ UNCHANGED <<nick_db, server_fd, wis_id, link, dead, moves>>

Next ==
  /\ ~dead
  /\ \/ \E c \in Callers, d \in Chars : clif_parse_Wis(c, d)
     \/ \E c \in Chars : map_quit(c) \/ (\E m \in Maps : pc_authok(c, m))
     \/ \E m \in Maps : inter_parse_frommap(m) \/ intif_parse(m) \/ parse_frommap(m) \/ parse_char(m)
     \/ TickPasses

Spec == Init /\ [][Next]_vars

-----------------------------------------------------------------------------
(* No whisper is answered twice; one that is answered 0 was heard, and one that
   is answered 1 (no such player) was not, nor could have been by a player who
   was there and stayed.  None is heard twice, unless its listener moves.
   When nothing about it is under way any more, a whisper was answered, and the
   asker who stayed was told, unless a link it needed broke or half a minute
   passed; and the char server lives unless some whisper was that old. *)
UnderWay(w) == \E m \in Maps : \E msg \in ToSet(toChar[m]) \cup ToSet(toMap[m]) : msg.whisper = w
WhisperKept(w) ==
  LET x == whispers[w] IN
  /\ Len(x.ended) <= 1 /\ x.told <= Len(x.ended)
  /\ x.ended = <<0>> => x.heard > 0
  /\ x.ended = <<1>> => x.heard = 0
  /\ x.dst \notin x.roamed => x.heard <= (IF x.there THEN 1 ELSE 0)
  /\ ~UnderWay(w) /\ ~x.lost /\ ~dead =>
       /\ x.ended # <<>>
       /\ x.src \notin x.roamed => x.told = 1
       /\ x.there /\ x.dst \notin x.roamed => x.heard = 1
WhispersAnswered ==
  /\ \A w \in DOMAIN whispers : WhisperKept(w)
  /\ dead => \E w \in DOMAIN whispers : whispers[w].lost /\ whispers[w].told = 0
=============================================================================
