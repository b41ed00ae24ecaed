-------------------------- MODULE WaitingRoomProofs --------------------------
(* Theorems about WaitingRoom, for every set of users and requests and every
   threshold. *)
EXTENDS WaitingRoom, FiniteSetTheorems, TLAPS

LEMMA InitIInv == Init => IInv
  BY WaitingRoomAssumption
     DEF Init, IInv, TypeOK, ScoresDrawn, GhostSilent, Waiting, Requests, Idle, At

LEMMA NextTypes == TypeOK /\ [Next]_vars => TypeOK'
<1> SUFFICES ASSUME TypeOK, [Next]_vars PROVE TypeOK'
  OBVIOUS
<1> USE WaitingRoomAssumption DEF TypeOK, Requests, Idle, At, To, Waiting
<1>1. ASSUME NEW h \in Handlers, Handling(h) PROVE TypeOK'
  <2>1. ASSUME NEW u \in Users, Ask(h, u) PROVE TypeOK'
    BY <2>1 DEF Ask, room, worker
  <2>2. CASE SendToRoom(h)
    BY <2>2 DEF SendToRoom, room, worker
  <2>3. CASE Skip(h)
    BY <2>3 DEF Skip, room, worker
  <2>4. CASE Draw(h)
    BY <2>4 DEF Draw, worker
  <2>5. CASE Add(h)
    <3>1. req[h].user \in Users /\ req[h].at \in 0..MaxClock
      BY <2>5 DEF Add
    <3>2. score' \in [Users -> 0..MaxClock \cup {Nil}]
      BY <2>5, <3>1 DEF Add
    <3>3. \/ ahead' = ahead
          \/ ahead' = ahead \cup {x \in Users : <<h, x>> \in seen} \X {req[h].user}
      BY <2>5 DEF Add
    <3>4. ahead' \subseteq Users \X Users
      BY <3>1, <3>3
    <3>5. seen' \subseteq Handlers \X Users /\ req' \in [Handlers -> Requests \cup {Idle}]
      BY <2>5 DEF Add, Forget
    <3> QED
      BY <2>5, <3>2, <3>4, <3>5 DEF Add, worker
  <2>6. CASE Drop(h)
    BY <2>6 DEF Drop, Forget, worker
  <2> QED
    BY <1>1, <2>1, <2>2, <2>3, <2>4, <2>5, <2>6 DEF Handling
<1>2. ASSUME NEW u \in Users, Ping(u) \/ Lapse(u) \/ Look(u) PROVE TypeOK'
  BY <1>2 DEF Ping, Lapse, Look, room, worker
<1>3. CASE List \/ ScanFails \/ Tick \/ UNCHANGED vars
  BY <1>3 DEF List, ScanFails, Tick, vars, room, worker
<1>4. CASE Remove \/ DeleteRoom \/ RedisRestarts
  BY <1>4 DEF Remove, DeleteRoom, RedisRestarts, Leave, worker
<1> QED
  BY <1>1, <1>2, <1>3, <1>4 DEF Next, Worker

(* Scores are drawn in the order in which the users came to wait, and never
   change while they do. *)
LEMMA NextOrder ==
    ASSUME TypeOK, ScoresDrawn, [Next]_vars
    PROVE  ScoresDrawn'
<1> USE WaitingRoomAssumption
    DEF TypeOK, ScoresDrawn, Requests, Idle, At, To, Waiting
<1>1. ASSUME NEW h \in Handlers, NEW u \in Users, Ask(h, u) PROVE ScoresDrawn'
  BY <1>1 DEF Ask, room
<1>2. ASSUME NEW h \in Handlers, SendToRoom(h) \/ Skip(h) PROVE ScoresDrawn'
  BY <1>2 DEF SendToRoom, Skip, room
<1>3. ASSUME NEW h \in Handlers, Draw(h) PROVE ScoresDrawn'
  BY <1>3 DEF Draw
<1>4. ASSUME NEW h \in Handlers, Add(h) PROVE ScoresDrawn'
  <2> DEFINE u == req[h].user
  <2>1. u \in Users /\ req[h].at \in 0..MaxClock /\ req[h].at <= clock
    BY <1>4 DEF Add
  <2>2. \A k \in Handlers \ {h} : req'[k] = req[k]
    BY <1>4 DEF Add
  <2>3. seen' = {p \in seen : p[1] # h} /\ UNCHANGED clock
    BY <1>4 DEF Add, Forget
  <2>4. CASE u \in Waiting
    BY <1>4, <2>1, <2>2, <2>3, <2>4 DEF Add
  <2>5. CASE u \notin Waiting
    <3>1. score' = [score EXCEPT ![u] = req[h].at]
      BY <1>4, <2>5 DEF Add
    <3>2. ahead' = ahead \cup {x \in Users : <<h, x>> \in seen} \X {u}
      BY <1>4, <2>5 DEF Add
    <3>3. \A w \in Waiting : w # u /\ score'[w] = score[w]
      BY <2>5, <3>1
    <3>4. score'[u] = req[h].at
      BY <2>1, <3>1
    <3>5. \A p \in ahead' : \/ p \in ahead
                            \/ p[2] = u /\ p[1] \in Waiting /\ score[p[1]] <= req[h].at
      <4>1. ASSUME NEW x \in Users, <<h, x>> \in seen
            PROVE  x \in Waiting /\ score[x] <= req[h].at
        <5>1. \A p \in seen : p[2] \in Waiting /\ score[p[2]] <= req[p[1]].at
          OBVIOUS
        <5>2. <<h, x>>[1] = h /\ <<h, x>>[2] = x
          OBVIOUS
        <5> HIDE DEF TypeOK, ScoresDrawn, Waiting
        <5> QED
          BY <4>1, <5>1, <5>2
      <4> QED
        BY <3>2, <4>1
    <3>6. \A p \in ahead' : p[1] \in Waiting' /\ p[2] \in Waiting' /\ score'[p[1]] <= score'[p[2]]
      BY <2>1, <3>3, <3>4, <3>5
    <3>7. \A w \in Waiting' : score'[w] <= clock'
      BY <2>1, <2>3, <3>1
    <3>8. \A p \in seen' : p[2] \in Waiting' /\ score'[p[2]] <= req'[p[1]].at /\ req'[p[1]].step = "add"
      BY <2>2, <2>3, <3>3
    <3>9. \A k \in Handlers : req'[k].step = "add" => req'[k].at <= clock'
      BY <1>4, <2>2, <2>3 DEF Add
    <3> QED
      BY <3>6, <3>7, <3>8, <3>9
  <2> QED
    BY <2>4, <2>5
<1>5. ASSUME NEW h \in Handlers, Drop(h) PROVE ScoresDrawn'
  BY <1>5 DEF Drop, Forget
<1>6. CASE Remove \/ DeleteRoom \/ RedisRestarts
  <2>1. PICK us \in SUBSET Users : Leave(us) /\ UNCHANGED <<clock, req>>
    BY <1>6 DEF Remove, DeleteRoom, RedisRestarts
  <2>2. \A u \in Users : score'[u] = IF u \in us THEN Nil ELSE score[u]
    BY <2>1 DEF Leave
  <2>3. Waiting' = Waiting \ us /\ \A u \in Waiting' : score'[u] = score[u]
    BY <2>2
  <2> QED
    BY <2>1, <2>3 DEF Leave
<1>7. ASSUME NEW u \in Users, Ping(u) \/ Lapse(u) \/ Look(u) PROVE ScoresDrawn'
  BY <1>7 DEF Ping, Lapse, Look, room
<1>8. CASE List \/ ScanFails \/ Tick \/ UNCHANGED vars
  BY <1>8 DEF List, ScanFails, Tick, vars, room
<1> QED
  BY <1>1, <1>2, <1>3, <1>4, <1>5, <1>6, <1>7, <1>8 DEF Next, Handling, Worker

LEMMA NextGhost == TypeOK /\ GhostSilent /\ [Next]_vars => GhostSilent'
<1> SUFFICES ASSUME TypeOK, GhostSilent, [Next]_vars PROVE GhostSilent'
  OBVIOUS
<1> USE DEF GhostSilent, TypeOK
<1>1. ASSUME NEW u \in Users, Ping(u) \/ Lapse(u) \/ Look(u) PROVE GhostSilent'
  BY <1>1 DEF Ping, Lapse, Look, worker
<1>2. CASE Worker
  BY <1>1, <1>2 DEF Worker, List, Remove, ScanFails
<1>3. CASE RedisRestarts
  BY <1>3 DEF RedisRestarts
<1>4. CASE UNCHANGED <<ghost, steady>>
  BY <1>4
<1> QED
  BY <1>1, <1>2, <1>3, <1>4 DEF Next, Handling, Ask, SendToRoom, Skip, Draw, Add, Drop,
     DeleteRoom, Tick, vars, worker

LEMMA NextIInv == IInv /\ [Next]_vars => IInv'
  BY NextTypes, NextOrder, NextGhost DEF IInv

-----------------------------------------------------------------------------
(* IInv is an invariant of the waiting room. *)
THEOREM RoomInvariant == Spec => []IInv
  BY InitIInv, NextIInv, PTL DEF Spec

(* The room, the requests and the worker's list are well formed. *)
THEOREM RoomTypeOK == Spec => []TypeOK
<1>1. IInv => TypeOK
  BY DEF IInv
<1> QED
  BY <1>1, RoomInvariant, PTL

(* Whoever waits is overtaken only by a user whose score is of the same
   millisecond: in the order of Redis nobody of a later one is ever ahead. *)
THEOREM FirstComeByTheMillisecond == Spec => []OvertakenInOneMillisecond
<1>1. IInv => OvertakenInOneMillisecond
  <2> SUFFICES ASSUME IInv, NEW p \in ahead, Before(p[2], p[1])
               PROVE  score[p[1]] = score[p[2]]
    BY DEF OvertakenInOneMillisecond
  <2>1. p[1] \in Waiting /\ p[2] \in Waiting /\ score[p[1]] <= score[p[2]]
    BY DEF IInv, ScoresDrawn
  <2>2. score[p[1]] \in Int /\ score[p[2]] \in Int
    BY <2>1 DEF IInv, TypeOK, Waiting
  <2> QED
    BY <2>1, <2>2 DEF Before
<1> QED
  BY <1>1, RoomInvariant, PTL

(* The worker never removes a user it could have heard of all along. *)
THEOREM HeardUsersStay == Spec => HeardStay
<1> DEFINE A == \A u \in steady : score[u] # Nil /\ score'[u] = Nil => UNCHANGED worker
<1>1. IInv /\ [Next]_vars => [A]_vars
  <2> SUFFICES ASSUME IInv, Next, NEW u \in steady, score[u] # Nil, score'[u] = Nil,
                      ~UNCHANGED worker
               PROVE  FALSE
    OBVIOUS
  <2>1. u \in Users
    BY DEF IInv, TypeOK
  <2>2. CASE Remove
    BY <2>1, <2>2 DEF Remove, Leave, IInv, GhostSilent
  <2> QED
    BY <2>2 DEF Next, Handling, Worker, Ask, SendToRoom, Skip, Draw, Add, Drop, Ping, Lapse, List,
       Look, ScanFails, DeleteRoom, RedisRestarts, Tick, room
<1> QED
  BY <1>1, RoomInvariant, PTL DEF Spec, HeardStay

(* Nobody waits, and no request is on its way to the room. *)
Deserted ==
    /\ Waiting = {}
    /\ \A h \in Handlers : ~At(h, "join") /\ ~At(h, "add")

(* With any threshold but 0, and so with the code's 10, the waiting room stays empty:
   it fills only once it is full. *)
THEOREM RoomStaysEmpty ==
    ASSUME Threshold > 0
    PROVE  Spec => []Deserted
<1>1. Init => Deserted
  BY DEF Init, Deserted, Waiting, At, Idle
<1>2. IInv /\ Deserted /\ [Next]_vars => Deserted'
  <2> SUFFICES ASSUME IInv, Deserted, [Next]_vars PROVE Deserted'
    OBVIOUS
  <2>1. ~Full
    <3>1. Threshold \in Nat
      BY WaitingRoomAssumption
    <3>2. Cardinality(Waiting) = 0
      BY FS_EmptySet DEF Deserted
    <3> QED
      BY <3>1, <3>2 DEF Full
  <2> USE DEF Deserted, IInv, TypeOK, At, To, Idle, Requests, Waiting
  <2>2. ASSUME NEW h \in Handlers, Handling(h) PROVE Deserted'
    BY <2>1, <2>2 DEF Handling, Ask, SendToRoom, Skip, Draw, Add, Drop, room
  <2>3. CASE Remove \/ DeleteRoom \/ RedisRestarts
    BY <2>3 DEF Remove, DeleteRoom, RedisRestarts, Leave
  <2>4. CASE UNCHANGED <<score, req>>
    BY <2>4
  <2> QED
    BY <2>2, <2>3, <2>4 DEF Next, Worker, Ping, Lapse, List, Look, ScanFails, Tick, vars, room
<1> QED
  BY <1>1, <1>2, RoomInvariant, PTL DEF Spec
=============================================================================
