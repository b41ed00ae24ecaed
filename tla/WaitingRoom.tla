----------------------------- MODULE WaitingRoom -----------------------------
(***************************************************************************)
(* The gate of one sale and the waiting room behind it: the admission      *)
(* check of create_reservation (services/reservation_service.py, step 4),  *)
(* the sorted set of who waits (services/queue_service.py) and the worker  *)
(* that removes whoever sends no heartbeat (workers/heartbeat_worker.py).  *)
(*                                                                         *)
(* Each Redis command is a step.  The score of a user is the clock of the  *)
(* API process, drawn before the command that writes it; the processes     *)
(* share a host and so a clock.  Nothing calls admit_user, dequeue_batch   *)
(* or remove_from_queue: a user leaves the room by the worker, or with the *)
(* room.  QUEUE_THRESHOLD is a constant because with the code's 10, or any *)
(* but 0, nobody is ever sent to the room (WaitingRoomProofs).             *)
(***************************************************************************)
EXTENDS Integers, FiniteSets

CONSTANTS Users,
          Name,       \* the order of the members' names
          Handlers,   \* reservation requests in flight at once
          Threshold,  \* QUEUE_THRESHOLD
          MaxClock,   \* bound: milliseconds in which anything happens
          Nil         \* no score, no ghost

ASSUME WaitingRoomAssumption ==
    /\ IsFiniteSet(Users)
    /\ Name \in [Users -> Nat] /\ \A u, w \in Users : Name[u] = Name[w] => u = w
    /\ Threshold \in Nat
    /\ MaxClock \in Nat
    /\ Nil \notin Nat \cup Users

VARIABLES
    clock,    \* time.time(), in milliseconds
    score,    \* queue:{sale}: the score of each user who waits
    alive,    \* users whose queue_hb key exists
    left,     \* members the worker has listed and has still to look at
    ghost,    \* the member it found silent and is about to remove
    req,      \* the request on each handler
    steady,   \* history: users heard of at every moment since the members were listed
    seen,     \* history: <<h, u>>: u waited when h drew its time, and has since
    ahead     \* history: <<u, w>>: u waited when w's present score was drawn, and has since

room == <<score, seen, ahead>>
worker == <<left, ghost>>
vars == <<clock, room, alive, worker, req, steady>>

-----------------------------------------------------------------------------
Idle == [step |-> "idle"]

Requests ==
    [step : {"count", "join"}, user : Users]
    \cup [step : {"add"}, user : Users, at : 0..MaxClock]

Waiting == {u \in Users : score[u] # Nil}

TypeOK ==
    /\ clock \in 0..MaxClock
    /\ score \in [Users -> 0..MaxClock \cup {Nil}]
    /\ alive \subseteq Users
    /\ left \subseteq Users /\ ghost \in Users \cup {Nil}
    /\ req \in [Handlers -> Requests \cup {Idle}]
    /\ steady \subseteq alive
    /\ seen \subseteq Handlers \X Users /\ ahead \subseteq Users \X Users

Init ==
    /\ clock = 0
    /\ score = [u \in Users |-> Nil]
    /\ alive = {}
    /\ left = {} /\ ghost = Nil
    /\ req = [h \in Handlers |-> Idle]
    /\ steady = {} /\ seen = {} /\ ahead = {}

At(h, step) == req[h].step = step

To(h, next) == req' = [req EXCEPT ![h] = next]

(* The users us are no longer in the sorted set. *)
Leave(us) ==
    /\ score' = [u \in Users |-> IF u \in us THEN Nil ELSE score[u]]
    /\ seen' = {p \in seen : p[2] \notin us}
    /\ ahead' = {p \in ahead : p[1] \notin us /\ p[2] \notin us}

-----------------------------------------------------------------------------
(* create_reservation, step 4, for a user who has no admission token, or for
   whom Redis raises when asked.  (A token is deleted, and the request goes on.) *)
Ask(h, u) ==
    /\ req[h] = Idle
    /\ To(h, [step |-> "count", user |-> u])
    /\ UNCHANGED <<clock, room, alive, worker, steady>>

(* is_queue_active *)
Full == Cardinality(Waiting) >= Threshold

SendToRoom(h) ==
    /\ At(h, "count")
    /\ Full
    /\ To(h, [req[h] EXCEPT !.step = "join"])
    /\ UNCHANGED <<clock, room, alive, worker, steady>>

(* The request goes on to reserve, because the room is not full or Redis raises:
   at the count, or when is_admitted looks for the key that nothing writes. *)
Skip(h) ==
    /\ At(h, "count") \/ At(h, "join")
    /\ To(h, Idle)
    /\ UNCHANGED <<clock, room, alive, worker, steady>>

(* Mutant: the time is rounded up. *)
Draw_Up(h) ==
    /\ At(h, "join")
    /\ To(h, [step |-> "add", user |-> req[h].user, at |-> clock + 1])
    /\ seen' = seen \cup {h} \X Waiting
    /\ UNCHANGED <<clock, score, ahead, alive, worker, steady>>

(* enqueue: the score *)
Draw(h) ==
    /\ At(h, "join")
    /\ To(h, [step |-> "add", user |-> req[h].user, at |-> clock])
    /\ seen' = seen \cup {h} \X Waiting
    /\ UNCHANGED <<clock, score, ahead, alive, worker, steady>>

Forget(h) == seen' = {p \in seen : p[1] # h}

(* Mutant: ZADD without NX. *)
Add_Again(h) ==
    LET u == req[h].user IN
    /\ At(h, "add")
    /\ score' = [score EXCEPT ![u] = req[h].at]
    /\ ahead' = IF u \in Waiting THEN ahead
                  ELSE ahead \cup {x \in Users : <<h, x>> \in seen} \X {u}
    /\ Forget(h)
    /\ To(h, Idle)
    /\ UNCHANGED <<clock, alive, worker, steady>>

(* ZADD NX: whoever waits already keeps the score. *)
Add(h) ==
    LET u == req[h].user IN
    /\ At(h, "add")
    /\ IF u \in Waiting
         THEN UNCHANGED <<score, ahead>>
         ELSE /\ score' = [score EXCEPT ![u] = req[h].at]
              /\ ahead' = ahead \cup {x \in Users : <<h, x>> \in seen} \X {u}
    /\ Forget(h)
    /\ To(h, Idle)
    /\ UNCHANGED <<clock, alive, worker, steady>>

(* Redis raises at the ZADD, or the process dies. *)
Drop(h) ==
    /\ At(h, "add")
    /\ Forget(h)
    /\ To(h, Idle)
    /\ UNCHANGED <<clock, score, ahead, alive, worker, steady>>

-----------------------------------------------------------------------------
(* queue_heartbeat, refresh_heartbeat: a client pings whenever it likes, whether
   or not its user waits. *)
Ping(u) ==
    /\ alive' = alive \cup {u}
    /\ UNCHANGED <<clock, room, worker, req, steady>>

(* HEARTBEAT_TTL passes: nobody pings, or the pings come late. *)
Lapse(u) ==
    /\ u \in alive
    /\ alive' = alive \ {u} /\ steady' = steady \ {u}
    /\ UNCHANGED <<clock, room, worker, req>>

(* remove_ghost_users: ZRANGE *)
List ==
    /\ left = {} /\ ghost = Nil
    /\ left' = Waiting
    /\ steady' = alive
    /\ UNCHANGED <<clock, room, alive, ghost, req>>

(* Mutant: whoever is listed is taken for silent. *)
Look_Unchecked(u) ==
    /\ u \in left /\ ghost = Nil
    /\ left' = left \ {u}
    /\ ghost' = u
    /\ UNCHANGED <<clock, room, alive, req, steady>>

(* EXISTS *)
Look(u) ==
    /\ u \in left /\ ghost = Nil
    /\ left' = left \ {u}
    /\ ghost' = IF u \in alive THEN Nil ELSE u
    /\ UNCHANGED <<clock, room, alive, req, steady>>

(* Mutant: the worker only counts the ghosts. *)
Remove_Counted ==
    /\ ghost # Nil
    /\ ghost' = Nil
    /\ UNCHANGED <<clock, room, alive, left, req, steady>>

(* ZREM, whatever the user has done since the look *)
Remove ==
    /\ ghost # Nil
    /\ Leave({ghost})
    /\ ghost' = Nil
    /\ UNCHANGED <<clock, alive, left, req, steady>>

(* A command of the worker raises, or its process dies. *)
ScanFails ==
    /\ left # {} \/ ghost # Nil
    /\ left' = {} /\ ghost' = Nil
    /\ UNCHANGED <<clock, room, alive, req, steady>>

-----------------------------------------------------------------------------
(* complete_sale and delete_sale delete the room. *)
DeleteRoom ==
    /\ Waiting # {}
    /\ Leave(Users)
    /\ UNCHANGED <<clock, alive, worker, req, steady>>

RedisRestarts ==
    /\ Leave(Users)
    /\ alive' = {} /\ steady' = {}
    /\ UNCHANGED <<clock, worker, req>>

Tick ==
    /\ clock < MaxClock
    /\ clock' = clock + 1
    /\ UNCHANGED <<room, alive, worker, req, steady>>

-----------------------------------------------------------------------------
Handling(h) ==
    \/ \E u \in Users : Ask(h, u)
    \/ SendToRoom(h) \/ Skip(h) \/ Draw(h) \/ Add(h) \/ Drop(h)

Worker == List \/ (\E u \in Users : Look(u)) \/ Remove \/ ScanFails

Next ==
    \/ \E h \in Handlers : Handling(h)
    \/ \E u \in Users : Ping(u) \/ Lapse(u)
    \/ Worker
    \/ DeleteRoom \/ RedisRestarts \/ Tick

(* The worker's task loops, and its commands do not raise for a user every time. *)
Fairness ==
    /\ WF_vars(List)
    /\ \A u \in Users : SF_vars(Look(u)) /\ SF_vars(ghost = u /\ Remove)

Spec == Init /\ [][Next]_vars /\ Fairness

-----------------------------------------------------------------------------
(* ZRANK: Redis orders the room by score, and equal scores by the members' names. *)
Before(u, w) == score[u] < score[w] \/ (score[u] = score[w] /\ Name[u] < Name[w])

(* First come, first served, but for one millisecond: whoever waited when a score
   was drawn, and has waited since, is overtaken by it only when their two scores
   are of the same millisecond, although scores are drawn before they are written,
   in several requests at once, and users ask again.  In that millisecond the name
   decides, and services/queue_service.py, "guarantees FIFO order", is wrong. *)
OvertakenInOneMillisecond ==
    \A p \in ahead : Before(p[2], p[1]) => score[p[1]] = score[p[2]]

(* The worker takes nobody out of the room who has been heard of at every moment
   since it listed the members, however old its list is when it acts. *)
HeardStay ==
    [][\A u \in steady : score[u] # Nil /\ score'[u] = Nil => UNCHANGED worker]_vars

(* Nobody waits for ever without being heard of. *)
GhostsLeave == \A u \in Users : []<>(score[u] = Nil \/ u \in alive)

-----------------------------------------------------------------------------
(* The inductive invariant behind the theorems of WaitingRoomProofs. *)

(* Those whom a request, or a user who waits, found waiting still wait, with a
   score no higher; and no score is in the future. *)
ScoresDrawn ==
    /\ \A u \in Waiting : score[u] <= clock
    /\ \A h \in Handlers : At(h, "add") => req[h].at <= clock
    /\ \A p \in seen : At(p[1], "add") /\ p[2] \in Waiting /\ score[p[2]] <= req[p[1]].at
    /\ \A p \in ahead : p[1] \in Waiting /\ p[2] \in Waiting /\ score[p[1]] <= score[p[2]]

(* The member about to be removed was silent since the members were listed. *)
GhostSilent == ghost # Nil => ghost \notin steady

IInv == TypeOK /\ ScoresDrawn /\ GhostSilent
=============================================================================
