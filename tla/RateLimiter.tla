----------------------------- MODULE RateLimiter -----------------------------
(***************************************************************************)
(* The sliding-window limit on the requests of one identifier to one path: *)
(* a user's reservations, or the logins from one address                   *)
(* (middleware/rate_limiter.py).                                           *)
(*                                                                         *)
(* One key, one script.  The script is atomic, but the time it works with  *)
(* is the API process's, drawn before the script is sent: requests of      *)
(* several processes reach Redis in another order than that of their       *)
(* times.  The key's time-to-live runs by the clock of Redis, which is on  *)
(* the same host.  A request is named by the position of its time in       *)
(* stamp, for which its uuid stands.                                       *)
(***************************************************************************)
EXTENDS Integers, Sequences, FiniteSets

CONSTANTS Handlers,
          Limit,       \* requests per window
          Window,
          MaxLag,      \* longest time between drawing the time and the script
          MaxClock,    \* bound
          MaxRequests  \* bound

ASSUME RateLimiterAssumption ==
    /\ Limit \in Nat /\ Window \in Nat /\ MaxLag \in Nat
    /\ MaxClock \in Nat /\ MaxRequests \in Nat

VARIABLES
    clock,
    stamp,     \* the times drawn
    entries,   \* members of the sorted set, each with its time for a score
    expires,   \* when the key's time-to-live is over
    accepted,  \* history: requests the script has accepted since Redis started
    req        \* what each handler does

vars == <<clock, stamp, entries, expires, accepted, req>>

-----------------------------------------------------------------------------
Idle == [step |-> "idle"]

Sent == 1..Len(stamp)

TypeOK ==
    /\ clock \in 0..MaxClock
    /\ stamp \in Seq(0..MaxClock)
    /\ entries \subseteq accepted /\ accepted \subseteq Sent
    /\ expires \in Nat
    /\ req \in [Handlers -> [step : {"drawn", "refused"}, id : Sent] \cup {Idle}]

Init ==
    /\ clock = 0 /\ stamp = <<>>
    /\ entries = {} /\ expires = 0 /\ accepted = {}
    /\ req = [h \in Handlers |-> Idle]

At(h, step) == req[h].step = step

(* _check_rate_limit draws the time. *)
Draw(h) ==
    /\ req[h] = Idle
    /\ Len(stamp) < MaxRequests
    /\ stamp' = Append(stamp, clock)
    /\ req' = [req EXCEPT ![h] = [step |-> "drawn", id |-> Len(stamp) + 1]]
    /\ UNCHANGED <<clock, entries, expires, accepted>>

(* The members that are still there once the key's time is looked at. *)
Live == IF clock < expires THEN entries ELSE {}

(* Mutant: the edge of the window is not trimmed. *)
Kept_Edge(now) == {i \in Live : stamp[i] >= now - Window}

(* ZREMRANGEBYSCORE 0 (now - window) *)
Kept(now) == {i \in Live : stamp[i] > now - Window}

(* Mutant: a refused request is counted too. *)
Refuse_Counted(h) ==
    LET kept == Kept(stamp[req[h].id]) IN
    /\ At(h, "drawn")
    /\ Cardinality(kept) >= Limit
    /\ entries' = kept \cup {req[h].id}
    /\ req' = [req EXCEPT ![h].step = "refused"]
    /\ UNCHANGED <<clock, stamp, expires, accepted>>

(* The script finds the window full. *)
Refuse(h) ==
    LET kept == Kept(stamp[req[h].id]) IN
    /\ At(h, "drawn")
    /\ Cardinality(kept) >= Limit
    /\ entries' = kept
    /\ req' = [req EXCEPT ![h].step = "refused"]
    /\ UNCHANGED <<clock, stamp, expires, accepted>>

(* Mutant: the limit is passed by one. *)
Accept_OneMore(h) ==
    LET kept == Kept(stamp[req[h].id]) IN
    /\ At(h, "drawn")
    /\ Cardinality(kept) <= Limit
    /\ entries' = kept \cup {req[h].id}
    /\ expires' = clock + Window
    /\ accepted' = accepted \cup {req[h].id}
    /\ req' = [req EXCEPT ![h] = Idle]
    /\ UNCHANGED <<clock, stamp>>

(* The script adds the request, and the handler goes on. *)
Accept(h) ==
    LET kept == Kept(stamp[req[h].id]) IN
    /\ At(h, "drawn")
    /\ Cardinality(kept) < Limit
    /\ entries' = kept \cup {req[h].id}
    /\ expires' = clock + Window
    /\ accepted' = accepted \cup {req[h].id}
    /\ req' = [req EXCEPT ![h] = Idle]
    /\ UNCHANGED <<clock, stamp>>

(* Redis raises before the script has run, and the handler goes on uncounted;
   or the answer of a refusal is sent; or is lost, and the handler goes on. *)
Done(h) ==
    /\ req[h] # Idle
    /\ req' = [req EXCEPT ![h] = Idle]
    /\ UNCHANGED <<clock, stamp, entries, expires, accepted>>

RedisRestarts ==
    /\ entries' = {} /\ accepted' = {}
    /\ UNCHANGED <<clock, stamp, expires, req>>

(* Time passes, also while a script is on its way.  The code sets no bound to
   that: MaxLag is the model's, and AtMostLimit holds relative to it. *)
Tick ==
    /\ clock < MaxClock
    /\ \A h \in Handlers : At(h, "drawn") => clock - stamp[req[h].id] < MaxLag
    /\ clock' = clock + 1
    /\ UNCHANGED <<stamp, entries, expires, accepted, req>>

Next ==
    \/ \E h \in Handlers : Draw(h) \/ Accept(h) \/ Refuse(h) \/ Done(h)
    \/ RedisRestarts \/ Tick

Spec == Init /\ [][Next]_vars

-----------------------------------------------------------------------------
(* The requests the script accepted with a time after t. *)
Since(t) == {i \in accepted : stamp[i] > t}

(* No window holds more than Limit accepted requests, by the times at which they
   were made, when it is shortened by what requests may be late: in whatever
   order they reach Redis, and although each trims the set by its own time
   and the set as a whole expires by another clock. *)
AtMostLimit ==
    \A t \in 0..MaxClock :
        Cardinality({i \in Since(t - (Window - MaxLag)) : stamp[i] <= t}) <= Limit

(* A request is refused only if Limit others were accepted in the window before
   it or later: refused requests, and those long past, count for nothing, so
   whoever is refused gets in again. *)
RefusedForCause ==
    [][\A h \in Handlers :
        At(h, "drawn") /\ req'[h].step = "refused"
            => Cardinality(Since(stamp[req[h].id] - Window)) >= Limit]_vars

-----------------------------------------------------------------------------
(* The inductive invariant behind AtMostLimit: what the set has lost is out of
   every window, nothing is late by more than MaxLag, and the key does not go
   before its last member. *)
Complete == \A i \in accepted \ Live : stamp[i] <= clock - Window

InTime ==
    /\ \A i \in Sent : stamp[i] <= clock
    /\ \A h \in Handlers : At(h, "drawn") => clock - stamp[req[h].id] <= MaxLag
    /\ \A i \in entries : stamp[i] + Window <= expires
    /\ expires <= clock + Window

IInv == TypeOK /\ Complete /\ InTime /\ AtMostLimit
=============================================================================
