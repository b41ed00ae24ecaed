--------------------------- MODULE CircuitBreaker ---------------------------
(***************************************************************************)
(* The circuit breaker around the direct publish (utils/                   *)
(* circuit_breaker.py).  Its state is four Redis keys that every API       *)
(* process reads and writes one command at a time, so a call is a          *)
(* sequence of steps with the commands of other calls in between.          *)
(*                                                                         *)
(* A missing state key reads as closed, a missing counter as zero.  The    *)
(* counters are only ever compared with their thresholds, and are kept up  *)
(* to those.  EXPIRE follows INCR as a command of its own; that a counter  *)
(* may vanish at any time covers it.  A command that raises has had no     *)
(* effect.                                                                 *)
(***************************************************************************)
EXTENDS Integers

CONSTANTS Calls,             \* calls that can be under way at once, in any process
          FailureThreshold,  \* failure_threshold
          SuccessThreshold,  \* success_threshold
          Nil                \* what Redis answers for a key it does not have

ASSUME BreakerAssumption ==
    /\ FailureThreshold \in Nat \ {0}
    /\ SuccessThreshold \in Nat \ {0}
    /\ Nil \notin {"fresh", "old"}

VARIABLES
    state,      \* circuit:{name}:state
    failures,   \* circuit:{name}:failures
    successes,  \* circuit:{name}:successes
    opened_at,  \* circuit:{name}:opened_at: "fresh", "old" once the cooldown has passed, or Nil
    at,         \* the step each call is about to make
    unstamped   \* history: an opening got no time, or lost it, and no later one has set it

keys == <<state, failures, successes, opened_at>>
breakerVars == <<keys, at, unstamped>>

Steps ==
    {"idle", "age", "probe", "try",
     "won", "succeed", "close", "forgetFailures", "forgetSuccesses", "forgetOpening", "clear",
     "lost", "fail", "open", "stamp", "reset"}

BreakerTypeOK ==
    /\ state \in {"closed", "open", "half_open"}
    /\ failures \in 0..FailureThreshold
    /\ successes \in 0..SuccessThreshold
    /\ opened_at \in {"fresh", "old", Nil}
    /\ at \in [Calls -> Steps]
    /\ unstamped \in BOOLEAN

BreakerInit ==
    /\ state = "closed" /\ failures = 0 /\ successes = 0
    /\ opened_at = Nil
    /\ at = [c \in Calls |-> "idle"]
    /\ unstamped = FALSE

(* Call c makes its step "from" and goes on to "to". *)
Step(c, from, to) ==
    /\ at[c] = from
    /\ at' = [at EXCEPT ![c] = to]

-----------------------------------------------------------------------------
(* call *)
ReadState(c) ==
    /\ Step(c, "idle", IF state = "open" THEN "age" ELSE "try")
    /\ UNCHANGED <<keys, unstamped>>

(* CircuitOpenError, unless the cooldown has passed *)
ReadOpenedAt(c) ==
    /\ Step(c, "age", IF opened_at = "old" THEN "probe" ELSE "idle")
    /\ UNCHANGED <<keys, unstamped>>

(* Mutant: the call goes through, and nobody is told. *)
SetHalfOpen_NotSet(c) ==
    /\ Step(c, "probe", "try")
    /\ UNCHANGED <<keys, unstamped>>

SetHalfOpen(c) ==
    /\ Step(c, "probe", "try")
    /\ state' = "half_open"
    /\ UNCHANGED <<failures, successes, opened_at, unstamped>>

(* The publish itself *)
Attempt(c) ==
    /\ \E outcome \in {"won", "lost"} : Step(c, "try", outcome)
    /\ UNCHANGED <<keys, unstamped>>

-----------------------------------------------------------------------------
(* _on_success *)
ReadOnSuccess(c) ==
    /\ Step(c, "won", CASE state = "half_open" -> "succeed"
                        [] state = "closed" -> "clear"
                        [] state = "open" -> "idle")
    /\ UNCHANGED <<keys, unstamped>>

CountSuccess(c) ==
    /\ successes' = IF successes < SuccessThreshold THEN successes + 1 ELSE successes
    /\ Step(c, "succeed", IF successes' = SuccessThreshold THEN "close" ELSE "idle")
    /\ UNCHANGED <<state, failures, opened_at, unstamped>>

SetClosed(c) ==
    /\ Step(c, "close", "forgetFailures")
    /\ state' = "closed"
    /\ UNCHANGED <<failures, successes, opened_at, unstamped>>

ForgetFailures(c) ==
    /\ Step(c, "forgetFailures", "forgetSuccesses") \/ Step(c, "clear", "idle")
    /\ failures' = 0
    /\ UNCHANGED <<state, successes, opened_at, unstamped>>

ForgetSuccesses(c) ==
    /\ Step(c, "forgetSuccesses", "forgetOpening")
    /\ successes' = 0
    /\ UNCHANGED <<state, failures, opened_at, unstamped>>

ForgetOpening(c) ==
    /\ Step(c, "forgetOpening", "idle")
    /\ opened_at' = Nil
    /\ unstamped' = (unstamped \/ state = "open")
    /\ UNCHANGED <<state, failures, successes>>

-----------------------------------------------------------------------------
(* _on_failure and _open_circuit *)
ReadOnFailure(c) ==
    /\ Step(c, "lost", IF state = "half_open" THEN "open" ELSE "fail")
    /\ UNCHANGED <<keys, unstamped>>

CountFailure(c) ==
    /\ failures' = IF failures < FailureThreshold THEN failures + 1 ELSE failures
    /\ Step(c, "fail", IF failures' = FailureThreshold THEN "open" ELSE "idle")
    /\ UNCHANGED <<state, successes, opened_at, unstamped>>

(* Mutant: the name of the state is stored instead of its value. *)
SetOpen_Name(c) ==
    /\ Step(c, "open", "stamp")
    /\ state' = "CircuitState.OPEN"
    /\ UNCHANGED <<failures, successes, opened_at, unstamped>>

(* Mutant: the circuit opens without the time. *)
SetOpen_NoTime(c) ==
    /\ Step(c, "open", "reset")
    /\ state' = "open"
    /\ UNCHANGED <<failures, successes, opened_at, unstamped>>

SetOpen(c) ==
    /\ Step(c, "open", "stamp")
    /\ state' = "open"
    /\ UNCHANGED <<failures, successes, opened_at, unstamped>>

Stamp(c) ==
    /\ Step(c, "stamp", "reset")
    /\ opened_at' = "fresh" /\ unstamped' = FALSE
    /\ UNCHANGED <<state, failures, successes>>

ResetFailures(c) ==
    /\ Step(c, "reset", "idle")
    /\ failures' = 0
    /\ UNCHANGED <<state, successes, opened_at, unstamped>>

-----------------------------------------------------------------------------
(* A Redis command raises.  Inside _on_success the handler of call takes that
   for a failure of the publish. *)
Recording == {"won", "succeed", "close", "forgetFailures", "forgetSuccesses", "forgetOpening", "clear"}

RedisRaises(c) ==
    /\ at[c] \notin {"idle", "try"}
    /\ at' = [at EXCEPT ![c] = IF at[c] \in Recording THEN "lost" ELSE "idle"]
    /\ unstamped' = (unstamped \/ (at[c] = "stamp" /\ opened_at = Nil))
    /\ UNCHANGED keys

(* The process of the call dies, or the request is cancelled. *)
Abandoned(c) ==
    /\ at[c] # "idle"
    /\ at' = [at EXCEPT ![c] = "idle"]
    /\ unstamped' = (unstamped \/ (at[c] = "stamp" /\ opened_at = Nil))
    /\ UNCHANGED keys

(* The time to live of a counter passes. *)
CounterExpires ==
    /\ \/ failures # 0 /\ failures' = 0 /\ UNCHANGED successes
       \/ successes # 0 /\ successes' = 0 /\ UNCHANGED failures
    /\ UNCHANGED <<state, opened_at, at, unstamped>>

CooldownPasses ==
    /\ opened_at = "fresh"
    /\ opened_at' = "old"
    /\ UNCHANGED <<state, failures, successes, at, unstamped>>

(* Redis restarts, and has nothing saved. *)
RedisRestarts ==
    /\ state' = "closed" /\ failures' = 0 /\ successes' = 0 /\ opened_at' = Nil
    /\ unstamped' = FALSE
    /\ UNCHANGED at

-----------------------------------------------------------------------------
Call(c) ==
    \/ ReadState(c) \/ ReadOpenedAt(c) \/ SetHalfOpen(c) \/ Attempt(c)
    \/ ReadOnSuccess(c) \/ CountSuccess(c) \/ SetClosed(c)
    \/ ForgetFailures(c) \/ ForgetSuccesses(c) \/ ForgetOpening(c)
    \/ ReadOnFailure(c) \/ CountFailure(c) \/ SetOpen(c) \/ Stamp(c) \/ ResetFailures(c)

BreakerNext ==
    \/ \E c \in Calls : Call(c) \/ RedisRaises(c) \/ Abandoned(c)
    \/ CounterExpires \/ CooldownPasses \/ RedisRestarts

(* Reservations keep coming and each call goes on; not every one of them is
   lost while it finds out that the circuit is open; time passes. *)
BreakerFairness ==
    /\ \A c \in Calls :
        /\ WF_breakerVars(Call(c))
        /\ SF_breakerVars(ReadOpenedAt(c)) /\ SF_breakerVars(SetHalfOpen(c))
    /\ WF_breakerVars(CooldownPasses)

BreakerSpec == BreakerInit /\ [][BreakerNext]_breakerVars /\ BreakerFairness

-----------------------------------------------------------------------------
(* Only a call that is lost between the two commands that open the circuit, or a
   late closing that deletes the time of a newer opening, leaves an open circuit
   without the time it was opened, whose calls are refused until Redis restarts
   or a late call writes the state.  Nothing else does: not the openings of
   several calls, nor failed attempts to close, nor the restarts of Redis. *)
OpenIsStamped ==
    state = "open" /\ opened_at = Nil => unstamped \/ \E c \in Calls : at[c] = "stamp"

(* An open circuit that knows when it was opened is tried again, whatever late
   results, lost calls and expiring counters do meanwhile. *)
Probes == state = "open" /\ opened_at # Nil ~> state # "open" \/ opened_at = Nil
=============================================================================
