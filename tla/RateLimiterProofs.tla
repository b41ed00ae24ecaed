-------------------------- MODULE RateLimiterProofs --------------------------
(* Theorems about RateLimiter, for every limit, window and lag. *)
EXTENDS RateLimiter, FiniteSetTheorems, SequenceTheorems, TLAPS

LEMMA InitTypes == Init => TypeOK
  BY RateLimiterAssumption DEF Init, TypeOK, Sent, Idle

LEMMA NextTypes == TypeOK /\ [Next]_vars => TypeOK'
<1> SUFFICES ASSUME TypeOK, [Next]_vars PROVE TypeOK'
  OBVIOUS
<1> USE RateLimiterAssumption DEF TypeOK, Sent, Idle, At
<1>1. ASSUME NEW h \in Handlers, Draw(h) PROVE TypeOK'
  <2>1. Len(stamp') = Len(stamp) + 1 /\ stamp' \in Seq(0..MaxClock)
    BY <1>1 DEF Draw
  <2> QED
    BY <1>1, <2>1 DEF Draw
<1>2. ASSUME NEW h \in Handlers, Accept(h) PROVE TypeOK'
  <2>1. req[h].id \in Sent
    BY <1>2 DEF Accept
  <2>2. Kept(stamp[req[h].id]) \subseteq entries
    BY DEF Kept, Live
  <2>3. expires' \in Nat
    BY <1>2 DEF Accept
  <2>4. entries' \subseteq accepted' /\ accepted' \subseteq Sent /\ UNCHANGED <<clock, stamp>>
    BY <1>2, <2>1, <2>2 DEF Accept
  <2>5. req' \in [Handlers -> [step : {"drawn", "refused"}, id : Sent] \cup {Idle}]
    BY <1>2 DEF Accept
  <2> QED
    BY <2>3, <2>4, <2>5
<1>5. ASSUME NEW h \in Handlers, Refuse(h) PROVE TypeOK'
  <2>1. req[h] \in [step : {"drawn", "refused"}, id : Sent]
    BY <1>5 DEF Refuse
  <2>2. Kept(stamp[req[h].id]) \subseteq entries
    BY DEF Kept, Live
  <2>3. entries' \subseteq accepted' /\ UNCHANGED <<accepted, clock, stamp, expires>>
    BY <1>5, <2>2 DEF Refuse
  <2>4. req' \in [Handlers -> [step : {"drawn", "refused"}, id : Sent] \cup {Idle}]
    BY <1>5, <2>1 DEF Refuse
  <2> QED
    BY <2>3, <2>4
<1>3. ASSUME NEW h \in Handlers, Done(h) PROVE TypeOK'
  BY <1>3 DEF Done
<1>4. CASE RedisRestarts \/ UNCHANGED vars
  BY <1>4 DEF RedisRestarts, vars
<1>6. CASE Tick
  <2>1. clock' \in 0..MaxClock /\ UNCHANGED <<stamp, entries, expires, accepted, req>>
    BY <1>6 DEF Tick
  <2> QED
    BY <2>1
<1> QED
  BY <1>1, <1>2, <1>3, <1>4, <1>5, <1>6 DEF Next

(* Every time that was drawn is one of the clock's. *)
LEMMA Stamps == TypeOK => \A i \in Sent : stamp[i] \in 0..MaxClock /\ stamp[i] \in Nat
<1> SUFFICES ASSUME TypeOK, NEW i \in Sent PROVE stamp[i] \in 0..MaxClock
  BY RateLimiterAssumption
<1>1. stamp \in Seq(0..MaxClock) /\ i \in 1..Len(stamp)
  BY DEF TypeOK, Sent
<1> QED
  BY <1>1, ElementOfSeq

(* A request in flight has a time that was drawn. *)
LEMMA DrawnStamp ==
    ASSUME TypeOK, InTime, NEW h \in Handlers, At(h, "drawn")
    PROVE  /\ req[h].id \in Sent
           /\ stamp[req[h].id] \in Nat /\ stamp[req[h].id] <= clock
           /\ clock <= stamp[req[h].id] + MaxLag
<1>1. req[h] \in [step : {"drawn", "refused"}, id : Sent]
  BY DEF TypeOK, At, Idle
<1>2. stamp[req[h].id] \in 0..MaxClock
  BY <1>1, Stamps
<1> QED
  BY <1>1, <1>2, RateLimiterAssumption DEF InTime, At, TypeOK

LEMMA NextInTime == TypeOK /\ InTime /\ [Next]_vars => InTime'
<1> SUFFICES ASSUME TypeOK, InTime, [Next]_vars PROVE InTime'
  OBVIOUS
<1>1. /\ clock \in Nat /\ expires \in Nat /\ entries \subseteq Sent
      /\ \A i \in Sent : stamp[i] \in Nat /\ stamp[i] <= clock
      /\ \A i \in entries : stamp[i] + Window <= expires
      /\ expires <= clock + Window
  BY Stamps, RateLimiterAssumption DEF TypeOK, InTime
<1>2. ASSUME NEW h \in Handlers, Draw(h) PROVE InTime'
  <2>1. /\ Sent' = Sent \cup {Len(stamp) + 1} /\ stamp'[Len(stamp) + 1] = clock
        /\ \A i \in Sent : stamp'[i] = stamp[i]
    BY <1>2 DEF Draw, Sent, TypeOK
  <2>2. /\ req' = [req EXCEPT ![h] = [step |-> "drawn", id |-> Len(stamp) + 1]]
        /\ UNCHANGED <<clock, expires, entries>>
    BY <1>2 DEF Draw
  <2>3. \A i \in Sent' : stamp'[i] <= clock
    BY <1>1, <2>1
  <2>4. ASSUME NEW k \in Handlers, At(k, "drawn")' PROVE clock - stamp'[req'[k].id] <= MaxLag
    <3>1. CASE k = h
      BY <1>1, <2>1, <2>2, <3>1, RateLimiterAssumption DEF TypeOK
    <3>2. CASE k # h
      <4>1. req'[k] = req[k] /\ At(k, "drawn")
        BY <2>2, <2>4, <3>2 DEF TypeOK, At
      <4> QED
        BY <2>1, <4>1, DrawnStamp DEF InTime
    <3> QED
      BY <3>1, <3>2
  <2>5. \A i \in entries' : stamp'[i] + Window <= expires'
    BY <1>1, <2>1, <2>2
  <2> QED
    BY <1>1, <2>2, <2>3, <2>4, <2>5 DEF InTime
<1>3. ASSUME NEW h \in Handlers, Accept(h) \/ Refuse(h) \/ Done(h) PROVE InTime'
  <2>1. UNCHANGED <<clock, stamp>>
    BY <1>3 DEF Accept, Refuse, Done
  <2>2. ASSUME NEW k \in Handlers, At(k, "drawn")' PROVE req'[k] = req[k]
    BY <1>3, <2>2 DEF Accept, Refuse, Done, TypeOK, At, Idle
  <2>3. expires' <= clock + Window /\ \A i \in entries' : stamp[i] + Window <= expires'
    <3>1. CASE Accept(h)
      <4>1. At(h, "drawn") /\ expires' = clock + Window
        BY <3>1 DEF Accept
      <4>2. entries' \subseteq entries \cup {req[h].id}
        BY <3>1 DEF Accept, Kept, Live
      <4>3. entries' \subseteq Sent
        BY <1>1, <4>1, <4>2, DrawnStamp
      <4>4. \A i \in entries' : stamp[i] \in Nat /\ stamp[i] <= clock
        BY <1>1, <4>3
      <4> QED
        BY <1>1, <4>1, <4>4, RateLimiterAssumption
    <3>2. CASE Refuse(h) \/ Done(h)
      <4>1. entries' \subseteq entries /\ expires' = expires
        BY <3>2 DEF Refuse, Done, Kept, Live
      <4> QED
        BY <1>1, <4>1
    <3> QED
      BY <1>3, <3>1, <3>2
  <2> QED
    BY <2>1, <2>2, <2>3 DEF InTime, At, Sent
<1>4. CASE RedisRestarts \/ UNCHANGED vars
  BY <1>4 DEF RedisRestarts, vars, InTime, At, Sent
<1>5. CASE Tick
  <2>1. clock' = clock + 1 /\ UNCHANGED <<stamp, expires, entries, req>>
    BY <1>5 DEF Tick
  <2>2. \A h \in Handlers : At(h, "drawn") => clock - stamp[req[h].id] < MaxLag
    BY <1>5 DEF Tick
  <2>3. ASSUME NEW h \in Handlers, At(h, "drawn") PROVE clock + 1 - stamp[req[h].id] <= MaxLag
    BY <1>1, <2>2, <2>3, DrawnStamp, RateLimiterAssumption
  <2>4. (\A i \in Sent : stamp[i] <= clock)'
    BY <1>1, <2>1 DEF Sent
  <2>5. ASSUME NEW k \in Handlers, At(k, "drawn")' PROVE clock' - stamp'[req'[k].id] <= MaxLag
    <3>1. At(k, "drawn") /\ stamp'[req'[k].id] = stamp[req[k].id]
      BY <2>1, <2>5 DEF At
    <3>2. clock + 1 - stamp[req[k].id] <= MaxLag /\ stamp[req[k].id] \in Nat
      BY <2>3, <3>1, DrawnStamp
    <3> QED
      BY <1>1, <2>1, <3>1, <3>2, RateLimiterAssumption
  <2>6. (expires <= clock + Window)' /\ (\A i \in entries : stamp[i] + Window <= expires)'
    BY <1>1, <2>1, RateLimiterAssumption
  <2> QED
    BY <2>4, <2>5, <2>6 DEF InTime
<1> QED
  BY <1>2, <1>3, <1>4, <1>5 DEF Next

(* What the script drops from the set is out of its window; what the set loses
   with its key is older than the last request that was accepted. *)
LEMMA NextComplete == TypeOK /\ InTime /\ Complete /\ [Next]_vars => Complete'
<1> SUFFICES ASSUME TypeOK, InTime, Complete, [Next]_vars,
                    NEW i \in accepted', i \notin Live'
             PROVE  stamp'[i] <= clock' - Window
  BY DEF Complete
<1>1. /\ clock \in Nat /\ expires \in Nat /\ \A j \in Sent : stamp[j] \in Nat /\ stamp[j] <= clock
      /\ accepted \subseteq Sent
  BY Stamps, RateLimiterAssumption DEF TypeOK, InTime
<1>2. \A j \in accepted : j \notin Live => stamp[j] <= clock - Window
  BY DEF Complete
<1>3. ASSUME NEW h \in Handlers, Draw(h) PROVE stamp'[i] <= clock' - Window
  <2>1. i \in accepted /\ i \in Sent /\ stamp'[i] = stamp[i] /\ UNCHANGED <<clock, entries, expires>>
    BY <1>1, <1>3 DEF Draw, Sent, TypeOK
  <2> QED
    BY <1>2, <2>1 DEF Live
<1>4. ASSUME NEW h \in Handlers, Accept(h) PROVE stamp'[i] <= clock' - Window
  <2> DEFINE now == stamp[req[h].id]
  <2>1. now \in Nat /\ now <= clock /\ req[h].id \in Sent
    BY <1>4, DrawnStamp DEF Accept
  <2>2. /\ entries' = Kept(now) \cup {req[h].id}
        /\ accepted' = accepted \cup {req[h].id}
        /\ expires' = clock + Window
        /\ UNCHANGED <<clock, stamp>>
    BY <1>4 DEF Accept
  <2>3. i \in Sent /\ stamp[i] \in Nat /\ stamp[i] <= clock
    BY <1>1, <2>1, <2>2
  <2>4. CASE Window = 0
    BY <1>1, <2>2, <2>3, <2>4
  <2>5. CASE Window # 0
    <3>1. i \notin Kept(now) /\ i \in accepted
      BY <1>1, <2>2, <2>5, RateLimiterAssumption DEF Live
    <3>2. CASE i \in Live
      BY <1>1, <2>1, <2>2, <2>3, <3>1, <3>2, RateLimiterAssumption DEF Kept
    <3>3. CASE i \notin Live
      BY <1>2, <2>2, <3>1, <3>3
    <3> QED
      BY <3>2, <3>3
  <2> QED
    BY <2>4, <2>5
<1>5. ASSUME NEW h \in Handlers, Refuse(h) PROVE stamp'[i] <= clock' - Window
  <2> DEFINE now == stamp[req[h].id]
  <2>1. now \in Nat /\ now <= clock /\ req[h].id \in Sent
    BY <1>5, DrawnStamp DEF Refuse
  <2>2. entries' = Kept(now) /\ UNCHANGED <<accepted, expires, clock, stamp>>
    BY <1>5 DEF Refuse
  <2>3. i \in accepted /\ i \in Sent /\ stamp[i] \in Nat /\ stamp[i] <= clock
    BY <1>1, <2>2
  <2>4. CASE i \in Live
    <3>1. i \notin Kept(now)
      BY <2>2, <2>4 DEF Live
    <3> QED
      BY <1>1, <2>1, <2>2, <2>3, <2>4, <3>1, RateLimiterAssumption DEF Kept
  <2>5. CASE i \notin Live
    BY <1>2, <2>2, <2>3, <2>5
  <2> QED
    BY <2>4, <2>5
<1>6. ASSUME NEW h \in Handlers, Done(h) PROVE stamp'[i] <= clock' - Window
  BY <1>2, <1>6 DEF Done, Live
<1>7. CASE Tick
  <2>1. i \in accepted /\ clock' = clock + 1 /\ UNCHANGED <<stamp, entries, expires>>
    BY <1>7 DEF Tick
  <2>2. stamp[i] \in Nat
    BY <1>1, <2>1
  <2>3. CASE i \in Live
    <3>1. i \in entries /\ clock < expires /\ ~(clock + 1 < expires)
      BY <2>1, <2>3 DEF Live
    <3>2. expires = clock + 1
      BY <1>1, <3>1
    <3>3. stamp[i] + Window <= expires
      BY <3>1 DEF InTime
    <3> QED
      BY <1>1, <2>1, <2>2, <3>2, <3>3, RateLimiterAssumption
  <2>4. CASE i \notin Live
    BY <1>1, <1>2, <2>1, <2>2, <2>4, RateLimiterAssumption
  <2> QED
    BY <2>3, <2>4
<1>8. CASE RedisRestarts \/ UNCHANGED vars
  BY <1>2, <1>8 DEF RedisRestarts, vars, Live
<1> QED
  BY <1>3, <1>4, <1>5, <1>6, <1>7, <1>8 DEF Next

(* The accepted requests in the shortened window that ends at t. *)
InWindow(t) == {i \in Since(t - (Window - MaxLag)) : stamp[i] <= t}

(* Sets of requests are finite. *)
LEMMA SentFinite ==
    ASSUME TypeOK, NEW S, S \subseteq Sent
    PROVE  IsFiniteSet(S) /\ Cardinality(S) \in Nat
<1>1. Len(stamp) \in Nat
  BY DEF TypeOK
<1>2. IsFiniteSet(Sent)
  BY <1>1, FS_Interval DEF Sent
<1> QED
  BY <1>2, FS_Subset, FS_CardinalityType

(* A window with the new request in it is within the set that the script has
   counted, and the request itself. *)
LEMMA WindowCounted ==
    ASSUME TypeOK, InTime, Complete, NEW h \in Handlers, At(h, "drawn"),
           NEW t \in 0..MaxClock, NEW i \in accepted,
           stamp[req[h].id] <= t, stamp[i] > t - (Window - MaxLag)
    PROVE  i \in Kept(stamp[req[h].id])
<1> DEFINE now == stamp[req[h].id]
<1>1. /\ i \in Sent /\ stamp[i] \in Nat /\ now \in Nat /\ clock \in Nat /\ t \in Nat
      /\ clock <= now + MaxLag
  BY Stamps, DrawnStamp, RateLimiterAssumption DEF TypeOK
<1>2. i \in Live
  <2> SUFFICES ASSUME i \notin Live PROVE FALSE
    OBVIOUS
  <2>1. stamp[i] <= clock - Window
    BY DEF Complete
  <2> QED
    BY <1>1, <2>1, RateLimiterAssumption
<1>3. stamp[i] > now - Window
  BY <1>1, RateLimiterAssumption
<1> QED
  BY <1>2, <1>3 DEF Kept

LEMMA NextAtMost ==
    TypeOK /\ InTime /\ Complete /\ AtMostLimit /\ [Next]_vars => AtMostLimit'
<1> SUFFICES ASSUME TypeOK, InTime, Complete, AtMostLimit, [Next]_vars,
                    NEW t \in 0..MaxClock
             PROVE  Cardinality(InWindow(t)') <= Limit
  BY DEF AtMostLimit, InWindow
<1>1. Cardinality(InWindow(t)) <= Limit
  BY DEF AtMostLimit, InWindow
<1>2. accepted \subseteq Sent /\ Limit \in Nat
  BY RateLimiterAssumption DEF TypeOK
<1>3. ASSUME NEW h \in Handlers, Draw(h) PROVE InWindow(t)' = InWindow(t)
  <2>1. accepted' = accepted /\ \A i \in Sent : stamp'[i] = stamp[i]
    BY <1>3 DEF Draw, Sent, TypeOK
  <2> QED
    BY <1>2, <2>1 DEF InWindow, Since
<1>4. ASSUME NEW h \in Handlers, Refuse(h) \/ Done(h) PROVE InWindow(t)' = InWindow(t)
  BY <1>4 DEF Refuse, Done, InWindow, Since
<1>5. CASE Tick \/ UNCHANGED vars
  <2>1. InWindow(t)' = InWindow(t)
    BY <1>5 DEF Tick, vars, InWindow, Since
  <2> QED
    BY <1>1, <2>1
<1>6. CASE RedisRestarts
  <2>1. InWindow(t)' = {}
    BY <1>6 DEF RedisRestarts, InWindow, Since
  <2> QED
    BY <1>2, <2>1, FS_EmptySet
<1>7. ASSUME NEW h \in Handlers, Accept(h) PROVE Cardinality(InWindow(t)') <= Limit
  <2> DEFINE n == req[h].id
             kept == Kept(stamp[n])
  <2>1. /\ At(h, "drawn") /\ Cardinality(kept) < Limit
        /\ accepted' = accepted \cup {n} /\ stamp' = stamp
    BY <1>7 DEF Accept
  <2>2. InWindow(t)' \subseteq InWindow(t) \cup {n}
    BY <2>1 DEF InWindow, Since
  <2>3. CASE n \notin InWindow(t)'
    <3>1. InWindow(t)' \subseteq InWindow(t) /\ InWindow(t) \subseteq Sent
      BY <1>2, <2>2, <2>3 DEF InWindow, Since
    <3>2. IsFiniteSet(InWindow(t)) /\ Cardinality(InWindow(t)) \in Nat
      BY <3>1, SentFinite
    <3>3. Cardinality(InWindow(t)') <= Cardinality(InWindow(t)) /\ Cardinality(InWindow(t)') \in Nat
      BY <3>1, <3>2, FS_Subset, FS_CardinalityType
    <3> QED
      BY <1>1, <1>2, <3>2, <3>3
  <2>4. CASE n \in InWindow(t)'
    <3>1. stamp[n] <= t
      BY <2>1, <2>4 DEF InWindow
    <3>2. InWindow(t)' \subseteq kept \cup {n}
      <4> SUFFICES ASSUME NEW i \in InWindow(t)', i # n PROVE i \in kept
        OBVIOUS
      <4>1. i \in accepted /\ stamp[i] > t - (Window - MaxLag)
        BY <2>1 DEF InWindow, Since
      <4> QED
        BY <2>1, <3>1, <4>1, WindowCounted
    <3>3. kept \subseteq Sent
      BY <1>2 DEF Kept, Live, TypeOK
    <3>4. IsFiniteSet(kept) /\ Cardinality(kept) \in Nat
      BY <3>3, SentFinite
    <3>5. /\ IsFiniteSet(kept \cup {n}) /\ Cardinality(kept \cup {n}) \in Nat
          /\ Cardinality(kept \cup {n}) <= Cardinality(kept) + 1
      <4>1. /\ IsFiniteSet(kept \cup {n})
            /\ Cardinality(kept \cup {n}) = IF n \in kept THEN Cardinality(kept)
                                                         ELSE Cardinality(kept) + 1
        BY <3>4, FS_AddElement
      <4> QED
        BY <3>4, <4>1
    <3>6. /\ Cardinality(InWindow(t)') <= Cardinality(kept \cup {n})
          /\ Cardinality(InWindow(t)') \in Nat
      BY <3>2, <3>5, FS_Subset, FS_CardinalityType
    <3> QED
      BY <1>2, <2>1, <3>4, <3>5, <3>6
  <2> QED
    BY <2>3, <2>4
<1> QED
  BY <1>1, <1>3, <1>4, <1>5, <1>6, <1>7 DEF Next

LEMMA InitInvariant == Init => IInv
<1> SUFFICES ASSUME Init PROVE IInv
  OBVIOUS
<1>1. TypeOK
  BY InitTypes
<1>2. Complete
  BY DEF Init, Complete
<1>3. InTime
  BY RateLimiterAssumption DEF Init, InTime, Sent, At, Idle
<1>4. ASSUME NEW t \in 0..MaxClock PROVE Cardinality(InWindow(t)) <= Limit
  <2>1. InWindow(t) = {}
    BY DEF Init, InWindow, Since
  <2> QED
    BY <2>1, FS_EmptySet, RateLimiterAssumption
<1>5. AtMostLimit
  BY <1>4 DEF AtMostLimit, InWindow
<1> QED
  BY <1>1, <1>2, <1>3, <1>5 DEF IInv

(* The inductive invariant holds of every reachable state: what the set has lost
   is out of every window, whatever the order in which the scripts run. *)
THEOREM LimiterInvariant == Spec => []IInv
<1>1. Init => IInv
  BY InitInvariant
<1>2. IInv /\ [Next]_vars => IInv'
  BY NextTypes, NextInTime, NextComplete, NextAtMost DEF IInv
<1> QED
  BY <1>1, <1>2, PTL DEF Spec

(* Type correctness of the set, of the times drawn and of the requests. *)
THEOREM LimiterTypeOK == Spec => []TypeOK
<1>1. IInv => TypeOK
  BY DEF IInv
<1> QED
  BY <1>1, LimiterInvariant, PTL

(* No window, shortened by the lag, holds more accepted requests than the limit
   (_check_rate_limit and its script). *)
THEOREM NeverBeyondLimit == Spec => []AtMostLimit
<1>1. IInv => AtMostLimit
  BY DEF IInv
<1> QED
  BY <1>1, LimiterInvariant, PTL

(* Whoever is refused has had as many requests accepted as the limit allows. *)
THEOREM RefusalsJustified == Spec => RefusedForCause
<1> DEFINE Cause ==
        \A h \in Handlers :
            At(h, "drawn") /\ req'[h].step = "refused"
                => Cardinality(Since(stamp[req[h].id] - Window)) >= Limit
<1>1. IInv /\ [Next]_vars => [Cause]_vars
  <2> SUFFICES ASSUME IInv, Next, NEW h \in Handlers,
                      At(h, "drawn"), req'[h].step = "refused"
               PROVE  Cardinality(Since(stamp[req[h].id] - Window)) >= Limit
    OBVIOUS
  <2>1. TypeOK
    BY DEF IInv
  <2>2. Refuse(h)
    BY <2>1 DEF Next, Draw, Accept, Refuse, Done, RedisRestarts, Tick, At, Idle, TypeOK
  <2> DEFINE kept == Kept(stamp[req[h].id])
             since == Since(stamp[req[h].id] - Window)
  <2>3. Cardinality(kept) >= Limit
    BY <2>2 DEF Refuse
  <2>4. kept \subseteq since /\ since \subseteq Sent
    BY <2>1 DEF Kept, Live, Since, TypeOK
  <2>5. IsFiniteSet(since) /\ Cardinality(since) \in Nat
    BY <2>1, <2>4, SentFinite
  <2>6. Cardinality(kept) <= Cardinality(since) /\ Cardinality(kept) \in Nat
    BY <2>4, <2>5, FS_Subset, FS_CardinalityType
  <2> QED
    BY <2>3, <2>5, <2>6, RateLimiterAssumption
<1> QED
  BY <1>1, LimiterInvariant, PTL DEF Spec, RefusedForCause
=============================================================================
