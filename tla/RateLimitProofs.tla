---------------------------- MODULE RateLimitProofs ----------------------------
(*****************************************************************************)
(* For any number of clients and requests and any limit: nobody is answered  *)
(* 429 unless the counter that says so counted more than Limit requests of   *)
(* that client in that minute.  The invariant is that no counter shows more  *)
(* than was counted; it needs the types.                                     *)
(*****************************************************************************)
EXTENDS RateLimit, FiniteSetTheorems, TLAPS

LimitInvariant == TypeOK /\ CountsAreCounted /\ RefusedOnlyOverLimit

(* The counters start at zero.                                               *)
LEMMA InitInvariant == Init => LimitInvariant
  BY LimitAssumption DEF Init, LimitInvariant, TypeOK, CountsAreCounted, RefusedOnlyOverLimit,
    RequestRecords, NoRequest, Zero, Minutes, Counters

(* What a request counts is added to the history first.                      *)
LEMMA NextInvariant == LimitInvariant /\ [Next]_vars => LimitInvariant'
<1> SUFFICES ASSUME TypeOK, CountsAreCounted, RefusedOnlyOverLimit, [Next]_vars
             PROVE TypeOK' /\ CountsAreCounted' /\ RefusedOnlyOverLimit'
  BY DEF LimitInvariant
<1> USE LimitAssumption DEF Minutes, Counters
<1>1. ASSUME NEW r \in Requests, NEW c \in Clients, Arrive(r, c)
      PROVE TypeOK' /\ CountsAreCounted' /\ RefusedOnlyOverLimit'
  <2> USE <1>1 DEF Arrive
  <2>1. arrivals' \in Nat
    BY DEF TypeOK
  <2>2. [pc |-> "counting", client |-> c, window |-> minute, count |-> 0] \in RequestRecords
    BY DEF TypeOK, RequestRecords
  <2>3. request' \in [Requests -> RequestRecords]
    BY <2>2 DEF TypeOK
  <2>4. TypeOK'
    BY <2>1, <2>3 DEF TypeOK
  <2>5. CountsAreCounted'
    BY DEF CountsAreCounted, TypeOK
  <2>6. RefusedOnlyOverLimit'
    BY DEF RefusedOnlyOverLimit
  <2>7. QED  BY <2>4, <2>5, <2>6
<1>2. ASSUME NEW r \in Requests, Incr(r)
      PROVE TypeOK' /\ CountsAreCounted' /\ RefusedOnlyOverLimit'
  <2> DEFINE c == request[r].client
             m == request[r].window
             answered == [pc |-> "answered", client |-> c, window |-> m, count |-> redis[<<c, m>>] + 1]
  <2>1. c \in Clients /\ m \in Minutes /\ redis[<<c, m>>] \in Nat
    BY <1>2 DEF Incr, TypeOK, RequestRecords
  <2>2. /\ redis' = [redis EXCEPT ![<<c, m>>] = @ + 1]
        /\ counted' = [counted EXCEPT ![<<"redis", c, m>>] = @ + 1]
        /\ request' = [request EXCEPT ![r] = answered]
        /\ UNCHANGED <<minute, local, arrivals, losses, admitted, refused>>
    BY <1>2 DEF Incr
  <2>3. answered \in RequestRecords
    BY <2>1 DEF RequestRecords
  <2> HIDE DEF c, m, answered
  <2>4. redis' \in [Clients \X Minutes -> Nat]
    BY <2>1, <2>2 DEF TypeOK
  <2>5. counted' \in [Counters \X Clients \X Minutes -> Nat]
    BY <2>1, <2>2 DEF TypeOK
  <2>6. request' \in [Requests -> RequestRecords]
    BY <2>2, <2>3 DEF TypeOK
  <2>7. \A q \in Requests : request'[q].pc # "none" => request'[q].client \in Clients
    BY <2>1, <2>2 DEF TypeOK, answered
  <2>8. TypeOK'
    BY <2>2, <2>4, <2>5, <2>6, <2>7 DEF TypeOK
  <2>9. \A k \in Counters, d \in Clients, n \in Minutes :
          counted'[<<k, d, n>>] = IF k = "redis" /\ d = c /\ n = m
                              THEN counted[<<k, d, n>>] + 1 ELSE counted[<<k, d, n>>]
    BY <2>1, <2>2 DEF TypeOK
  <2>10. \A d \in Clients, n \in Minutes :
           redis'[<<d, n>>] = IF d = c /\ n = m THEN redis[<<d, n>>] + 1 ELSE redis[<<d, n>>]
    BY <2>1, <2>2 DEF TypeOK
  <2>11. \A k \in Counters, d \in Clients, n \in Minutes :
           counted[<<k, d, n>>] \in Nat /\ counted'[<<k, d, n>>] >= counted[<<k, d, n>>]
    BY <2>9 DEF TypeOK
  <2>12. \A d \in Clients, n \in Minutes : redis[<<d, n>>] \in Nat
    BY DEF TypeOK
  <2>13. ASSUME NEW d \in Clients, NEW n \in Minutes
         PROVE redis'[<<d, n>>] <= counted'[<<"redis", d, n>>]
    <3>1. redis[<<d, n>>] <= counted[<<"redis", d, n>>]
      BY DEF CountsAreCounted
    <3>2. counted[<<"redis", d, n>>] \in Nat /\ redis[<<d, n>>] \in Nat
      BY <2>11, <2>12
    <3>3. CASE d = c /\ n = m
      <4>1. /\ redis'[<<d, n>>] = redis[<<d, n>>] + 1
            /\ counted'[<<"redis", d, n>>] = counted[<<"redis", d, n>>] + 1
        BY <2>9, <2>10, <3>3
      <4>2. QED  BY <3>1, <3>2, <4>1
    <3>4. CASE ~ (d = c /\ n = m)
      <4>1. redis'[<<d, n>>] = redis[<<d, n>>] /\ counted'[<<"redis", d, n>>] = counted[<<"redis", d, n>>]
        BY <2>9, <2>10, <3>4
      <4>2. QED  BY <3>1, <4>1
    <3>5. QED  BY <3>3, <3>4
  <2>14. \A d \in Clients : local'[d].count <= counted'[<<"local", d, local'[d].window>>]
    BY <2>2, <2>9 DEF CountsAreCounted, TypeOK
  <2>15. ASSUME NEW q \in Requests, request'[q].pc = "answered"
         PROVE request'[q].count <= counted'[<<"redis", request'[q].client, request'[q].window>>]
    <3>1. CASE q = r
      <4>1. request'[q] = answered
        BY <2>2, <3>1 DEF TypeOK
      <4>2. redis'[<<c, m>>] = redis[<<c, m>>] + 1
        BY <2>1, <2>10
      <4>3. QED
        BY <2>1, <2>13, <4>1, <4>2 DEF answered
    <3>2. CASE q # r
      <4>1. request'[q] = request[q] /\ request[q] \in RequestRecords /\ request[q].client \in Clients
        BY <2>2, <2>15, <3>2 DEF TypeOK
      <4>2. request[q].window \in Minutes /\ request[q].count \in Nat
        BY <4>1 DEF RequestRecords
      <4>3. request[q].count <= counted[<<"redis", request[q].client, request[q].window>>]
        BY <2>15, <4>1 DEF CountsAreCounted
      <4>4. LET d == request[q].client
                n == request[q].window
            IN /\ counted[<<"redis", d, n>>] \in Nat
               /\ counted'[<<"redis", d, n>>] \in Nat
               /\ counted'[<<"redis", d, n>>] >= counted[<<"redis", d, n>>]
        BY <2>5, <2>11, <4>1, <4>2
      <4>5. QED
        BY <4>1, <4>2, <4>3, <4>4
    <3>3. QED  BY <3>1, <3>2
  <2>16. CountsAreCounted'
    BY <2>13, <2>14, <2>15 DEF CountsAreCounted
  <2>17. RefusedOnlyOverLimit'
    BY <2>2, <2>11 DEF RefusedOnlyOverLimit
  <2>18. QED  BY <2>8, <2>16, <2>17
<1>3. ASSUME NEW r \in Requests, RedisDecides(r)
      PROVE TypeOK' /\ CountsAreCounted' /\ RefusedOnlyOverLimit'
  <2> DEFINE c == request[r].client
             m == request[r].window
  <2>1. /\ c \in Clients /\ m \in Minutes /\ request[r].count \in Nat
        /\ request[r].count <= counted[<<"redis", c, m>>]
    BY <1>3 DEF RedisDecides, TypeOK, RequestRecords, CountsAreCounted
  <2>2. /\ request' = [request EXCEPT ![r] = NoRequest]
        /\ UNCHANGED <<minute, redis, local, arrivals, losses, counted>>
    BY <1>3 DEF RedisDecides, Decide
  <2>3. \/ /\ request[r].count > Limit
           /\ refused' = refused \cup {<<"redis", c, m>>}
           /\ UNCHANGED admitted
        \/ /\ admitted' = [admitted EXCEPT ![<<"redis", c, m>>] = @ + 1]
           /\ UNCHANGED refused
    BY <1>3 DEF RedisDecides, Decide, OverLimit
  <2> HIDE DEF c, m
  <2>4. request' \in [Requests -> RequestRecords]
    BY <2>2 DEF TypeOK, RequestRecords, NoRequest
  <2>5. \A q \in Requests : request'[q].pc # "none" => request'[q] = request[q]
    BY <2>2 DEF TypeOK, NoRequest
  <2>6. admitted' \in [Counters \X Clients \X Minutes -> Nat]
    <3>1. admitted \in [Counters \X Clients \X Minutes -> Nat]
      BY DEF TypeOK
    <3>2. CASE UNCHANGED admitted
      BY <3>1, <3>2
    <3>3. CASE admitted' = [admitted EXCEPT ![<<"redis", c, m>>] = @ + 1]
      BY <2>1, <3>1, <3>3
    <3>4. QED  BY <2>3, <3>2, <3>3
  <2>7. refused' \in SUBSET (Counters \X Clients \X Minutes)
    BY <2>1, <2>3 DEF TypeOK
  <2>8. TypeOK'
    BY <2>2, <2>4, <2>5, <2>6, <2>7 DEF TypeOK
  <2>9. CountsAreCounted'
    BY <2>2, <2>5 DEF CountsAreCounted
  <2>10. counted[<<"redis", c, m>>] \in Nat
    BY <2>1 DEF TypeOK
  <2>11. request[r].count > Limit => counted[<<"redis", c, m>>] > Limit
    BY <2>1, <2>10
  <2>12. RefusedOnlyOverLimit'
    BY <2>2, <2>3, <2>11 DEF RefusedOnlyOverLimit
  <2>13. QED  BY <2>8, <2>9, <2>12
<1>4. ASSUME NEW r \in Requests, RedisRaises(r)
      PROVE TypeOK' /\ CountsAreCounted' /\ RefusedOnlyOverLimit'
  <2> DEFINE c == request[r].client
             n == LocalCount(c)
  <2>1. c \in Clients /\ minute \in Minutes
    BY <1>4 DEF RedisRaises, TypeOK
  <2>2. /\ request' = [request EXCEPT ![r] = NoRequest]
        /\ local' = [local EXCEPT ![c] = [count |-> n, window |-> minute]]
        /\ counted' = [counted EXCEPT ![<<"local", c, minute>>] = @ + 1]
        /\ UNCHANGED <<minute, redis, arrivals, losses>>
    BY <1>4 DEF RedisRaises, Decide
  <2>3. \/ /\ n > Limit
           /\ refused' = refused \cup {<<"local", c, minute>>}
           /\ UNCHANGED admitted
        \/ /\ admitted' = [admitted EXCEPT ![<<"local", c, minute>>] = @ + 1]
           /\ UNCHANGED refused
    BY <1>4 DEF RedisRaises, Decide, OverLimit
  <2>4. n \in Nat /\ n <= counted[<<"local", c, minute>>] + 1
    BY <2>1 DEF LocalCount, TypeOK, CountsAreCounted
  <2> HIDE DEF c, n
  <2>5. request' \in [Requests -> RequestRecords]
    BY <2>2 DEF TypeOK, RequestRecords, NoRequest
  <2>6. \A q \in Requests : request'[q].pc # "none" => request'[q] = request[q]
    BY <2>2 DEF TypeOK, NoRequest
  <2>7. local' \in [Clients -> [count : Nat, window : Minutes]]
    BY <2>1, <2>2, <2>4 DEF TypeOK
  <2>8. counted' \in [Counters \X Clients \X Minutes -> Nat]
    BY <2>1, <2>2 DEF TypeOK
  <2>9. admitted' \in [Counters \X Clients \X Minutes -> Nat]
    <3>1. admitted \in [Counters \X Clients \X Minutes -> Nat]
      BY DEF TypeOK
    <3>2. CASE UNCHANGED admitted
      BY <3>1, <3>2
    <3>3. CASE admitted' = [admitted EXCEPT ![<<"local", c, minute>>] = @ + 1]
      BY <2>1, <3>1, <3>3
    <3>4. QED  BY <2>3, <3>2, <3>3
  <2>10. refused' \in SUBSET (Counters \X Clients \X Minutes)
    BY <2>1, <2>3 DEF TypeOK
  <2>11. TypeOK'
    BY <2>2, <2>5, <2>6, <2>7, <2>8, <2>9, <2>10 DEF TypeOK
  <2>12. \A k \in Counters, d \in Clients, w \in Minutes :
           /\ counted[<<k, d, w>>] \in Nat
           /\ counted'[<<k, d, w>>] = IF k = "local" /\ d = c /\ w = minute
                                  THEN counted[<<k, d, w>>] + 1 ELSE counted[<<k, d, w>>]
    BY <2>1, <2>2 DEF TypeOK
  <2>13. counted'[<<"local", c, minute>>] >= n
    <3>1. /\ counted[<<"local", c, minute>>] \in Nat
          /\ counted'[<<"local", c, minute>>] = counted[<<"local", c, minute>>] + 1
      BY <2>1, <2>12
    <3>2. QED  BY <2>4, <3>1
  <2>14. \A d \in Clients, w \in Minutes : redis'[<<d, w>>] <= counted'[<<"redis", d, w>>]
    <3>1. \A d \in Clients, w \in Minutes :
            /\ redis[<<d, w>>] <= counted[<<"redis", d, w>>]
            /\ counted'[<<"redis", d, w>>] = counted[<<"redis", d, w>>]
      BY <2>12 DEF CountsAreCounted
    <3>2. redis' = redis
      BY <2>2
    <3>3. QED  BY <3>1, <3>2
  <2>15. ASSUME NEW d \in Clients
         PROVE local'[d].count <= counted'[<<"local", d, local'[d].window>>]
    <3>1. CASE d = c
      BY <2>1, <2>2, <2>13, <2>4, <3>1, <2>12 DEF TypeOK
    <3>2. CASE d # c
      BY <2>1, <2>2, <2>12, <3>2 DEF TypeOK, CountsAreCounted
    <3>3. QED  BY <3>1, <3>2
  <2>16. ASSUME NEW q \in Requests, request'[q].pc = "answered"
         PROVE request'[q].count <= counted'[<<"redis", request'[q].client, request'[q].window>>]
    <3>1. request'[q] = request[q] /\ request[q] \in RequestRecords
      BY <2>6, <2>16 DEF TypeOK
    <3>2. request[q].client \in Clients /\ request[q].window \in Minutes
      BY <2>16, <3>1 DEF TypeOK, RequestRecords
    <3>3. request[q].count <= counted[<<"redis", request[q].client, request[q].window>>]
      BY <2>16, <3>1 DEF CountsAreCounted
    <3>4. QED
      BY <2>12, <3>1, <3>2, <3>3
  <2>17. CountsAreCounted'
    BY <2>14, <2>15, <2>16 DEF CountsAreCounted
  <2>18. n > Limit => counted'[<<"local", c, minute>>] > Limit
    BY <2>1, <2>4, <2>12, <2>13
  <2>19. \A k \in Counters, d \in Clients, w \in Minutes : counted'[<<k, d, w>>] >= counted[<<k, d, w>>]
    BY <2>12
  <2>20. ASSUME NEW k \in Counters, NEW d \in Clients, NEW w \in Minutes, <<k, d, w>> \in refused'
         PROVE counted'[<<k, d, w>>] > Limit
    <3>1. CASE <<k, d, w>> \in refused
      <4>1. counted[<<k, d, w>>] > Limit
        BY <3>1 DEF RefusedOnlyOverLimit
      <4>2. counted[<<k, d, w>>] \in Nat /\ counted'[<<k, d, w>>] \in Nat
        BY <2>12
      <4>3. QED  BY <2>19, <4>1, <4>2
    <3>2. CASE <<k, d, w>> \notin refused
      BY <2>3, <2>18, <2>20, <3>2
    <3>3. QED  BY <3>1, <3>2
  <2>21. RefusedOnlyOverLimit'
    BY <2>20 DEF RefusedOnlyOverLimit
  <2>22. QED  BY <2>11, <2>17, <2>21
<1>5. ASSUME NEW c \in Clients, NEW m \in Minutes, RedisForgets(c, m)
      PROVE TypeOK' /\ CountsAreCounted' /\ RefusedOnlyOverLimit'
  <2> USE <1>5 DEF RedisForgets
  <2>1. losses' \in Nat
    BY DEF TypeOK
  <2>2. redis' \in [Clients \X Minutes -> Nat]
    BY DEF TypeOK
  <2>3. TypeOK'
    BY <2>1, <2>2 DEF TypeOK
  <2>4. \A d \in Clients, n \in Minutes :
          redis'[<<d, n>>] = (IF d = c /\ n = m THEN 0 ELSE redis[<<d, n>>]) /\ counted[<<"redis", d, n>>] \in Nat
    BY DEF TypeOK
  <2>5. CountsAreCounted'
    BY <2>4 DEF CountsAreCounted
  <2>6. RefusedOnlyOverLimit'
    BY DEF RefusedOnlyOverLimit
  <2>7. QED  BY <2>3, <2>5, <2>6
<1>6. ASSUME Tick
      PROVE TypeOK' /\ CountsAreCounted' /\ RefusedOnlyOverLimit'
  <2> USE <1>6 DEF Tick
  <2>1. minute' \in Minutes
    BY DEF TypeOK
  <2> HIDE DEF Minutes
  <2>2. TypeOK'
    BY <2>1 DEF TypeOK
  <2>3. CountsAreCounted' /\ RefusedOnlyOverLimit'
    BY DEF CountsAreCounted, RefusedOnlyOverLimit
  <2>4. QED  BY <2>2, <2>3
<1>7. CASE UNCHANGED vars
  BY <1>7 DEF vars, TypeOK, CountsAreCounted, RefusedOnlyOverLimit
<1>8. QED
  BY <1>1, <1>2, <1>3, <1>4, <1>5, <1>6, <1>7 DEF Next

(* A 429 always stands on more than Limit requests counted for that client   *)
(* in that minute (RateLimitMiddleware.dispatch).                            *)
THEOREM RefusalsAreJustified == Spec => []RefusedOnlyOverLimit
<1>1. LimitInvariant => RefusedOnlyOverLimit
  BY DEF LimitInvariant
<1>2. QED
  BY InitInvariant, NextInvariant, <1>1, PTL DEF Spec

-------------------------------------------------------------------------------
(* The requests Redis has answered and that will be let through.             *)
Waiting(c, m) ==
  {r \in Requests : /\ request[r].pc = "answered"
                    /\ request[r].client = c
                    /\ request[r].window = m
                    /\ request[r].count <= Limit}

(* What a key has let through since it started from nothing.                 *)
Spent(n) == IF n <= Limit THEN n ELSE Limit

(* Each time a key is lost it may spend the limit again.                     *)
RedisQuota ==
  \A c \in Clients, m \in Minutes :
    admitted[<<"redis", c, m>>] + Cardinality(Waiting(c, m))
      <= Limit * losses + Spent(redis[<<c, m>>])

(* The process never forgets: the entry of a client is for the last minute   *)
(* it counted the client in, and shows all it counted in that minute.        *)
LocalQuota ==
  \A c \in Clients :
    /\ local[c].window <= minute
    /\ counted[<<"local", c, local[c].window>>] = local[c].count
    /\ \A m \in Minutes :
         /\ m > local[c].window => counted[<<"local", c, m>>] = 0
         /\ admitted[<<"local", c, m>>] <= counted[<<"local", c, m>>]
         /\ admitted[<<"local", c, m>>] <= Limit

QuotaInvariant == LimitInvariant /\ RedisQuota /\ LocalQuota

(* The requests waiting are some of finitely many.                           *)
LEMMA WaitingIsFinite ==
  ASSUME NEW c, NEW m
  PROVE  IsFiniteSet(Waiting(c, m)) /\ Cardinality(Waiting(c, m)) \in Nat
  BY LimitAssumption, FS_Subset, FS_CardinalityType DEF Waiting

(* A product of the limit grows by the limit.                                *)
LEMMA OneMoreLoss ==
  ASSUME NEW k \in Nat
  PROVE  Limit * k \in Nat /\ Limit * (k + 1) = Limit * k + Limit
  BY LimitAssumption

LEMMA InitQuota == Init => RedisQuota /\ LocalQuota
<1> SUFFICES ASSUME Init PROVE RedisQuota /\ LocalQuota
  OBVIOUS
<1> USE LimitAssumption DEF Init, Zero, Minutes, Counters
<1>1. ASSUME NEW c \in Clients, NEW m \in Minutes
      PROVE  Waiting(c, m) = {}
  BY DEF Waiting, NoRequest
<1>2. ASSUME NEW c \in Clients, NEW m \in Minutes
      PROVE  admitted[<<"redis", c, m>>] + Cardinality(Waiting(c, m)) <= Limit * losses + Spent(redis[<<c, m>>])
  <2>1. Cardinality(Waiting(c, m)) = 0
    BY <1>1, FS_EmptySet
  <2>2. admitted[<<"redis", c, m>>] = 0 /\ redis[<<c, m>>] = 0 /\ losses = 0
    BY <1>2
  <2>3. Spent(redis[<<c, m>>]) = 0 /\ Limit * losses = 0
    BY <2>2 DEF Spent
  <2>4. QED  BY <2>1, <2>2, <2>3
<1>3. LocalQuota
  BY DEF LocalQuota
<1>4. QED  BY <1>2, <1>3 DEF RedisQuota

(* The request leaves the requests waiting, or was not among them.           *)
LEMMA OneLeaves ==
  ASSUME TypeOK, NEW r \in Requests, NEW c \in Clients, NEW m \in Minutes, NEW x,
         request' = [request EXCEPT ![r] = x],
         ~ (x.pc = "answered" /\ x.client = c /\ x.window = m /\ x.count <= Limit)
  PROVE  /\ r \notin Waiting(c, m) => Cardinality(Waiting(c, m)') = Cardinality(Waiting(c, m))
         /\ r \in Waiting(c, m) => Cardinality(Waiting(c, m)') = Cardinality(Waiting(c, m)) - 1
<1>1. Waiting(c, m)' = Waiting(c, m) \ {r}
  BY DEF Waiting, TypeOK
<1>2. QED  BY <1>1, WaitingIsFinite, FS_RemoveElement

(* Neither counter of the request's client moves: it only leaves.            *)
LEMMA ArriveQuota ==
  ASSUME TypeOK, RedisQuota, LocalQuota, NEW r \in Requests, NEW c \in Clients, Arrive(r, c)
  PROVE  RedisQuota' /\ LocalQuota'
<1> USE DEF Arrive
<1>1. ASSUME NEW d \in Clients, NEW m \in Minutes
      PROVE  Waiting(d, m)' = Waiting(d, m)
  BY DEF Waiting, TypeOK
<1>2. RedisQuota'
  BY <1>1 DEF RedisQuota
<1>3. LocalQuota'
  BY DEF LocalQuota
<1>4. QED  BY <1>2, <1>3

(* A request that will be let through moves the key, up to the limit.        *)
LEMMA IncrQuota ==
  ASSUME TypeOK, RedisQuota, LocalQuota, NEW r \in Requests, Incr(r)
  PROVE  RedisQuota' /\ LocalQuota'
<1> DEFINE c == request[r].client
           m == request[r].window
           answered == [pc |-> "answered", client |-> c, window |-> m, count |-> redis[<<c, m>>] + 1]
<1> USE LimitAssumption
<1>1. c \in Clients /\ m \in Minutes /\ redis[<<c, m>>] \in Nat
  BY DEF Incr, TypeOK, RequestRecords
<1>2. /\ request[r].pc = "counting"
      /\ redis' = [redis EXCEPT ![<<c, m>>] = @ + 1]
      /\ counted' = [counted EXCEPT ![<<"redis", c, m>>] = @ + 1]
      /\ request' = [request EXCEPT ![r] = answered]
      /\ UNCHANGED <<minute, local, arrivals, losses, admitted, refused>>
  BY DEF Incr
<1>3. /\ answered.pc = "answered" /\ answered.client = c /\ answered.window = m
      /\ answered.count = redis[<<c, m>>] + 1
  OBVIOUS
<1> HIDE DEF c, m, answered
<1>4. ASSUME NEW d \in Clients, NEW n \in Minutes
      PROVE  admitted'[<<"redis", d, n>>] + Cardinality(Waiting(d, n)')
               <= Limit * losses' + Spent(redis'[<<d, n>>])
  <2>1. /\ admitted[<<"redis", d, n>>] + Cardinality(Waiting(d, n)) <= Limit * losses + Spent(redis[<<d, n>>])
        /\ redis[<<d, n>>] \in Nat
    BY DEF RedisQuota, TypeOK
  <2>2. admitted[<<"redis", d, n>>] \in Nat /\ losses \in Nat
    BY DEF TypeOK, Counters
  <2>3. Limit * losses \in Nat
    BY <2>2, OneMoreLoss
  <2>4. CASE ~ (d = c /\ n = m /\ answered.count <= Limit)
    <3>1. r \notin Waiting(d, n)
      BY <1>2 DEF Waiting
    <3>2. Cardinality(Waiting(d, n)') = Cardinality(Waiting(d, n))
      BY <1>2, <1>3, <2>4, <3>1, OneLeaves
    <3>3. redis'[<<d, n>>] = redis[<<d, n>>] \/ redis'[<<d, n>>] = redis[<<d, n>>] + 1
      BY <1>1, <1>2 DEF TypeOK
    <3>4. Spent(redis[<<d, n>>]) <= Spent(redis'[<<d, n>>]) /\ Spent(redis[<<d, n>>]) \in Nat
      BY <2>1, <3>3 DEF Spent
    <3>5. Spent(redis'[<<d, n>>]) \in Nat
      BY <2>1, <3>3 DEF Spent
    <3>6. QED
      BY <1>2, <2>1, <2>2, <2>3, <3>2, <3>4, <3>5, WaitingIsFinite
  <2>5. CASE d = c /\ n = m /\ answered.count <= Limit
    <3>1. Waiting(d, n)' = Waiting(d, n) \cup {r}
      BY <1>2, <1>3, <2>5 DEF Waiting, TypeOK
    <3>2. r \notin Waiting(d, n)
      BY <1>2 DEF Waiting
    <3>3. Cardinality(Waiting(d, n)') = Cardinality(Waiting(d, n)) + 1
      BY <3>1, <3>2, WaitingIsFinite, FS_AddElement
    <3>4. redis'[<<d, n>>] = redis[<<d, n>>] + 1
      BY <1>1, <1>2, <2>5 DEF TypeOK
    <3>5. Spent(redis'[<<d, n>>]) = Spent(redis[<<d, n>>]) + 1 /\ Spent(redis[<<d, n>>]) \in Nat
      BY <1>3, <2>1, <2>5, <3>4 DEF Spent
    <3>6. QED
      BY <1>2, <2>1, <2>2, <2>3, <3>3, <3>5, WaitingIsFinite
  <2>6. QED  BY <2>4, <2>5
<1>5. RedisQuota'
  BY <1>4 DEF RedisQuota
<1>6. \A d \in Clients, n \in Minutes : counted'[<<"local", d, n>>] = counted[<<"local", d, n>>]
  BY <1>1, <1>2 DEF TypeOK, Counters
<1>7. \A d \in Clients : local[d].window \in Minutes
  BY DEF TypeOK
<1>8. LocalQuota'
  BY <1>2, <1>6, <1>7 DEF LocalQuota
<1>9. QED  BY <1>5, <1>8

(* A request let through was waiting.                                        *)
LEMMA RedisDecidesQuota ==
  ASSUME TypeOK, RedisQuota, LocalQuota, NEW r \in Requests, RedisDecides(r)
  PROVE  RedisQuota' /\ LocalQuota'
<1> DEFINE c == request[r].client
           m == request[r].window
<1> USE LimitAssumption
<1>1. c \in Clients /\ m \in Minutes /\ request[r].count \in Nat /\ request[r].pc = "answered"
  BY DEF RedisDecides, TypeOK, RequestRecords
<1>2. /\ request' = [request EXCEPT ![r] = NoRequest]
      /\ UNCHANGED <<minute, redis, local, arrivals, losses, counted>>
  BY DEF RedisDecides, Decide
<1>3. \/ request[r].count > Limit /\ UNCHANGED admitted
      \/ ~ (request[r].count > Limit) /\ admitted' = [admitted EXCEPT ![<<"redis", c, m>>] = @ + 1]
  BY DEF RedisDecides, Decide, OverLimit
<1>4. \A d \in Clients, n \in Minutes :
        /\ admitted[<<"redis", d, n>>] \in Nat
        /\ admitted'[<<"redis", d, n>>] =
             IF d = c /\ n = m /\ ~ (request[r].count > Limit)
             THEN admitted[<<"redis", d, n>>] + 1 ELSE admitted[<<"redis", d, n>>]
        /\ admitted'[<<"local", d, n>>] = admitted[<<"local", d, n>>]
  BY <1>1, <1>3 DEF TypeOK, Counters
<1>5. \A d \in Clients, n \in Minutes :
        r \in Waiting(d, n) <=> (d = c /\ n = m /\ ~ (request[r].count > Limit))
  BY <1>1 DEF Waiting
<1> HIDE DEF c, m
<1>6. ASSUME NEW d \in Clients, NEW n \in Minutes
      PROVE  admitted'[<<"redis", d, n>>] + Cardinality(Waiting(d, n)')
               <= Limit * losses' + Spent(redis'[<<d, n>>])
  <2>1. /\ r \notin Waiting(d, n) => Cardinality(Waiting(d, n)') = Cardinality(Waiting(d, n))
        /\ r \in Waiting(d, n) => Cardinality(Waiting(d, n)') = Cardinality(Waiting(d, n)) - 1
    BY <1>2, OneLeaves DEF NoRequest
  <2>2. admitted'[<<"redis", d, n>>] + Cardinality(Waiting(d, n)')
          = admitted[<<"redis", d, n>>] + Cardinality(Waiting(d, n))
    <3>1. admitted[<<"redis", d, n>>] \in Nat /\ Cardinality(Waiting(d, n)) \in Nat
      BY <1>4, WaitingIsFinite
    <3>2. CASE r \in Waiting(d, n)
      <4>1. admitted'[<<"redis", d, n>>] = admitted[<<"redis", d, n>>] + 1
        BY <1>4, <1>5, <3>2
      <4>2. QED  BY <2>1, <3>1, <3>2, <4>1
    <3>3. CASE r \notin Waiting(d, n)
      <4>1. admitted'[<<"redis", d, n>>] = admitted[<<"redis", d, n>>]
        BY <1>4, <1>5, <3>3
      <4>2. QED  BY <2>1, <3>1, <3>3, <4>1
    <3>4. QED  BY <3>2, <3>3
  <2>3. QED
    BY <1>2, <2>2 DEF RedisQuota
<1>7. RedisQuota'
  BY <1>6 DEF RedisQuota
<1>8. LocalQuota'
  BY <1>2, <1>4 DEF LocalQuota
<1>9. QED  BY <1>7, <1>8

(* The process counts first and lets through what it counted.                *)
LEMMA RedisRaisesQuota ==
  ASSUME TypeOK, RedisQuota, LocalQuota, NEW r \in Requests, RedisRaises(r)
  PROVE  RedisQuota' /\ LocalQuota'
<1> DEFINE c == request[r].client
           n == LocalCount(c)
<1> USE LimitAssumption
<1>1. c \in Clients /\ minute \in Minutes
  BY DEF RedisRaises, TypeOK
<1>2. /\ request' = [request EXCEPT ![r] = NoRequest]
      /\ local' = [local EXCEPT ![c] = [count |-> n, window |-> minute]]
      /\ counted' = [counted EXCEPT ![<<"local", c, minute>>] = @ + 1]
      /\ UNCHANGED <<minute, redis, arrivals, losses>>
  BY DEF RedisRaises, Decide
<1>3. \/ n > Limit /\ UNCHANGED admitted
      \/ ~ (n > Limit) /\ admitted' = [admitted EXCEPT ![<<"local", c, minute>>] = @ + 1]
  BY DEF RedisRaises, Decide, OverLimit
<1>4. /\ n = counted[<<"local", c, minute>>] + 1
      /\ counted[<<"local", c, minute>>] \in Nat
  <2>1. counted[<<"local", c, minute>>] \in Nat /\ local[c].window \in Minutes
    BY <1>1 DEF TypeOK, Counters
  <2>2. /\ local[c].window <= minute
        /\ counted[<<"local", c, local[c].window>>] = local[c].count
        /\ minute > local[c].window => counted[<<"local", c, minute>>] = 0
    BY <1>1 DEF LocalQuota
  <2>3. CASE local[c].window = minute
    BY <2>1, <2>2, <2>3 DEF LocalCount
  <2>4. CASE local[c].window # minute
    BY <1>1, <2>1, <2>2, <2>4 DEF LocalCount, Minutes
  <2>5. QED  BY <2>3, <2>4
<1> HIDE DEF c, n
<1>5. \A d \in Clients, w \in Minutes :
        /\ admitted[<<"local", d, w>>] \in Nat
        /\ counted[<<"local", d, w>>] \in Nat
        /\ admitted'[<<"redis", d, w>>] = admitted[<<"redis", d, w>>]
        /\ admitted'[<<"local", d, w>>] =
             IF d = c /\ w = minute /\ ~ (n > Limit)
             THEN admitted[<<"local", d, w>>] + 1 ELSE admitted[<<"local", d, w>>]
        /\ counted'[<<"local", d, w>>] =
             IF d = c /\ w = minute THEN counted[<<"local", d, w>>] + 1 ELSE counted[<<"local", d, w>>]
  BY <1>1, <1>2, <1>3 DEF TypeOK, Counters
<1>6. ASSUME NEW d \in Clients, NEW w \in Minutes
      PROVE  admitted'[<<"redis", d, w>>] + Cardinality(Waiting(d, w)')
               <= Limit * losses' + Spent(redis'[<<d, w>>])
  <2>1. /\ r \notin Waiting(d, w) => Cardinality(Waiting(d, w)') = Cardinality(Waiting(d, w))
        /\ r \in Waiting(d, w) => Cardinality(Waiting(d, w)') = Cardinality(Waiting(d, w)) - 1
    BY <1>2, OneLeaves DEF NoRequest
  <2>2. /\ admitted[<<"redis", d, w>>] \in Nat /\ Limit * losses \in Nat
        /\ Spent(redis[<<d, w>>]) \in Nat
    BY OneMoreLoss DEF TypeOK, Counters, Spent
  <2>3. admitted[<<"redis", d, w>>] + Cardinality(Waiting(d, w)) <= Limit * losses + Spent(redis[<<d, w>>])
    BY DEF RedisQuota
  <2>4. admitted'[<<"redis", d, w>>] = admitted[<<"redis", d, w>>] /\ losses' = losses /\ redis' = redis
    BY <1>2, <1>5
  <2>5. Cardinality(Waiting(d, w)) \in Nat
    BY WaitingIsFinite
  <2>6. QED
    BY <2>1, <2>2, <2>3, <2>4, <2>5
<1>7. RedisQuota'
  BY <1>6 DEF RedisQuota
<1>8. ASSUME NEW d \in Clients
      PROVE  /\ local'[d].window <= minute'
             /\ counted'[<<"local", d, local'[d].window>>] = local'[d].count
             /\ \A w \in Minutes : w > local'[d].window => counted'[<<"local", d, w>>] = 0
  <2>1. /\ local[d].window <= minute
        /\ local[d].window \in Minutes
        /\ counted[<<"local", d, local[d].window>>] = local[d].count
        /\ \A w \in Minutes : w > local[d].window => counted[<<"local", d, w>>] = 0
    BY DEF LocalQuota, TypeOK
  <2>2. CASE d = c
    <3>1. local'[d] = [count |-> n, window |-> minute]
      BY <1>2, <2>2 DEF TypeOK
    <3>2. local'[d].window = minute /\ local'[d].count = n
      BY <3>1
    <3>3. counted'[<<"local", d, minute>>] = n
      BY <1>1, <1>4, <1>5, <2>2
    <3>4. ASSUME NEW w \in Minutes, w > minute
          PROVE  counted'[<<"local", d, w>>] = 0
      <4>1. w # minute /\ w > local[d].window
        BY <1>1, <2>1, <3>4 DEF Minutes
      <4>2. QED  BY <1>5, <2>1, <4>1
    <3>5. QED  BY <1>1, <1>2, <3>2, <3>3, <3>4 DEF Minutes
  <2>3. CASE d # c
    BY <1>2, <1>5, <2>1, <2>3 DEF TypeOK
  <2>4. QED  BY <2>2, <2>3
<1>9. ASSUME NEW d \in Clients, NEW w \in Minutes
      PROVE  /\ admitted'[<<"local", d, w>>] <= counted'[<<"local", d, w>>]
             /\ admitted'[<<"local", d, w>>] <= Limit
  <2>1. admitted[<<"local", d, w>>] <= counted[<<"local", d, w>>] /\ admitted[<<"local", d, w>>] <= Limit
    BY DEF LocalQuota
  <2>2. admitted[<<"local", d, w>>] \in Nat /\ counted[<<"local", d, w>>] \in Nat
    BY <1>5
  <2>3. CASE d = c /\ w = minute
    <3>1. /\ counted'[<<"local", d, w>>] = counted[<<"local", d, w>>] + 1
          /\ n = counted[<<"local", d, w>>] + 1
          /\ admitted'[<<"local", d, w>>] =
               IF ~ (n > Limit) THEN admitted[<<"local", d, w>>] + 1 ELSE admitted[<<"local", d, w>>]
      BY <1>4, <1>5, <2>3
    <3>2. QED  BY <2>1, <2>2, <3>1
  <2>4. CASE ~ (d = c /\ w = minute)
    <3>1. /\ counted'[<<"local", d, w>>] = counted[<<"local", d, w>>]
          /\ admitted'[<<"local", d, w>>] = admitted[<<"local", d, w>>]
      BY <1>5, <2>4
    <3>2. QED  BY <2>1, <3>1
  <2>5. QED  BY <2>3, <2>4
<1>10. LocalQuota'
  BY <1>8, <1>9 DEF LocalQuota
<1>11. QED  BY <1>7, <1>10

(* What a key has spent becomes part of what was lost with it.               *)
LEMMA RedisForgetsQuota ==
  ASSUME TypeOK, RedisQuota, LocalQuota, NEW c \in Clients, NEW m \in Minutes, RedisForgets(c, m)
  PROVE  RedisQuota' /\ LocalQuota'
<1> USE LimitAssumption
<1>1. /\ redis' = [redis EXCEPT ![<<c, m>>] = 0]
      /\ losses' = losses + 1
      /\ UNCHANGED <<minute, local, request, arrivals, counted, admitted, refused>>
  BY DEF RedisForgets
<1>2. ASSUME NEW d \in Clients, NEW n \in Minutes
      PROVE  admitted'[<<"redis", d, n>>] + Cardinality(Waiting(d, n)')
               <= Limit * losses' + Spent(redis'[<<d, n>>])
  <2>1. Waiting(d, n)' = Waiting(d, n)
    BY <1>1 DEF Waiting
  <2>2. /\ admitted[<<"redis", d, n>>] + Cardinality(Waiting(d, n)) <= Limit * losses + Spent(redis[<<d, n>>])
        /\ redis[<<d, n>>] \in Nat /\ losses \in Nat /\ admitted[<<"redis", d, n>>] \in Nat
    BY DEF RedisQuota, TypeOK, Counters
  <2>3. /\ Limit * losses' = Limit * losses + Limit
        /\ Limit * losses \in Nat
    BY <1>1, <2>2, OneMoreLoss
  <2>4. Spent(redis[<<d, n>>]) <= Limit /\ Spent(redis[<<d, n>>]) \in Nat
    BY <2>2 DEF Spent
  <2>5. Spent(redis'[<<d, n>>]) \in Nat
    BY <1>1, <2>2 DEF Spent, TypeOK
  <2>6. QED
    BY <1>1, <2>1, <2>2, <2>3, <2>4, <2>5, WaitingIsFinite
<1>3. RedisQuota'
  BY <1>2 DEF RedisQuota
<1>4. LocalQuota'
  BY <1>1 DEF LocalQuota
<1>5. QED  BY <1>3, <1>4

LEMMA NextQuota == QuotaInvariant /\ [Next]_vars => QuotaInvariant'
<1> SUFFICES ASSUME QuotaInvariant, [Next]_vars PROVE QuotaInvariant'
  OBVIOUS
<1>1. LimitInvariant'
  BY NextInvariant DEF QuotaInvariant
<1>2. TypeOK /\ RedisQuota /\ LocalQuota
  BY DEF QuotaInvariant, LimitInvariant
<1>3. ASSUME NEW r \in Requests, NEW c \in Clients, Arrive(r, c)
      PROVE  RedisQuota' /\ LocalQuota'
  BY <1>2, <1>3, ArriveQuota
<1>4. ASSUME NEW r \in Requests, Incr(r) \/ RedisDecides(r) \/ RedisRaises(r)
      PROVE  RedisQuota' /\ LocalQuota'
  BY <1>2, <1>4, IncrQuota, RedisDecidesQuota, RedisRaisesQuota
<1>5. ASSUME NEW c \in Clients, NEW m \in Minutes, RedisForgets(c, m)
      PROVE  RedisQuota' /\ LocalQuota'
  BY <1>2, <1>5, RedisForgetsQuota
<1>6. ASSUME Tick
      PROVE  RedisQuota' /\ LocalQuota'
  <2>1. \A c \in Clients, m \in Minutes : Waiting(c, m)' = Waiting(c, m)
    BY <1>6 DEF Tick, Waiting
  <2>2. RedisQuota'
    BY <1>2, <1>6, <2>1 DEF Tick, RedisQuota
  <2>3. minute \in Int /\ \A c \in Clients : local[c].window \in Int
    BY <1>2 DEF TypeOK, Minutes
  <2>4. LocalQuota'
    <3>1. /\ minute' = minute + 1 /\ UNCHANGED <<local, counted, admitted>>
      BY <1>6 DEF Tick
    <3>2. \A c \in Clients : local[c].window <= minute
      BY <1>2 DEF LocalQuota
    <3>3. \A c \in Clients : local'[c].window <= minute'
      BY <2>3, <3>1, <3>2
    <3>4. QED  BY <1>2, <3>1, <3>3 DEF LocalQuota
  <2>5. QED  BY <2>2, <2>4
<1>7. ASSUME UNCHANGED vars
      PROVE  RedisQuota' /\ LocalQuota'
  <2>1. \A c \in Clients, m \in Minutes : Waiting(c, m)' = Waiting(c, m)
    BY <1>7 DEF vars, Waiting
  <2>2. UNCHANGED <<minute, redis, local, losses, counted, admitted>>
    BY <1>7 DEF vars
  <2>3. RedisQuota'
    BY <1>2, <2>1, <2>2 DEF RedisQuota
  <2>4. LocalQuota'
    BY <1>2, <2>2 DEF LocalQuota
  <2>5. QED  BY <2>3, <2>4
<1>8. RedisQuota' /\ LocalQuota'
  <2>1. Next \/ UNCHANGED vars
    BY DEF QuotaInvariant
  <2>2. QED  BY <1>3, <1>4, <1>5, <1>6, <1>7, <2>1, Zenon DEF Next
<1>9. QED  BY <1>1, <1>8 DEF QuotaInvariant

(* The two counters that know nothing of each other let at most twice the    *)
(* limit through in a minute, and the limit once more for each key Redis     *)
(* loses (RateLimitMiddleware.dispatch and its in-process fallback).         *)
THEOREM FailoverAtMostDoubles == Spec => []QuotaAtMostDoubles
<1>1. Init => QuotaInvariant
  BY InitInvariant, InitQuota DEF QuotaInvariant
<1>2. QuotaInvariant => QuotaAtMostDoubles
  <2> SUFFICES ASSUME QuotaInvariant, NEW c \in Clients, NEW m \in Minutes
               PROVE  /\ admitted[<<"local", c, m>>] <= Limit
                      /\ admitted[<<"redis", c, m>>] + admitted[<<"local", c, m>>] <= Limit * (2 + losses)
    BY DEF QuotaAtMostDoubles
  <2> USE LimitAssumption
  <2>1. /\ losses \in Nat /\ redis[<<c, m>>] \in Nat
        /\ admitted[<<"redis", c, m>>] \in Nat /\ admitted[<<"local", c, m>>] \in Nat
    BY DEF QuotaInvariant, LimitInvariant, TypeOK, Counters
  <2>2. admitted[<<"local", c, m>>] <= Limit
    BY DEF QuotaInvariant, LocalQuota
  <2>3. admitted[<<"redis", c, m>>] + Cardinality(Waiting(c, m)) <= Limit * losses + Spent(redis[<<c, m>>])
    BY DEF QuotaInvariant, RedisQuota
  <2>4. Spent(redis[<<c, m>>]) <= Limit /\ Spent(redis[<<c, m>>]) \in Nat
    BY <2>1 DEF Spent
  <2>5. Limit * (2 + losses) = Limit * losses + Limit + Limit /\ Limit * losses \in Nat
    BY <2>1, OneMoreLoss
  <2>6. QED
    BY <2>1, <2>2, <2>3, <2>4, <2>5, WaitingIsFinite
<1>3. QED
  BY <1>1, NextQuota, <1>2, PTL DEF Spec

===============================================================================
