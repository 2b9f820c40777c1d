------------------------------- MODULE RateLimit -------------------------------
(*****************************************************************************)
(* RateLimitMiddleware of api/middleware/security.py: a fixed window of one  *)
(* minute per client address, counted in Redis and, when the pipeline        *)
(* raises, in a dictionary of the process.  The two counters know nothing of *)
(* each other.  Between the computation of the Redis key and the decision    *)
(* the request waits for Redis; the fallback reads the clock again.          *)
(*****************************************************************************)
EXTENDS Integers, FiniteSets

CONSTANTS
  Clients,   \* client addresses
  Requests,  \* requests that may wait for Redis at a time
  Limit,     \* limit_per_minute, at least 1
  LastMinute, \* bound: the clock stops here
  MaxArrivals, \* bound: requests
  MaxLosses, \* bound: keys Redis forgets, by a restart or by EXPIRE
  NoClient

ASSUME LimitAssumption ==
  /\ Limit \in Nat \ {0}
  /\ LastMinute \in Nat
  /\ MaxArrivals \in Nat
  /\ MaxLosses \in Nat
  /\ NoClient \notin Clients
  /\ IsFiniteSet(Requests)

VARIABLES
  minute,   \* int(time.time() // 60)
  redis,    \* redis[<<c, m>>]: the value of ratelimit:c:m, 0 if there is no key
  local,    \* _local[c]: the fallback's count and the minute it is for
  request,  \* the requests in dispatch
  arrivals, \* requests so far
  losses,   \* keys Redis forgot so far
  counted,  \* history: requests counted for c in minute m, by counter
  admitted, \* history: those of them that were let through
  refused   \* history: <<counter, c, m>> of the requests answered with 429

vars == <<minute, redis, local, request, arrivals, losses, counted, admitted, refused>>

Minutes == 0..LastMinute
Counters == {"redis", "local"}

NoRequest == [pc |-> "none", client |-> NoClient, window |-> 0, count |-> 0]

Zero == [e \in Counters \X Clients \X Minutes |-> 0]

Init ==
  /\ minute = 0
  /\ redis = [e \in Clients \X Minutes |-> 0]
  /\ local = [c \in Clients |-> [count |-> 0, window |-> 0]]
  /\ request = [r \in Requests |-> NoRequest]
  /\ arrivals = 0
  /\ losses = 0
  /\ counted = Zero
  /\ admitted = Zero
  /\ refused = {}

(* dispatch: the key is built from the address and the minute.               *)
Arrive(r, c) ==
  /\ request[r].pc = "none"
  /\ arrivals < MaxArrivals
  /\ arrivals' = arrivals + 1
  /\ request' = [request EXCEPT ![r] =
       [pc |-> "counting", client |-> c, window |-> minute, count |-> 0]]
  /\ UNCHANGED <<minute, redis, local, losses, counted, admitted, refused>>

(* INCR and EXPIRE, one transaction of Redis.                                *)
Incr(r) ==
  LET c == request[r].client
      m == request[r].window
  IN /\ request[r].pc = "counting"
     /\ redis' = [redis EXCEPT ![<<c, m>>] = @ + 1]
     /\ counted' = [counted EXCEPT ![<<"redis", c, m>>] = @ + 1]
     /\ request' = [request EXCEPT ![r] =
          [pc |-> "answered", client |-> c, window |-> m, count |-> redis[<<c, m>>] + 1]]
     /\ UNCHANGED <<minute, local, arrivals, losses, admitted, refused>>

(* Mutant: the request that reaches the limit plus one is let through.       *)
OverLimitByOne(count) == count > Limit + 1

OverLimit(count) == count > Limit

(* The request is answered: 429, or the rest of the application.             *)
Decide(r, k, m, count) ==
  LET c == request[r].client
  IN /\ request' = [request EXCEPT ![r] = NoRequest]
     /\ IF OverLimit(count)
        THEN refused' = refused \cup {<<k, c, m>>} /\ UNCHANGED admitted
        ELSE admitted' = [admitted EXCEPT ![<<k, c, m>>] = @ + 1] /\ UNCHANGED refused

RedisDecides(r) ==
  /\ request[r].pc = "answered"
  /\ Decide(r, "redis", request[r].window, request[r].count)
  /\ UNCHANGED <<minute, redis, local, arrivals, losses, counted>>

(* Mutant: the count of an earlier minute is carried on.                     *)
LocalCountKeeps(c) == local[c].count + 1

(* The count of an earlier minute is dropped.                                *)
LocalCount(c) == (IF local[c].window = minute THEN local[c].count ELSE 0) + 1

(* pipe.execute() raises, whether or not Redis has counted the request: the  *)
(* process counts it, in the minute the clock shows now.                     *)
RedisRaises(r) ==
  LET c == request[r].client
  IN /\ request[r].pc \in {"counting", "answered"}
     /\ local' = [local EXCEPT ![c] = [count |-> LocalCount(c), window |-> minute]]
     /\ counted' = [counted EXCEPT ![<<"local", c, minute>>] = @ + 1]
     /\ Decide(r, "local", minute, LocalCount(c))
     /\ UNCHANGED <<minute, redis, arrivals, losses>>

(* A key outlives its last INCR by 120 seconds; a restart of Redis loses it  *)
(* at once.                                                                  *)
RedisForgets(c, m) ==
  /\ losses < MaxLosses
  /\ redis[<<c, m>>] # 0
  /\ redis' = [redis EXCEPT ![<<c, m>>] = 0]
  /\ losses' = losses + 1
  /\ UNCHANGED <<minute, local, request, arrivals, counted, admitted, refused>>

Tick ==
  /\ minute < LastMinute
  /\ minute' = minute + 1
  /\ UNCHANGED <<redis, local, request, arrivals, losses, counted, admitted, refused>>

Next ==
  \/ \E r \in Requests, c \in Clients : Arrive(r, c)
  \/ \E r \in Requests : Incr(r) \/ RedisDecides(r) \/ RedisRaises(r)
  \/ \E c \in Clients, m \in Minutes : RedisForgets(c, m)
  \/ Tick

Spec == Init /\ [][Next]_vars

-------------------------------------------------------------------------------
RequestRecords ==
  [pc : {"none", "counting", "answered"}, client : Clients \cup {NoClient},
   window : Minutes, count : Nat]

TypeOK ==
  /\ minute \in Minutes
  /\ redis \in [Clients \X Minutes -> Nat]
  /\ local \in [Clients -> [count : Nat, window : Minutes]]
  /\ request \in [Requests -> RequestRecords]
  /\ \A r \in Requests : request[r].pc # "none" => request[r].client \in Clients
  /\ arrivals \in Nat
  /\ losses \in Nat
  /\ counted \in [Counters \X Clients \X Minutes -> Nat]
  /\ admitted \in [Counters \X Clients \X Minutes -> Nat]
  /\ refused \in SUBSET (Counters \X Clients \X Minutes)

(* The fallback alone lets at most Limit requests of a client through in a   *)
(* minute, and Redis at most Limit for each time it starts from nothing: a   *)
(* failover in the middle of a minute doubles the quota and no more.         *)
QuotaAtMostDoubles ==
  \A c \in Clients, m \in Minutes :
    /\ admitted[<<"local", c, m>>] <= Limit
    /\ admitted[<<"redis", c, m>>] + admitted[<<"local", c, m>>] <= Limit * (2 + losses)

(* What a counter shows was counted for that client in that minute.          *)
CountsAreCounted ==
  /\ \A c \in Clients, m \in Minutes : redis[<<c, m>>] <= counted[<<"redis", c, m>>]
  /\ \A c \in Clients : local[c].count <= counted[<<"local", c, local[c].window>>]
  /\ \A r \in Requests : request[r].pc = "answered" =>
       request[r].count <= counted[<<"redis", request[r].client, request[r].window>>]

(* Nobody is refused for the requests of another client or of an earlier     *)
(* minute: the counter that refused had counted more than Limit requests of  *)
(* that client in that minute.                                               *)
RefusedOnlyOverLimit ==
  \A k \in Counters, c \in Clients, m \in Minutes :
    <<k, c, m>> \in refused => counted[<<k, c, m>>] > Limit

===============================================================================
