----------------------------- MODULE RequestGate -----------------------------
(***************************************************************************)
(* The prologue of every signed agent request on the master                *)
(* (master/src/http, rate_limit, nodes): the two rate limits, the check of *)
(* the time stamp, and the nonce table that keeps a request from being     *)
(* applied twice, whichever copies of it arrive and however slowly its     *)
(* handlers move.                                                          *)
(*                                                                         *)
(* Time is counted in ticks of the master's clock.  A time stamp is a      *)
(* whole second of the agent's clock, which may be ahead or behind.  The   *)
(* nonce table is only ever compared with the clock of PostgreSQL that     *)
(* wrote it, so an offset of that clock does not matter.  Signatures and   *)
(* credentials are taken to be right: other requests are refused and leave *)
(* no trace.                                                               *)
(***************************************************************************)
EXTENDS Integers, Functions

CONSTANTS
  Nodes,           \* nodes that send requests
  Requests,        \* signed requests: each carries a nonce of its own
  Sender,          \* the node of each request
  Handlers,        \* HTTP handlers the master runs at a time
  TicksPerSecond,
  Window,          \* AGENT_SIGNATURE_WINDOW_SECONDS, in ticks
  Retention,       \* how long a nonce is kept at least, in ticks
  Skew,            \* how far an agent's clock is off at most, in ticks
  Delay,           \* how long a handler takes at most, from its check of the
                   \* time stamp to its INSERT of the nonce, in ticks
  LimiterWindow,   \* the window of the rate limiter, in ticks
  Limit,           \* agent_rate_limit_per_minute
  MaxTime,         \* bound: ticks that pass
  Unsent

ASSUME GateAssumption ==
  /\ Sender \in [Requests -> Nodes]
  /\ TicksPerSecond \in Nat \ {0}
  /\ Window \in Nat /\ Retention \in Nat /\ Skew \in Nat /\ Delay \in Nat
  /\ LimiterWindow \in Nat \ {0}
  /\ Limit \in Nat \ {0}
  /\ MaxTime \in Nat
  /\ Unsent \notin Int
  /\ "agent:all" \notin Nodes

VARIABLES
  now,      \* the master's clock
  stamp,    \* the time stamp each request was signed with, or Unsent
  handler,  \* what each handler is doing
  nonces,   \* the table agent_request_nonces: the requests whose nonce it
            \* has, each with its seen_at
  applied,  \* how often the master has carried out each request
  bucket,   \* the rate limiter's buckets; one that expired counts as absent
  charged   \* history: how many requests each bucket let through, since the
            \* master was started, in the current tick and the `age' before

gateVars == <<now, stamp, handler, nonces, applied, bucket, charged>>

-----------------------------------------------------------------------------
Ages == 0 .. LimiterWindow - 1

(* Utc::now().timestamp() and X-Agent-Timestamp: whole seconds.            *)
Second(t) == t - (t % TicksPerSecond)

(* A handler that waits for PostgreSQL remembers when it checked the time. *)
Handler == [step: {"checked", "purged", "admitted"}, request: Requests, at: Int]
Idle == [step |-> "idle"]

(* The keys of the limiter that a signed request is charged to.            *)
Keys == Nodes \union {"agent:all"}
NoBucket == [count |-> 0, reset |-> 0]

GateTypeOK ==
  /\ now \in Int
  /\ stamp \in [Requests -> Int \union {Unsent}]
  /\ handler \in [Handlers -> Handler \union {Idle}]
  /\ DOMAIN nonces \subseteq Requests /\ nonces \in [DOMAIN nonces -> Int]
  /\ applied \in [Requests -> Nat]
  /\ bucket \in [Keys -> [count: 0 .. Limit, reset: Int]]

-----------------------------------------------------------------------------
(* An agent signs a request with its own clock (send_json_request).        *)
Send(r, offset) ==
  /\ stamp[r] = Unsent
  /\ stamp' = [stamp EXCEPT ![r] = Second(now + offset)]
  /\ UNCHANGED <<now, handler, nonces, applied, bucket, charged>>

(* Mutant: the limit is compared before the request is counted in.         *)
HasRoomOffByOne(k) == bucket[k].reset > now => bucket[k].count <= Limit

(* RateLimiter::check: is there room in the bucket, and what it becomes.   *)
HasRoom(k) == bucket[k].reset > now => bucket[k].count < Limit
Charged(k) ==
  IF bucket[k].reset > now
  THEN [bucket[k] EXCEPT !.count = @ + 1]
  ELSE [count |-> 1, reset |-> now + LimiterWindow]

(* The history: one request more in each of the buckets ks.                *)
CountIn(ks) ==
  charged' = [k \in Keys |-> [age \in Ages |->
                IF k \in ks THEN charged[k][age] + 1 ELSE charged[k][age]]]

(* Mutant: retain keeps none of the other buckets.                         *)
ChargeDroppingOthers(ks) ==
  /\ bucket' = [k \in Keys |-> IF k \in ks THEN Charged(k) ELSE NoBucket]
  /\ CountIn(ks)

(* retain, then one request more in each of the buckets ks.                *)
Charge(ks) ==
  /\ bucket' = [k \in Keys |->
                  IF k \in ks THEN Charged(k)
                  ELSE IF bucket[k].reset > now THEN bucket[k] ELSE NoBucket]
  /\ CountIn(ks)

InWindow(r) == Second(now) - stamp[r] \in -Window .. Window

(* A copy of the request arrives.  All up to the check of the time stamp   *)
(* is done without waiting for anything: the limit of all agents, the      *)
(* limit of the node, the headers.                                         *)
Receive(h, r) ==
  /\ handler[h] = Idle
  /\ stamp[r] # Unsent
  /\ \/ ~HasRoom("agent:all") /\ Charge({}) /\ UNCHANGED handler
     \/ /\ HasRoom("agent:all") /\ ~HasRoom(Sender[r])
        /\ Charge({"agent:all"}) /\ UNCHANGED handler
     \/ /\ HasRoom("agent:all") /\ HasRoom(Sender[r])
        /\ Charge({"agent:all", Sender[r]})
        /\ handler' = [handler EXCEPT ![h] =
             IF InWindow(r) THEN [step |-> "checked", request |-> r, at |-> now] ELSE Idle]
  /\ UNCHANGED <<now, stamp, nonces, applied>>

(* Mutant: nonces are kept for the signature window only.                  *)
PurgeAfterWindow(h) ==
  /\ handler[h].step = "checked"
  /\ nonces' = Restrict(nonces, {r \in DOMAIN nonces : nonces[r] >= now - Window})
  /\ handler' = [handler EXCEPT ![h].step = "purged"]
  /\ UNCHANGED <<now, stamp, applied, bucket, charged>>

(* The first statement of remember_nonce deletes old rows of all nodes.    *)
Purge(h) ==
  /\ handler[h].step = "checked"
  /\ nonces' = Restrict(nonces, {r \in DOMAIN nonces : nonces[r] >= now - Retention})
  /\ handler' = [handler EXCEPT ![h].step = "purged"]
  /\ UNCHANGED <<now, stamp, applied, bucket, charged>>

(* The second one inserts the nonce, or finds that it is there.            *)
RememberNonce(h) ==
  LET r == handler[h].request
  IN  /\ handler[h].step = "purged"
      /\ \/ /\ r \notin DOMAIN nonces
            /\ nonces' = [q \in DOMAIN nonces \union {r} |-> IF q = r THEN now ELSE nonces[q]]
            /\ handler' = [handler EXCEPT ![h].step = "admitted"]
         \/ /\ r \in DOMAIN nonces
            /\ handler' = [handler EXCEPT ![h] = Idle]
            /\ UNCHANGED nonces
      /\ UNCHANGED <<now, stamp, applied, bucket, charged>>

(* The transaction of the handler proper commits.                          *)
Apply(h) ==
  /\ handler[h].step = "admitted"
  /\ applied' = [applied EXCEPT ![handler[h].request] = @ + 1]
  /\ handler' = [handler EXCEPT ![h] = Idle]
  /\ UNCHANGED <<now, stamp, nonces, bucket, charged>>

(* A statement fails, or the transaction is rolled back: the nonce stays,  *)
(* it was inserted outside of the transaction.                             *)
Fail(h) ==
  /\ handler[h] # Idle
  /\ handler' = [handler EXCEPT ![h] = Idle]
  /\ UNCHANGED <<now, stamp, nonces, applied, bucket, charged>>

(* The master is restarted: the limiter and the handlers live in memory.   *)
Restart ==
  /\ handler' = [h \in Handlers |-> Idle]
  /\ bucket' = [k \in Keys |-> NoBucket]
  /\ charged' = [k \in Keys |-> [age \in Ages |-> 0]]
  /\ UNCHANGED <<now, stamp, nonces, applied>>

(* A tick passes, unless a handler has used up its time.                   *)
Tick ==
  /\ now < MaxTime
  /\ \A h \in Handlers : handler[h].step \in {"checked", "purged"} => now < handler[h].at + Delay
  /\ now' = now + 1
  /\ charged' = [k \in Keys |-> [age \in Ages |-> IF age = 0 THEN 0 ELSE charged[k][age - 1]]]
  /\ UNCHANGED <<stamp, handler, nonces, applied, bucket>>

-----------------------------------------------------------------------------
GateInit ==
  /\ now = 0
  /\ stamp = [r \in Requests |-> Unsent]
  /\ handler = [h \in Handlers |-> Idle]
  /\ nonces = [r \in {} |-> 0]
  /\ applied = [r \in Requests |-> 0]
  /\ bucket = [k \in Keys |-> NoBucket]
  /\ charged = [k \in Keys |-> [age \in Ages |-> 0]]

HandlerStep(h) ==
  \/ \E r \in Requests : Receive(h, r)
  \/ Purge(h)
  \/ RememberNonce(h)
  \/ Apply(h)
  \/ Fail(h)

GateNext ==
  \/ \E r \in Requests, offset \in -Skew .. Skew : Send(r, offset)
  \/ \E h \in Handlers : HandlerStep(h)
  \/ Restart
  \/ Tick

GateSpec == GateInit /\ [][GateNext]_gateVars

-----------------------------------------------------------------------------
(* Properties.                                                             *)

(* The retention outlasts everything a copy of a request may still do: it  *)
(* was first admitted no earlier than Skew before its time stamp, and the  *)
(* last copy passes the check within Window of that stamp, rounded down to *)
(* a second, and inserts the nonce within Delay.  The code keeps nonces    *)
(* for 600 s and has a window of 300 s: 299 s are left for Skew and Delay. *)
RetentionCovers == Retention >= Skew + Window + Delay + (TicksPerSecond - 1)

(* A signed request is carried out at most once, whatever copies of it     *)
(* arrive, however its handlers interleave with each other and with the    *)
(* purge of old nonces, and across restarts of the master.                 *)
AppliedAtMostOnce == \A r \in Requests : applied[r] <= 1

(* No window of the limiter's length, wherever it begins, sees more than   *)
(* twice the limit in a bucket: a request that is refused does not prolong *)
(* the bucket, and one that expired is never continued.                    *)
ChargesBounded == \A k \in Keys : charged[k][LimiterWindow - 1] <= 2 * Limit

-----------------------------------------------------------------------------
(* Strengthening for AppliedAtMostOnce.                                    *)

Holds(h, r) == handler[h].step = "admitted" /\ handler[h].request = r
Admitted(r) == applied[r] > 0 \/ \E h \in Handlers : Holds(h, r)

(* No time stamp is further ahead than a clock may be.                     *)
StampsBounded == \A r \in Requests : stamp[r] # Unsent => stamp[r] <= now + Skew

(* A handler that is on its way to the nonce table is on time.             *)
HandlersOnTime ==
  \A h \in Handlers : handler[h].step \in {"checked", "purged"} =>
    /\ stamp[handler[h].request] # Unsent
    /\ handler[h].at < stamp[handler[h].request] + Window + TicksPerSecond
    /\ now <= handler[h].at + Delay

(* A nonce is only ever seen when its request was already signed.          *)
NoncesDated ==
  \A r \in DOMAIN nonces : stamp[r] # Unsent /\ stamp[r] <= nonces[r] + Skew

(* A request that was admitted is remembered until no copy of it can be.   *)
AdmittedRemembered ==
  \A r \in Requests : Admitted(r) =>
    /\ stamp[r] # Unsent
    /\ r \in DOMAIN nonces \/ now > stamp[r] + Retention - Skew

(* It is admitted in one place.                                            *)
AdmittedOnce ==
  \A r \in Requests :
    /\ \A g, h \in Handlers : Holds(g, r) /\ Holds(h, r) => g = h
    /\ applied[r] > 0 => \A h \in Handlers : ~Holds(h, r)

GateInv ==
  /\ GateTypeOK
  /\ StampsBounded
  /\ HandlersOnTime
  /\ NoncesDated
  /\ AdmittedRemembered
  /\ AdmittedOnce
  /\ AppliedAtMostOnce

-----------------------------------------------------------------------------
(* Strengthening for ChargesBounded.                                       *)

Open(k) == bucket[k].reset > now

(* The ages of what was charged to the bucket k since it was opened.       *)
AgesOf(k) == {age \in Ages : age <= now - (bucket[k].reset - LimiterWindow)}

(* An open bucket has counted all it let through since it was opened, and  *)
(* what it let through before that fits the limit once more.               *)
OpenBucketsCount ==
  \A k \in Keys : Open(k) =>
    /\ bucket[k].reset <= now + LimiterWindow
    /\ \A age \in AgesOf(k) : charged[k][age] <= bucket[k].count
    /\ \A age \in Ages : charged[k][age] <= bucket[k].count + Limit

(* A window that ends now saw no more than the limit if no bucket is open. *)
ClosedBucketsFit ==
  \A k \in Keys : ~Open(k) =>
    /\ charged[k][0] = 0
    /\ \A age \in Ages : charged[k][age] <= Limit

ChargeInv ==
  /\ now \in Nat
  /\ bucket \in [Keys -> [count: 0 .. Limit, reset: Int]]
  /\ charged \in [Keys -> [Ages -> Nat]]
  /\ OpenBucketsCount
  /\ ClosedBucketsFit
=============================================================================
