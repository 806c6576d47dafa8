----------------------------- MODULE GateProofs -----------------------------
(***************************************************************************)
(* What TLAPS proves of RequestGate, for any numbers of nodes, requests    *)
(* and handlers and any times: with a retention that covers the clock      *)
(* skew, the signature window and the delay of a handler, no request is    *)
(* carried out twice (GateInv is the inductive invariant), and no window   *)
(* sees more than twice the limit of a bucket (ChargeInv).                 *)
(***************************************************************************)
EXTENDS RequestGate, TLAPS

(* A second begins no later than the moment it is taken from, and less     *)
(* than a second before it.                                                *)
LEMMA SecondBounds ==
  ASSUME NEW t \in Int
  PROVE  Second(t) \in Int /\ Second(t) <= t /\ t < Second(t) + TicksPerSecond
  <1>1. t % TicksPerSecond \in 0 .. TicksPerSecond - 1
    BY GateAssumption
  <1>2. QED BY <1>1, GateAssumption DEF Second

LEMMA HandlerCases ==
  ASSUME GateTypeOK, NEW h \in Handlers, handler[h] # Idle
  PROVE  handler[h] \in Handler
  BY DEF GateTypeOK

LEMMA GateInitInv == GateInit => GateInv
  BY GateAssumption
  DEF GateInit, GateInv, GateTypeOK, StampsBounded, HandlersOnTime, NoncesDated,
      AdmittedRemembered, AdmittedOnce, AppliedAtMostOnce, Holds, Admitted, Idle, NoBucket, Keys

(* What becomes of the invariant when neither the clock, the stamps, the   *)
(* nonces nor the counts change and each handler stays or becomes idle.    *)
LEMMA HandlersGiveUp ==
  ASSUME GateInv,
         UNCHANGED <<now, stamp, nonces, applied>>,
         bucket' \in [Keys -> [count: 0 .. Limit, reset: Int]],
         handler' \in [Handlers -> Handler \union {Idle}],
         \A h \in Handlers : handler'[h] = handler[h] \/ handler'[h] = Idle
  PROVE  GateInv'
  <1>1. GateTypeOK'
    BY DEF GateInv, GateTypeOK
  <1>2. \A h \in Handlers, r \in Requests : Holds(h, r)' => Holds(h, r)
    BY DEF Holds, Idle
  <1>3. StampsBounded' /\ NoncesDated' /\ AppliedAtMostOnce'
    BY DEF GateInv, StampsBounded, NoncesDated, AppliedAtMostOnce
  <1>4. HandlersOnTime'
    BY DEF GateInv, HandlersOnTime, Idle
  <1>5. AdmittedRemembered' /\ AdmittedOnce'
    BY <1>2 DEF GateInv, AdmittedRemembered, AdmittedOnce, Admitted
  <1>6. QED BY <1>1, <1>3, <1>4, <1>5 DEF GateInv

LEMMA ChargeType ==
  ASSUME now \in Int, bucket \in [Keys -> [count: 0 .. Limit, reset: Int]],
         NEW ks \in SUBSET Keys, \A k \in ks : HasRoom(k), Charge(ks)
  PROVE  bucket' \in [Keys -> [count: 0 .. Limit, reset: Int]]
  <1>1. \A k \in ks : Charged(k) \in [count: 0 .. Limit, reset: Int]
    BY GateAssumption DEF HasRoom, Charged
  <1>2. NoBucket \in [count: 0 .. Limit, reset: Int]
    BY GateAssumption DEF NoBucket
  <1>3. QED BY <1>1, <1>2 DEF Charge

LEMMA SendStep ==
  ASSUME GateInv, NEW r \in Requests, NEW offset \in -Skew .. Skew, Send(r, offset)
  PROVE  GateInv'
  <1>1. /\ stamp[r] = Unsent
        /\ stamp' = [stamp EXCEPT ![r] = Second(now + offset)]
        /\ UNCHANGED <<now, handler, nonces, applied, bucket>>
    BY DEF Send
  <1>2. Second(now + offset) \in Int /\ Second(now + offset) <= now + Skew
    BY SecondBounds, GateAssumption DEF GateInv, GateTypeOK
  <1>3. /\ stamp'[r] = Second(now + offset)
        /\ \A q \in Requests : q # r => stamp'[q] = stamp[q]
        /\ stamp'[r] # Unsent
    BY <1>1, <1>2, GateAssumption DEF GateInv, GateTypeOK
  <1>4. GateTypeOK'
    BY <1>1, <1>2 DEF GateInv, GateTypeOK
  <1>5. StampsBounded'
    BY <1>1, <1>2, <1>3 DEF GateInv, StampsBounded
  <1>6. HandlersOnTime'
    <2> SUFFICES ASSUME NEW h \in Handlers, handler[h].step \in {"checked", "purged"}
                 PROVE  stamp'[handler[h].request] = stamp[handler[h].request]
      BY <1>1 DEF GateInv, HandlersOnTime
    <2>1. handler[h].request \in Requests /\ stamp[handler[h].request] # Unsent
      BY HandlerCases DEF GateInv, HandlersOnTime, Idle, Handler
    <2>2. QED BY <2>1, <1>1, <1>3
  <1>7. \A q \in DOMAIN nonces : stamp'[q] = stamp[q]
    BY <1>1, <1>3 DEF GateInv, NoncesDated, GateTypeOK
  <1>8. NoncesDated'
    BY <1>1, <1>7 DEF GateInv, NoncesDated
  <1>9. \A q \in Requests : Admitted(q)' <=> Admitted(q)
    BY <1>1 DEF Admitted, Holds
  <1>10. AdmittedRemembered'
    BY <1>1, <1>3, <1>9 DEF GateInv, AdmittedRemembered
  <1>11. AdmittedOnce' /\ AppliedAtMostOnce'
    BY <1>1 DEF GateInv, AdmittedOnce, AppliedAtMostOnce, Holds
  <1>12. QED BY <1>4, <1>5, <1>6, <1>8, <1>10, <1>11 DEF GateInv

LEMMA ReceiveStep ==
  ASSUME GateInv, NEW h \in Handlers, NEW r \in Requests, Receive(h, r)
  PROVE  GateInv'
  <1>1. /\ handler[h] = Idle /\ stamp[r] # Unsent
        /\ UNCHANGED <<now, stamp, nonces, applied>>
    BY DEF Receive
  <1>2. bucket' \in [Keys -> [count: 0 .. Limit, reset: Int]]
    <2>1. "agent:all" \in Keys /\ Sender[r] \in Keys
      BY GateAssumption DEF Keys
    <2>2. PICK ks \in SUBSET Keys : (\A k \in ks : HasRoom(k)) /\ Charge(ks)
      BY <2>1 DEF Receive
    <2>3. QED BY <2>2, ChargeType DEF GateInv, GateTypeOK
  <1>3. CASE UNCHANGED handler
    BY <1>1, <1>2, <1>3, HandlersGiveUp DEF GateInv, GateTypeOK
  <1>4. CASE handler' = [handler EXCEPT ![h] = Idle]
    BY <1>1, <1>2, <1>4, HandlersGiveUp DEF GateInv, GateTypeOK
  <1>5. CASE /\ InWindow(r)
             /\ handler' = [handler EXCEPT ![h] = [step |-> "checked", request |-> r, at |-> now]]
    <2>1. /\ handler'[h] = [step |-> "checked", request |-> r, at |-> now]
          /\ \A g \in Handlers : g # h => handler'[g] = handler[g]
          /\ handler' \in [Handlers -> Handler \union {Idle}]
      BY <1>5 DEF GateInv, GateTypeOK, Handler
    <2>2. GateTypeOK'
      BY <1>1, <1>2, <2>1 DEF GateInv, GateTypeOK
    <2>3. now < stamp[r] + Window + TicksPerSecond
      <3>1. now \in Int /\ stamp[r] \in Int
        BY <1>1 DEF GateInv, GateTypeOK
      <3>2. Second(now) <= stamp[r] + Window
        BY <1>5, <3>1, SecondBounds, GateAssumption DEF InWindow
      <3>3. QED BY <3>1, <3>2, SecondBounds, GateAssumption
    <2>4. HandlersOnTime'
      <3> SUFFICES ASSUME NEW g \in Handlers, handler'[g].step \in {"checked", "purged"}
                   PROVE  /\ stamp'[handler'[g].request] # Unsent
                          /\ handler'[g].at < stamp'[handler'[g].request] + Window + TicksPerSecond
                          /\ now' <= handler'[g].at + Delay
        BY DEF HandlersOnTime
      <3>1. CASE g = h
        BY <3>1, <1>1, <2>1, <2>3, GateAssumption DEF GateInv, GateTypeOK
      <3>2. CASE g # h
        BY <3>2, <1>1, <2>1 DEF GateInv, HandlersOnTime
      <3>3. QED BY <3>1, <3>2
    <2>5. \A g \in Handlers, q \in Requests : Holds(g, q)' <=> Holds(g, q)
      BY <1>1, <2>1 DEF Holds, Idle
    <2>6. AdmittedRemembered' /\ AdmittedOnce'
      BY <1>1, <2>5 DEF GateInv, AdmittedRemembered, AdmittedOnce, Admitted
    <2>7. StampsBounded' /\ NoncesDated' /\ AppliedAtMostOnce'
      BY <1>1 DEF GateInv, StampsBounded, NoncesDated, AppliedAtMostOnce
    <2>8. QED BY <2>2, <2>4, <2>6, <2>7 DEF GateInv
  <1>6. QED BY <1>3, <1>4, <1>5 DEF Receive

(* A purge takes away nonces of requests that are out of every handler's   *)
(* reach.                                                                  *)
LEMMA PurgeStep ==
  ASSUME GateInv, NEW h \in Handlers, Purge(h)
  PROVE  GateInv'
  <1> DEFINE kept == {r \in DOMAIN nonces : nonces[r] >= now - Retention}
  <1>1. /\ handler[h].step = "checked"
        /\ nonces' = [r \in kept |-> nonces[r]]
        /\ handler' = [handler EXCEPT ![h].step = "purged"]
        /\ UNCHANGED <<now, stamp, applied, bucket>>
    BY DEF Purge, Restrict
  <1>2. handler[h] \in Handler
    BY <1>1, HandlerCases DEF GateInv, Idle
  <1>3. /\ handler' \in [Handlers -> Handler \union {Idle}]
        /\ handler'[h] = [handler[h] EXCEPT !.step = "purged"]
        /\ \A g \in Handlers : g # h => handler'[g] = handler[g]
    BY <1>1, <1>2 DEF GateInv, GateTypeOK, Handler
  <1>4. DOMAIN nonces' = kept /\ \A r \in kept : nonces'[r] = nonces[r] /\ nonces[r] \in Int
    BY <1>1 DEF GateInv, GateTypeOK
  <1>5. GateTypeOK'
    BY <1>1, <1>3, <1>4 DEF GateInv, GateTypeOK
  <1>6. HandlersOnTime'
    BY <1>1, <1>2, <1>3 DEF GateInv, HandlersOnTime, Handler
  <1>7. \A g \in Handlers, q \in Requests : Holds(g, q)' <=> Holds(g, q)
    BY <1>1, <1>2, <1>3 DEF Holds, Handler
  <1>8. AdmittedRemembered'
    <2> SUFFICES ASSUME NEW r \in Requests, Admitted(r)
                 PROVE  /\ stamp[r] # Unsent
                        /\ r \in kept \/ now > stamp[r] + Retention - Skew
      BY <1>1, <1>4, <1>7 DEF AdmittedRemembered, Admitted
    <2>1. stamp[r] # Unsent /\ stamp[r] \in Int
      BY DEF GateInv, AdmittedRemembered, GateTypeOK
    <2>2. CASE r \in DOMAIN nonces
      <3>1. nonces[r] \in Int /\ stamp[r] <= nonces[r] + Skew
        BY <2>2 DEF GateInv, GateTypeOK, NoncesDated
      <3>2. QED BY <2>1, <2>2, <3>1, GateAssumption DEF GateInv, GateTypeOK
    <2>3. CASE r \notin DOMAIN nonces
      BY <2>1, <2>3 DEF GateInv, AdmittedRemembered
    <2>4. QED BY <2>2, <2>3
  <1>9. AdmittedOnce'
    BY <1>1, <1>7 DEF GateInv, AdmittedOnce
  <1>10. StampsBounded' /\ NoncesDated' /\ AppliedAtMostOnce'
    BY <1>1, <1>4 DEF GateInv, StampsBounded, NoncesDated, AppliedAtMostOnce
  <1>11. QED BY <1>5, <1>6, <1>8, <1>9, <1>10 DEF GateInv

(* The heart of it: a handler that finds no nonce is the first one.        *)
LEMMA FreshNonceIsFirst ==
  ASSUME RetentionCovers, GateInv, NEW h \in Handlers, handler[h].step = "purged",
         handler[h].request \notin DOMAIN nonces
  PROVE  ~Admitted(handler[h].request)
  <1> DEFINE r == handler[h].request
  <1>1. handler[h] \in Handler /\ r \in Requests /\ handler[h].at \in Int
    BY HandlerCases DEF GateInv, Idle, Handler
  <1>2. /\ stamp[r] # Unsent
        /\ handler[h].at < stamp[r] + Window + TicksPerSecond
        /\ now <= handler[h].at + Delay
    BY DEF GateInv, HandlersOnTime
  <1>3. stamp[r] \in Int /\ now \in Int
    BY <1>1, <1>2 DEF GateInv, GateTypeOK
  <1>4. now <= stamp[r] + Retention - Skew
    BY <1>1, <1>2, <1>3, GateAssumption DEF RetentionCovers
  <1>5. Admitted(r) => r \in DOMAIN nonces \/ now > stamp[r] + Retention - Skew
    BY <1>1 DEF GateInv, AdmittedRemembered
  <1>6. QED BY <1>3, <1>4, <1>5, GateAssumption

LEMMA RememberStep ==
  ASSUME RetentionCovers, GateInv, NEW h \in Handlers, RememberNonce(h)
  PROVE  GateInv'
  <1> DEFINE r == handler[h].request
  <1>1. handler[h].step = "purged" /\ UNCHANGED <<now, stamp, applied, bucket>>
    BY DEF RememberNonce
  <1>2. handler[h] \in Handler /\ r \in Requests
    BY <1>1, HandlerCases DEF GateInv, Idle, Handler
  <1>3. CASE handler' = [handler EXCEPT ![h] = Idle] /\ UNCHANGED nonces
    BY <1>1, <1>3, HandlersGiveUp DEF GateInv, GateTypeOK
  <1>4. CASE /\ r \notin DOMAIN nonces
             /\ nonces' = [q \in DOMAIN nonces \union {r} |-> IF q = r THEN now ELSE nonces[q]]
             /\ handler' = [handler EXCEPT ![h].step = "admitted"]
    <2>1. ~Admitted(r)
      BY <1>1, <1>4, FreshNonceIsFirst
    <2>2. /\ handler' \in [Handlers -> Handler \union {Idle}]
          /\ handler'[h] = [handler[h] EXCEPT !.step = "admitted"]
          /\ \A g \in Handlers : g # h => handler'[g] = handler[g]
      BY <1>2, <1>4 DEF GateInv, GateTypeOK, Handler
    <2>3. /\ DOMAIN nonces' = DOMAIN nonces \union {r}
          /\ nonces'[r] = now /\ \A q \in DOMAIN nonces : nonces'[q] = nonces[q]
      BY <1>4
    <2>4. nonces' \in [DOMAIN nonces' -> Int]
      BY <1>4, <2>3 DEF GateInv, GateTypeOK
    <2>5. GateTypeOK'
      BY <1>1, <1>2, <2>2, <2>3, <2>4 DEF GateInv, GateTypeOK
    <2>6. stamp[r] # Unsent /\ stamp[r] <= now + Skew
      BY <1>1, <1>2 DEF GateInv, HandlersOnTime, StampsBounded
    <2>7. NoncesDated'
      BY <1>1, <2>3, <2>6 DEF GateInv, NoncesDated
    <2>8. HandlersOnTime'
      BY <1>1, <1>2, <2>2 DEF GateInv, HandlersOnTime, Handler
    <2>9. \A g \in Handlers, q \in Requests :
            Holds(g, q)' <=> Holds(g, q) \/ (g = h /\ q = r)
      BY <1>1, <1>2, <2>2 DEF Holds, Handler
    <2>10. AdmittedRemembered'
      BY <1>1, <2>3, <2>6, <2>9 DEF GateInv, AdmittedRemembered, Admitted
    <2>11. AdmittedOnce'
      BY <1>1, <2>1, <2>9, GateAssumption DEF GateInv, AdmittedOnce, Admitted
    <2>12. StampsBounded' /\ AppliedAtMostOnce'
      BY <1>1 DEF GateInv, StampsBounded, AppliedAtMostOnce
    <2>13. QED BY <2>5, <2>7, <2>8, <2>10, <2>11, <2>12 DEF GateInv
  <1>5. QED BY <1>3, <1>4 DEF RememberNonce

LEMMA ApplyStep ==
  ASSUME GateInv, NEW h \in Handlers, Apply(h)
  PROVE  GateInv'
  <1> DEFINE r == handler[h].request
  <1>1. /\ handler[h].step = "admitted"
        /\ applied' = [applied EXCEPT ![r] = @ + 1]
        /\ handler' = [handler EXCEPT ![h] = Idle]
        /\ UNCHANGED <<now, stamp, nonces, bucket>>
    BY DEF Apply
  <1>2. handler[h] \in Handler /\ r \in Requests /\ Holds(h, r)
    BY <1>1, HandlerCases DEF GateInv, Idle, Handler, Holds
  <1>3. applied[r] = 0
    BY <1>2 DEF GateInv, AdmittedOnce, GateTypeOK
  <1>4. /\ handler' \in [Handlers -> Handler \union {Idle}] /\ handler'[h] = Idle
        /\ \A g \in Handlers : g # h => handler'[g] = handler[g]
    BY <1>1 DEF GateInv, GateTypeOK
  <1>5. /\ applied' \in [Requests -> Nat] /\ applied'[r] = 1
        /\ \A q \in Requests : q # r => applied'[q] = applied[q]
    BY <1>1, <1>2, <1>3 DEF GateInv, GateTypeOK
  <1>6. GateTypeOK'
    BY <1>1, <1>4, <1>5 DEF GateInv, GateTypeOK
  <1>7. HandlersOnTime'
    BY <1>1, <1>4 DEF GateInv, HandlersOnTime, Idle
  <1>8. \A g \in Handlers, q \in Requests : Holds(g, q)' <=> Holds(g, q) /\ g # h
    BY <1>4 DEF Holds, Idle
  <1>9. \A q \in Requests : Admitted(q)' => Admitted(q)
    BY <1>2, <1>5, <1>8 DEF Admitted
  <1>10. AdmittedRemembered'
    BY <1>1, <1>9 DEF GateInv, AdmittedRemembered
  <1>11. AdmittedOnce'
    BY <1>2, <1>5, <1>8 DEF GateInv, AdmittedOnce
  <1>12. StampsBounded' /\ NoncesDated' /\ AppliedAtMostOnce'
    BY <1>1, <1>5 DEF GateInv, StampsBounded, NoncesDated, AppliedAtMostOnce
  <1>13. QED BY <1>6, <1>7, <1>10, <1>11, <1>12 DEF GateInv

LEMMA TickStep ==
  ASSUME GateInv, Tick
  PROVE  GateInv'
  <1>1. /\ now' = now + 1 /\ now \in Int
        /\ \A h \in Handlers : handler[h].step \in {"checked", "purged"} => now < handler[h].at + Delay
        /\ UNCHANGED <<stamp, handler, nonces, applied, bucket>>
    BY DEF Tick, GateInv, GateTypeOK
  <1>2. GateTypeOK'
    BY <1>1 DEF GateInv, GateTypeOK
  <1>3. StampsBounded'
    BY <1>1, GateAssumption DEF GateInv, StampsBounded, GateTypeOK
  <1>4. HandlersOnTime'
    <2> SUFFICES ASSUME NEW h \in Handlers, handler[h].step \in {"checked", "purged"}
                 PROVE  now + 1 <= handler[h].at + Delay
      BY <1>1 DEF GateInv, HandlersOnTime
    <2>1. handler[h].at \in Int
      BY HandlerCases DEF GateInv, Idle, Handler
    <2>2. QED BY <1>1, <2>1, GateAssumption
  <1>5. AdmittedRemembered'
    <2> SUFFICES ASSUME NEW r \in Requests, Admitted(r)
                 PROVE  /\ stamp[r] # Unsent
                        /\ r \in DOMAIN nonces \/ now + 1 > stamp[r] + Retention - Skew
      BY <1>1 DEF AdmittedRemembered, Admitted, Holds
    <2>1. stamp[r] \in Int
      BY DEF GateInv, AdmittedRemembered, GateTypeOK
    <2>2. QED BY <1>1, <2>1, GateAssumption DEF GateInv, AdmittedRemembered
  <1>6. NoncesDated' /\ AdmittedOnce' /\ AppliedAtMostOnce'
    BY <1>1 DEF GateInv, NoncesDated, AdmittedOnce, AppliedAtMostOnce, Holds
  <1>7. QED BY <1>2, <1>3, <1>4, <1>5, <1>6 DEF GateInv

LEMMA GateStep ==
  ASSUME RetentionCovers, GateInv, [GateNext]_gateVars
  PROVE  GateInv'
  <1>1. CASE \E r \in Requests, offset \in -Skew .. Skew : Send(r, offset)
    BY <1>1, SendStep
  <1>2. ASSUME NEW h \in Handlers, HandlerStep(h)
        PROVE  GateInv'
    <2>1. CASE \E r \in Requests : Receive(h, r)
      BY <2>1, ReceiveStep
    <2>2. CASE Purge(h)
      BY <2>2, PurgeStep
    <2>3. CASE RememberNonce(h)
      BY <2>3, RememberStep
    <2>4. CASE Apply(h)
      BY <2>4, ApplyStep
    <2>5. CASE Fail(h)
      BY <2>5, HandlersGiveUp DEF Fail, GateInv, GateTypeOK
    <2>6. QED BY <1>2, <2>1, <2>2, <2>3, <2>4, <2>5 DEF HandlerStep
  <1>3. CASE Restart
    <2>1. bucket' \in [Keys -> [count: 0 .. Limit, reset: Int]]
      BY <1>3, GateAssumption DEF Restart, NoBucket
    <2>2. QED BY <1>3, <2>1, HandlersGiveUp DEF Restart
  <1>4. CASE Tick
    BY <1>4, TickStep
  <1>5. CASE UNCHANGED gateVars
    BY <1>5, HandlersGiveUp DEF gateVars, GateInv, GateTypeOK
  <1>6. QED BY <1>1, <1>2, <1>3, <1>4, <1>5 DEF GateNext

-----------------------------------------------------------------------------
(* A signed request is carried out at most once when the retention of      *)
(* nonces covers skew, window and delay (verify_agent_request and          *)
(* remember_nonce, whichever handlers run them).                           *)
THEOREM RequestAppliedOnce ==
  ASSUME RetentionCovers
  PROVE  GateSpec => []AppliedAtMostOnce
  <1>1. GateInv /\ [GateNext]_gateVars => GateInv'
    BY GateStep
  <1>2. GateInv => AppliedAtMostOnce
    BY DEF GateInv
  <1>3. QED BY <1>1, <1>2, GateInitInv, PTL DEF GateSpec

LEMMA GateTypeStep ==
  ASSUME GateTypeOK, [GateNext]_gateVars
  PROVE  GateTypeOK'
  <1>1. ASSUME NEW r \in Requests, NEW offset \in -Skew .. Skew, Send(r, offset)
        PROVE  GateTypeOK'
    <2>1. Second(now + offset) \in Int
      BY SecondBounds, GateAssumption DEF GateTypeOK
    <2>2. QED BY <1>1, <2>1 DEF Send, GateTypeOK
  <1>2. ASSUME NEW h \in Handlers, NEW r \in Requests, Receive(h, r)
        PROVE  GateTypeOK'
    <2>1. bucket' \in [Keys -> [count: 0 .. Limit, reset: Int]]
      <3>1. "agent:all" \in Keys /\ Sender[r] \in Keys
        BY GateAssumption DEF Keys
      <3>2. PICK ks \in SUBSET Keys : (\A k \in ks : HasRoom(k)) /\ Charge(ks)
        BY <1>2, <3>1 DEF Receive
      <3>3. QED BY <3>2, ChargeType DEF GateTypeOK
    <2>2. handler' \in [Handlers -> Handler \union {Idle}]
      BY <1>2 DEF Receive, GateTypeOK, Handler
    <2>3. QED BY <1>2, <2>1, <2>2 DEF Receive, GateTypeOK
  <1>3. ASSUME NEW h \in Handlers, Purge(h)
        PROVE  GateTypeOK'
    <2>1. handler[h] \in Handler
      BY <1>3, HandlerCases DEF Purge, Idle
    <2>2. handler' \in [Handlers -> Handler \union {Idle}]
      BY <1>3, <2>1 DEF Purge, GateTypeOK, Handler
    <2>3. DOMAIN nonces' \subseteq Requests /\ nonces' \in [DOMAIN nonces' -> Int]
      BY <1>3 DEF Purge, Restrict, GateTypeOK
    <2>4. QED BY <1>3, <2>2, <2>3 DEF Purge, GateTypeOK
  <1>4. ASSUME NEW h \in Handlers, RememberNonce(h)
        PROVE  GateTypeOK'
    <2>1. handler[h] \in Handler /\ handler[h].request \in Requests
      BY <1>4, HandlerCases DEF RememberNonce, Idle, Handler
    <2>2. handler' \in [Handlers -> Handler \union {Idle}]
      BY <1>4, <2>1 DEF RememberNonce, GateTypeOK, Handler
    <2>3. DOMAIN nonces' \subseteq Requests /\ nonces' \in [DOMAIN nonces' -> Int]
      BY <1>4, <2>1 DEF RememberNonce, GateTypeOK
    <2>4. QED BY <1>4, <2>2, <2>3 DEF RememberNonce, GateTypeOK
  <1>5. ASSUME NEW h \in Handlers, Apply(h)
        PROVE  GateTypeOK'
    <2>1. handler[h].request \in Requests
      BY <1>5, HandlerCases DEF Apply, Idle, Handler
    <2>2. QED BY <1>5, <2>1 DEF Apply, GateTypeOK
  <1>6. ASSUME NEW h \in Handlers, Fail(h)
        PROVE  GateTypeOK'
    BY <1>6 DEF Fail, GateTypeOK
  <1>7. CASE Restart
    <2>1. NoBucket \in [count: 0 .. Limit, reset: Int]
      BY GateAssumption DEF NoBucket
    <2>2. QED BY <1>7, <2>1 DEF Restart, GateTypeOK
  <1>8. CASE Tick
    BY <1>8 DEF Tick, GateTypeOK
  <1>9. CASE UNCHANGED gateVars
    BY <1>9 DEF gateVars, GateTypeOK
  <1>10. QED
    BY <1>1, <1>2, <1>3, <1>4, <1>5, <1>6, <1>7, <1>8, <1>9 DEF GateNext, HandlerStep

(* The types of the gate's state, in every reachable state, whatever the   *)
(* retention.                                                              *)
THEOREM GateTypeCorrect == GateSpec => []GateTypeOK
  <1>1. GateInit => GateTypeOK
    BY GateInitInv DEF GateInv
  <1>2. GateTypeOK /\ [GateNext]_gateVars => GateTypeOK'
    BY GateTypeStep
  <1>3. QED BY <1>1, <1>2, PTL DEF GateSpec

-----------------------------------------------------------------------------
(* The rate limiter.                                                       *)

LEMMA ChargeInitInv == GateInit => ChargeInv
  <1> SUFFICES ASSUME GateInit PROVE ChargeInv
    OBVIOUS
  <1>1. /\ now = 0
        /\ bucket = [k \in Keys |-> [count |-> 0, reset |-> 0]]
        /\ charged = [k \in Keys |-> [age \in Ages |-> 0]]
        /\ 0 \in Ages
    BY GateAssumption DEF GateInit, NoBucket, Ages
  <1>2. bucket \in [Keys -> [count: 0 .. Limit, reset: Int]]
    BY <1>1, GateAssumption
  <1>3. \A k \in Keys : ~Open(k) /\ \A age \in Ages : charged[k][age] = 0
    BY <1>1 DEF Open
  <1>4. QED BY <1>1, <1>2, <1>3, GateAssumption
        DEF ChargeInv, OpenBucketsCount, ClosedBucketsFit

(* One request more in buckets that have room: a bucket that is opened for *)
(* it begins with a window that saw no more than the limit.                *)
LEMMA ChargeStep ==
  ASSUME ChargeInv, NEW ks \in SUBSET Keys, \A k \in ks : HasRoom(k), Charge(ks), now' = now
  PROVE  ChargeInv'
  <1>1. /\ now \in Nat /\ now' \in Nat /\ 0 \in Ages
        /\ Ages \subseteq Nat
        /\ bucket \in [Keys -> [count: 0 .. Limit, reset: Int]]
        /\ charged \in [Keys -> [Ages -> Nat]]
    BY GateAssumption DEF ChargeInv, Ages
  <1>2. bucket' \in [Keys -> [count: 0 .. Limit, reset: Int]]
    BY <1>1, ChargeType
  <1>3. charged' \in [Keys -> [Ages -> Nat]]
    BY <1>1 DEF Charge, CountIn
  <1>4. ASSUME NEW k \in Keys
        PROVE  /\ Open(k)' => /\ bucket'[k].reset <= now + LimiterWindow
                              /\ \A age \in AgesOf(k)' : charged'[k][age] <= bucket'[k].count
                              /\ \A age \in Ages : charged'[k][age] <= bucket'[k].count + Limit
               /\ ~Open(k)' => /\ charged'[k][0] = 0
                               /\ \A age \in Ages : charged'[k][age] <= Limit
    <2> DEFINE b == bucket[k]
               c == charged[k]
    <2>1. /\ b.count \in 0 .. Limit /\ b.reset \in Int
          /\ c \in [Ages -> Nat]
      BY <1>1
    <2>2. CASE k \in ks /\ Open(k)
      <3>1. bucket'[k] = [b EXCEPT !.count = @ + 1]
        BY <2>2 DEF Charge, Charged, Open
      <3>2. bucket'[k].count = b.count + 1 /\ bucket'[k].reset = b.reset
        BY <3>1, <1>1
      <3>3. \A age \in Ages : charged'[k][age] = c[age] + 1
        BY <2>2 DEF Charge, CountIn
      <3>4. AgesOf(k)' = AgesOf(k) /\ Open(k)' /\ AgesOf(k) \subseteq Ages
        BY <2>2, <3>2 DEF AgesOf, Open
      <3>5. /\ b.reset <= now + LimiterWindow
            /\ \A age \in AgesOf(k) : c[age] <= b.count
            /\ \A age \in Ages : c[age] <= b.count + Limit
        BY <2>2 DEF ChargeInv, OpenBucketsCount
      <3>6. QED BY <3>2, <3>3, <3>4, <3>5, <2>1, GateAssumption
    <2>3. CASE k \in ks /\ ~Open(k)
      <3>1. bucket'[k] = [count |-> 1, reset |-> now + LimiterWindow]
        BY <2>3 DEF Charge, Charged, Open
      <3>2. \A age \in Ages : charged'[k][age] = c[age] + 1
        BY <2>3 DEF Charge, CountIn
      <3>3. c[0] = 0 /\ \A age \in Ages : c[age] <= Limit
        BY <2>3 DEF ChargeInv, ClosedBucketsFit
      <3>4. Open(k)' /\ \A age \in AgesOf(k)' : age = 0
        BY <3>1, <1>1, GateAssumption DEF AgesOf, Open, Ages
      <3>5. QED BY <3>1, <3>2, <3>3, <3>4, <2>1, <1>1, GateAssumption
    <2>4. CASE k \notin ks /\ Open(k)
      <3>1. bucket'[k] = b /\ \A age \in Ages : charged'[k][age] = c[age]
        BY <2>4 DEF Charge, CountIn, Open
      <3>2. AgesOf(k)' = AgesOf(k) /\ Open(k)' /\ AgesOf(k) \subseteq Ages
        BY <2>4, <3>1 DEF AgesOf, Open
      <3>3. QED BY <2>4, <3>1, <3>2 DEF ChargeInv, OpenBucketsCount
    <2>5. CASE k \notin ks /\ ~Open(k)
      <3>1. bucket'[k] = [count |-> 0, reset |-> 0]
        BY <2>5 DEF Charge, Open, NoBucket
      <3>2. \A age \in Ages : charged'[k][age] = c[age]
        BY <2>5 DEF Charge, CountIn
      <3>3. ~Open(k)'
        BY <3>1, <1>1 DEF Open
      <3>4. QED BY <2>5, <3>2, <3>3, <1>1 DEF ChargeInv, ClosedBucketsFit
    <2>6. QED BY <2>2, <2>3, <2>4, <2>5
  <1>5. QED BY <1>1, <1>2, <1>3, <1>4 DEF ChargeInv, OpenBucketsCount, ClosedBucketsFit

(* A tick: when a bucket closes, all it let through in the last window was *)
(* let through since it was opened.                                        *)
LEMMA ChargeTick ==
  ASSUME ChargeInv, Tick
  PROVE  ChargeInv'
  <1>1. /\ now \in Nat /\ now' = now + 1 /\ now' \in Nat /\ 0 \in Ages
        /\ bucket \in [Keys -> [count: 0 .. Limit, reset: Int]] /\ bucket' = bucket
        /\ charged \in [Keys -> [Ages -> Nat]]
    BY GateAssumption DEF ChargeInv, Ages, Tick
  <1>2. \A k \in Keys : /\ charged'[k][0] = 0
                        /\ \A age \in Ages : age # 0 => charged'[k][age] = charged[k][age - 1]
    BY <1>1 DEF Tick
  <1>3. \A age \in Ages : age = 0 \/ (age \in Nat /\ age - 1 \in Ages)
    BY GateAssumption DEF Ages
  <1>4. charged' \in [Keys -> [Ages -> Nat]]
    <2>1. \A k \in Keys, age \in Ages : (IF age = 0 THEN 0 ELSE charged[k][age - 1]) \in Nat
      BY <1>1, <1>3
    <2>2. QED BY <2>1 DEF Tick
  <1>5. ASSUME NEW k \in Keys
        PROVE  /\ Open(k)' => /\ bucket[k].reset <= now + 1 + LimiterWindow
                              /\ \A age \in AgesOf(k)' : charged'[k][age] <= bucket[k].count
                              /\ \A age \in Ages : charged'[k][age] <= bucket[k].count + Limit
               /\ ~Open(k)' => \A age \in Ages : charged'[k][age] <= Limit
    <2> DEFINE b == bucket[k]
               c == charged[k]
    <2>1. b.count \in 0 .. Limit /\ b.reset \in Int /\ c \in [Ages -> Nat] /\ Limit \in Nat
      BY <1>1, GateAssumption
    <2>2. ASSUME Open(k)'
          PROVE  /\ b.reset <= now + 1 + LimiterWindow
                 /\ \A age \in AgesOf(k)' : charged'[k][age] <= b.count
                 /\ \A age \in Ages : charged'[k][age] <= b.count + Limit
      <3>1. Open(k)
        BY <2>1, <2>2, <1>1 DEF Open
      <3>2. /\ b.reset <= now + LimiterWindow
            /\ \A age \in AgesOf(k) : c[age] <= b.count
            /\ \A age \in Ages : c[age] <= b.count + Limit
        BY <3>1 DEF ChargeInv, OpenBucketsCount
      <3>3. \A age \in AgesOf(k)' : age \in Ages /\ (age = 0 \/ age - 1 \in AgesOf(k))
        BY <1>1, <1>3, <2>1, GateAssumption DEF AgesOf
      <3>4. \A age \in AgesOf(k)' : charged'[k][age] <= b.count
        BY <3>2, <3>3, <1>2, <2>1
      <3>5. \A age \in Ages : charged'[k][age] <= b.count + Limit
        BY <3>2, <1>2, <1>3, <2>1
      <3>6. QED BY <3>2, <3>4, <3>5, <1>1, <2>1, GateAssumption
    <2>3. ASSUME ~Open(k)'
          PROVE  \A age \in Ages : charged'[k][age] <= Limit
      <3>1. \A age \in Ages : c[age] <= Limit
        <4>1. CASE Open(k)
          <5>1. b.reset = now + 1
            <6>1. b.reset > now
              BY <4>1 DEF Open
            <6>2. ~(b.reset > now + 1)
              BY <2>3, <1>1 DEF Open
            <6>3. b.reset \in Int /\ now \in Nat
              BY <2>1, <1>1
            <6>4. QED BY <6>1, <6>2, <6>3
          <5>2. \A age \in Ages : age <= now - (b.reset - LimiterWindow)
            BY <5>1, <1>1, GateAssumption DEF Ages
          <5>3. \A age \in Ages : age \in AgesOf(k)
            BY <5>2 DEF AgesOf
          <5>4. \A age \in Ages : c[age] <= b.count
            BY <4>1, <5>3 DEF ChargeInv, OpenBucketsCount
          <5>5. QED BY <5>4, <1>1, <2>1
        <4>2. CASE ~Open(k)
          BY <4>2 DEF ChargeInv, ClosedBucketsFit
        <4>3. QED BY <4>1, <4>2
      <3>2. QED BY <3>1, <1>2, <1>3, <2>1
    <2>4. QED BY <2>2, <2>3
  <1>6. QED BY <1>1, <1>2, <1>4, <1>5 DEF ChargeInv, OpenBucketsCount, ClosedBucketsFit

LEMMA ChargeInvStep == ChargeInv /\ [GateNext]_gateVars => ChargeInv'
  <1> SUFFICES ASSUME ChargeInv, [GateNext]_gateVars PROVE ChargeInv'
    OBVIOUS
  <1>1. ASSUME UNCHANGED <<now, bucket, charged>>
        PROVE  ChargeInv'
    BY <1>1 DEF ChargeInv, OpenBucketsCount, ClosedBucketsFit, Open, AgesOf
  <1>2. CASE \E r \in Requests, offset \in -Skew .. Skew : Send(r, offset)
    BY <1>1, <1>2 DEF Send
  <1>3. ASSUME NEW h \in Handlers, HandlerStep(h)
        PROVE  ChargeInv'
    <2>1. ASSUME NEW r \in Requests, Receive(h, r)
          PROVE  ChargeInv'
      <3>1. "agent:all" \in Keys /\ Sender[r] \in Keys /\ now' = now
        BY <2>1, GateAssumption DEF Keys, Receive
      <3>2. PICK ks \in SUBSET Keys : (\A k \in ks : HasRoom(k)) /\ Charge(ks)
        BY <2>1, <3>1 DEF Receive
      <3>3. QED BY <3>1, <3>2, ChargeStep
    <2>2. QED BY <1>1, <1>3, <2>1 DEF HandlerStep, Purge, RememberNonce, Apply, Fail
  <1>4. CASE Restart
    <2>1. /\ now' = now
          /\ bucket' = [k \in Keys |-> [count |-> 0, reset |-> 0]]
          /\ charged' = [k \in Keys |-> [age \in Ages |-> 0]]
          /\ now \in Nat /\ 0 \in Ages
      BY <1>4, GateAssumption DEF Restart, NoBucket, ChargeInv, Ages
    <2>2. bucket' \in [Keys -> [count: 0 .. Limit, reset: Int]]
      BY <2>1, GateAssumption
    <2>3. \A k \in Keys : ~Open(k)' /\ \A age \in Ages : charged'[k][age] = 0
      BY <2>1 DEF Open
    <2>4. QED BY <2>1, <2>2, <2>3, GateAssumption
          DEF ChargeInv, OpenBucketsCount, ClosedBucketsFit
  <1>5. CASE Tick
    BY <1>5, ChargeTick
  <1>6. CASE UNCHANGED gateVars
    BY <1>1, <1>6 DEF gateVars
  <1>7. QED BY <1>2, <1>3, <1>4, <1>5, <1>6 DEF GateNext

(* No window of the limiter's length lets more than twice the limit of a   *)
(* bucket through (RateLimiter::check), whatever requests arrive when.     *)
THEOREM LimiterHolds == GateSpec => []ChargesBounded
  <1>1. ChargeInv => ChargesBounded
    <2> SUFFICES ASSUME ChargeInv, NEW k \in Keys
                 PROVE  charged[k][LimiterWindow - 1] <= 2 * Limit
      BY DEF ChargesBounded
    <2>1. /\ LimiterWindow - 1 \in Ages
          /\ bucket[k].count \in 0 .. Limit
          /\ charged[k][LimiterWindow - 1] \in Nat
      BY GateAssumption DEF ChargeInv, Ages
    <2>2. \/ charged[k][LimiterWindow - 1] <= bucket[k].count + Limit
          \/ charged[k][LimiterWindow - 1] <= Limit
      BY <2>1 DEF ChargeInv, OpenBucketsCount, ClosedBucketsFit
    <2>3. QED BY <2>1, <2>2, GateAssumption
  <1>2. QED BY <1>1, ChargeInitInv, ChargeInvStep, PTL DEF GateSpec
=============================================================================
