-------------------------- MODULE SubmitWriteProofs --------------------------
(***************************************************************************)
(* Proofs about SubmitWrite for any tools, plans, keys, calls and bounds:  *)
(* type correctness, the truth of receipts, one order and one fresh        *)
(* success per confirmation, and, when a plan dies before its reservation, *)
(* that late calls send nothing.                                           *)
(*                                                                         *)
(* The ten handlers share few shapes: StepShape says that every step is    *)
(* one of them, and each part of the invariant is shown over the shapes.   *)
(***************************************************************************)
EXTENDS SubmitWrite, TLAPS

USE StoreAssumption, SubmitAssumption, CodesAssumption

Present(p) == plans[p].state # "absent"
Own(c) == calls[c].pc # "idle" /\ calls[c].key = OwnKey[calls[c].plan]
Acked(c) == calls[c].pc = "proving" \/ calls[c].out = "ok"

\* A planned operation; an id without a plan has no confirmation.
PlanInv ==
  \A p \in Plans :
    /\ Present(p) => /\ plans[p].hash \in Hashes
                     /\ plans[p].token <= target
                     /\ plans[p].expires <= now + PlanTTL
    /\ ~Present(p) => confs[p] = NoConfRow

\* What a call has done by where it is.
CallInv ==
  \A c \in Calls :
    /\ calls[c].pc \in {"idle", "checking", "checked", "locating"} => wire[c] = "none"
    /\ c \in InFlight \/ wire[c] # "none" => Present(calls[c].plan)
    /\ calls[c].pc # "done" => calls[c].out = None
    /\ calls[c].pc = "proving" \/ calls[c].out = "ok" => wire[c] = "applied"
    /\ tool = "order" => calls[c].pc \notin {"checking", "checked", "locating", "proving"}

\* Orders spend their confirmation before they are sent, the others once ServiceNow answered.
SpentInv ==
  \A c \in Calls :
    Acked(c) \/ (tool = "order" /\ wire[c] # "none") => confs[calls[c].token].consumed

AckedOnce ==
  \A c, d \in Calls : Acked(c) /\ Acked(d) /\ calls[c].token = calls[d].token => c = d

\* A plan's own key is reserved for longer than the plan lives.
KeyInv ==
  \A p \in Plans :
    /\ Present(p) /\ keys[OwnKey[p]].hash # None => plans[p].expires <= keys[OwnKey[p]].expires
    /\ ~Present(p) /\ tool = "order" => keys[OwnKey[p]].hash = None

\* While the plan lives, a call under its own key holds that reservation, and a request
\* that went out has left its mark there.
MarkInv ==
  \A c \in Calls : Own(c) =>
    LET p == calls[c].plan
        k == calls[c].key
    IN /\ c \in InFlight \/ wire[c] # "none" =>
            plans[p].expires <= now \/ (KeyLive(keys[k], now) /\ keys[k].hash = plans[p].hash)
       /\ calls[c].pc = "locating" \/ wire[c] # "none" => plans[p].expires <= now \/ keys[k].started

\* Hours that were served have made the card newer than their plan.
ServedInv ==
  tool = "hours" => \A c \in Calls : wire[c] = "applied" => plans[calls[c].plan].token < target

\* Where a late call ends.
LateInv ==
  \A c \in Calls : calls[c].late =>
    /\ wire[c] = "none"
    /\ tool # "hours" => calls[c].pc \in {"done", "dropped"}
    /\ tool = "hours" => /\ Present(calls[c].plan)
                         /\ plans[calls[c].plan].token < target
                         /\ calls[c].pc \notin {"locating", "writing", "proving"}
                         /\ calls[c].pc = "checked" => calls[c].seen # plans[calls[c].plan].token

SafeInv == PlanInv /\ CallInv /\ SpentInv /\ AckedOnce /\ OrderedOnce /\ ReceiptBacked
RetryInv == KeyInv /\ MarkInv /\ ServedInv /\ LateInv

-----------------------------------------------------------------------------
(* The shapes of a step. *)

\* A plan handler.
Planned(p, h, a) ==
  /\ NewPlan(p, h, a)
  /\ \/ tool = "order" /\ UNCHANGED <<keys, audit>>
     \/ tool # "order" /\ PlanReserved(p, h, a)

\* An apply may go on under this plan and key.
Open(p, k) ==
  /\ Present(p)
  /\ now < plans[p].expires
  /\ KeyLive(keys[k], now) => /\ keys[k].hash = plans[p].hash
                              /\ tool # "hours" => ~keys[k].started

Spend(x) == Confirmed(x.plan, x.token, x.actor) /\ confs' = [confs EXCEPT ![x.token] = ConsumeRow(@)]

\* An order whose confirmation is spent and whose mark cannot be set.
RefusedSpent(c, x) ==
  /\ tool = "order"
  /\ calls' = [calls EXCEPT ![c] = Finished(x, "INTERNAL")]
  /\ keys' = Reserve(x.key, plans[x.plan].hash)
  /\ Spend(x)
  /\ UNCHANGED <<tool, now, plans, wire, target, audit>>

\* An apply that sends its request at once.
SentAtOnce(c, x) ==
  /\ calls' = [calls EXCEPT ![c] = [x EXCEPT !.pc = "writing"]]
  /\ keys' = [keys EXCEPT ![x.key] =
                MarkApplyStarted(CheckAndRecord(@, plans[x.plan].hash, now))]
  /\ wire' = Post(c)
  /\ \/ tool = "order" /\ Spend(x)
     \/ tool # "order" /\ UNCHANGED confs
  /\ tool # "hours"
  /\ UNCHANGED <<tool, now, plans, target, audit>>

Errors == Codes \ {"ok"}

\* An apply up to its first wait.
Entered(c, p, tok, k, a) ==
  LET x == NewCall(p, tok, k, a) IN
  /\ Sent(c, p, k)
  /\ \/ \E v \in Errors : RefusedAtEntry(c, x, v) /\ (v = "PLAN_EXPIRED" => Present(p))
                          /\ (tool = "hours" /\ ~Present(p) => v = "PLAN_NOT_FOUND")
     \/ Open(p, k) /\ \/ \E v \in Errors : RefusedReserved(c, x, v)
                      \/ RefusedSpent(c, x)
                      \/ tool # "order" /\ GoesToRead(c, x)
                      \/ SentAtOnce(c, x)

\* A later stretch that ends in an error.
Refused(c) == c \in InFlight /\ \E code \in Errors : Refuse(c, code)

\* A stretch that acknowledges the write, or fails on the way.
Settled(c, done) ==
  /\ calls[c].pc \in {"writing", "proving"}
  /\ wire[c] = "applied"
  /\ Settle(c, done)
  /\ \/ (tool = "order" \/ calls[c].pc = "proving") /\ UNCHANGED confs
     \/ /\ tool # "order" /\ calls[c].pc = "writing"
        /\ ConsumeVerdict(confs[calls[c].token], calls[c].actor, HashOf(c), now) = "ok"
        /\ confs' = [confs EXCEPT ![calls[c].token] = ConsumeRow(@)]
  /\ UNCHANGED <<tool, now, wire, target>>

\* A decision that was applied and waits for its evidence.
Deciding(c) ==
  /\ tool # "order"
  /\ calls[c].pc = "writing"
  /\ wire[c] = "applied"
  /\ ConsumeVerdict(confs[calls[c].token], calls[c].actor, HashOf(c), now) = "ok"
  /\ confs' = [confs EXCEPT ![calls[c].token] = ConsumeRow(@)]
  /\ calls' = [calls EXCEPT ![c].pc = "proving"]
  /\ UNCHANGED <<tool, now, plans, keys, wire, target, audit>>

Shaped ==
  \/ \E p \in Plans, h \in Hashes, a \in Actors : Planned(p, h, a)
  \/ \E c \in Calls, p, tok \in Plans, k \in Keys, a \in Actors : Entered(c, p, tok, k, a)
  \/ \E c \in Calls :
       \/ Refused(c)
       \/ SnowReads(c)
       \/ CheckPasses(c)
       \/ SendLocated(c)
       \/ SnowApplies(c)
       \/ SnowRejects(c)
       \/ Deciding(c)
       \/ \E done \in 0..3 : Settled(c, done)
  \/ ForeignEdit
  \/ Tick
  \/ Crash
  \/ UNCHANGED vars


\* Each of the handlers' stretches has one of the shapes.
LEMMA StepShape == TypeOK /\ CallInv /\ [Next]_vars => Shaped
  <1> SUFFICES ASSUME TypeOK, CallInv, [Next]_vars PROVE Shaped
    OBVIOUS
  <1>1. ASSUME NEW p \in Plans, NEW h \in Hashes, NEW a \in Actors,
               PlanOrder(p, h, a) \/ PlanNote(p, h, a) \/ PlanDraft(p, h, a)
                 \/ PlanHours(p, h, a) \/ PlanResourcePlan(p, h, a)
        PROVE  Planned(p, h, a)
    BY <1>1 DEF Planned, PlanOrder, PlanNote, PlanDraft, PlanHours, PlanResourcePlan, PlanReserved
  <1>2. ASSUME NEW c \in Calls, NEW p \in Plans, NEW tok \in Plans, NEW k \in Keys, NEW a \in Actors,
               \/ ApplyNote(c, p, tok, k, a)
               \/ ApplyDraft(c, p, tok, k, a)
               \/ ApplyHours(c, p, tok, k, a)
               \/ ApplyResourcePlan(c, p, tok, k, a)
               \/ ApplyOrder(c, p, tok, k, a)
        PROVE  Entered(c, p, tok, k, a)
    <2> DEFINE x == NewCall(p, tok, k, a)
    <2>0. x.plan = p /\ x.key = k /\ x.token = tok /\ x.actor = a
      BY DEF NewCall
    <2>1. /\ StoredVerdict(p, tok, k, a) \in {None, "IDEMPOTENCY_CONFLICT", "replay", "CONFIRMATION_INVALID"}
          /\ StoredVerdict(p, tok, k, a) = None =>
               (KeyLive(keys[k], now) => keys[k].hash = plans[p].hash)
          /\ StartedVerdict(k) \in {None, "PENDING_RESOLUTION_REQUIRED"}
          /\ StartedVerdict(k) = None /\ KeyLive(keys[k], now) => ~keys[k].started
          /\ ExpiredVerdict(p) \in {None, "PLAN_EXPIRED"}
          /\ ExpiredVerdict(p) = None => now < plans[p].expires
      <3>1. plans[p] \in PlanRow
        BY DEF TypeOK
      <3> QED BY <3>1 DEF StoredVerdict, StartedVerdict, ExpiredVerdict, PlanExpired, TypeOK, PlanRow, Codes
    <2>2. CASE ApplyNote(c, p, tok, k, a)
      <3> DEFINE v == IF plans[p].state = "absent" THEN "PLAN_NOT_FOUND"
                      ELSE First(StoredVerdict(p, tok, k, a), StartedVerdict(k), ExpiredVerdict(p))
      <3>1. v # None => v \in Errors /\ (v = "PLAN_EXPIRED" => Present(p))
        BY <2>1 DEF First, Errors, Codes, Present
      <3>2. v = None => Open(p, k)
        BY <2>1 DEF First, Open, Present, Codes
      <3>3. tool = "note" /\ Sent(c, p, k)
        BY <2>2 DEF ApplyNote
      <3>4. \/ RefusedAtEntry(c, x, v)
            \/ v = None /\ RefusedReserved(c, x, "CONFIRMATION_INVALID")
            \/ v = None /\ GoesToRead(c, x)
        BY <2>2 DEF ApplyNote
      <3>5. RefusedAtEntry(c, x, v) => v # None
        BY DEF RefusedAtEntry
      <3>6. "CONFIRMATION_INVALID" \in Errors
        BY DEF Errors, Codes
      <3> HIDE DEF v, x
      <3> QED BY <3>1, <3>2, <3>3, <3>4, <3>5, <3>6 DEF Entered, x
    <2>3. CASE ApplyDraft(c, p, tok, k, a)
      <3> DEFINE v == IF plans[p].state = "absent" THEN "PLAN_NOT_FOUND"
                      ELSE First(StoredVerdict(p, tok, k, a), StartedVerdict(k), ExpiredVerdict(p))
      <3>1. v # None => v \in Errors /\ (v = "PLAN_EXPIRED" => Present(p))
        BY <2>1 DEF First, Errors, Codes, Present
      <3>2. v = None => Open(p, k)
        BY <2>1 DEF First, Open, Present, Codes
      <3>3. tool = "draft" /\ Sent(c, p, k)
        BY <2>3 DEF ApplyDraft
      <3>4. RefusedAtEntry(c, x, v) \/ (v = None /\ GoesToWrite(c, x))
        BY <2>3 DEF ApplyDraft
      <3>5. RefusedAtEntry(c, x, v) => v # None
        BY DEF RefusedAtEntry
      <3>6. GoesToWrite(c, x) => \/ RefusedReserved(c, x, "CONFIRMATION_INVALID")
                                 \/ RefusedReserved(c, x, "INTERNAL")
                                 \/ SentAtOnce(c, x)
        BY <3>3 DEF GoesToWrite, SentAtOnce
      <3>7. {"CONFIRMATION_INVALID", "INTERNAL"} \subseteq Errors
        BY DEF Errors, Codes
      <3> HIDE DEF v, x
      <3> QED BY <3>1, <3>2, <3>3, <3>4, <3>5, <3>6, <3>7 DEF Entered, x
    <2>4. CASE ApplyHours(c, p, tok, k, a)
      <3> DEFINE v == IF plans[p].state = "absent" THEN "PLAN_NOT_FOUND"
                      ELSE First(StoredVerdict(p, tok, k, a), ExpiredVerdict(p), None)
      <3>1. v # None => /\ v \in Errors /\ (v = "PLAN_EXPIRED" => Present(p))
                        /\ ~Present(p) => v = "PLAN_NOT_FOUND"
        BY <2>1 DEF First, Errors, Codes, Present
      <3>3. tool = "hours" /\ Sent(c, p, k)
        BY <2>4 DEF ApplyHours
      <3>2. v = None => Open(p, k)
        BY <2>1, <3>3 DEF First, Open, Present, Codes
      <3>4. RefusedAtEntry(c, x, v) \/ (v = None /\ GoesToRead(c, x))
        BY <2>4 DEF ApplyHours
      <3>5. RefusedAtEntry(c, x, v) => v # None
        BY DEF RefusedAtEntry
      <3> HIDE DEF v, x
      <3> QED BY <3>1, <3>2, <3>3, <3>4, <3>5 DEF Entered, x
    <2>5. CASE ApplyResourcePlan(c, p, tok, k, a)
      <3> DEFINE v == IF plans[p].state = "absent" THEN "PLAN_NOT_FOUND"
                      ELSE First(ExpiredVerdict(p), StoredVerdict(p, tok, k, a), StartedVerdict(k))
      <3>1. v # None => v \in Errors /\ (v = "PLAN_EXPIRED" => Present(p))
        BY <2>1 DEF First, Errors, Codes, Present
      <3>2. v = None => Open(p, k)
        BY <2>1 DEF First, Open, Present, Codes
      <3>3. tool \in {"plan_create", "plan_update", "plan_decision"} /\ Sent(c, p, k)
        BY <2>5 DEF ApplyResourcePlan
      <3>4. \/ RefusedAtEntry(c, x, v)
            \/ v = None /\ RefusedReserved(c, x, "FIELD_REJECTED")
            \/ v = None /\ (GoesToRead(c, x) \/ GoesToWrite(c, x))
        BY <2>5 DEF ApplyResourcePlan
      <3>5. RefusedAtEntry(c, x, v) => v # None
        BY DEF RefusedAtEntry
      <3>6. GoesToWrite(c, x) => \/ RefusedReserved(c, x, "CONFIRMATION_INVALID")
                                 \/ RefusedReserved(c, x, "INTERNAL")
                                 \/ SentAtOnce(c, x)
        BY <3>3 DEF GoesToWrite, SentAtOnce
      <3>7. {"CONFIRMATION_INVALID", "INTERNAL", "FIELD_REJECTED"} \subseteq Errors
        BY DEF Errors, Codes
      <3> HIDE DEF v, x
      <3> QED BY <3>1, <3>2, <3>3, <3>4, <3>5, <3>6, <3>7 DEF Entered, x
    <2>6. CASE ApplyOrder(c, p, tok, k, a)
      <3> DEFINE v == OrderVerdict(p, tok, k, a)
      <3>1. v # None => v \in Errors /\ (v = "PLAN_EXPIRED" => Present(p))
        BY DEF OrderVerdict, Errors, Codes, Present
      <3>2. v = None => Open(p, k) /\ Confirmed(p, tok, a)
        <4>1. plans[p].expires \in Nat /\ now \in Nat
          BY DEF TypeOK, PlanRow
        <4> QED BY <4>1 DEF OrderVerdict, Open, Present, CheckOutcome, Codes
      <3>3. tool = "order" /\ Sent(c, p, k)
        BY <2>6 DEF ApplyOrder
      <3>4. \/ RefusedAtEntry(c, x, v)
            \/ v = None /\ (OrderSent(c, x) \/ OrderStoreFails(c, x))
        BY <2>6 DEF ApplyOrder
      <3>5. RefusedAtEntry(c, x, v) => v # None
        BY DEF RefusedAtEntry
      <3>6. v = None /\ OrderSent(c, x) => SentAtOnce(c, x)
        BY <2>0, <3>2, <3>3 DEF OrderSent, SentAtOnce, Spend
      <3>7. v = None /\ OrderStoreFails(c, x) => \/ RefusedReserved(c, x, "CONFIRMATION_INVALID")
                                                 \/ RefusedSpent(c, x)
        <4>1. AuditOf(c, "CONFIRMATION_INVALID") = {}
          BY <3>3 DEF AuditOf
        <4>2. audit \cup {} = audit
          OBVIOUS
        <4> HIDE DEF x, v
        <4> QED BY <2>0, <3>2, <3>3, <4>1, <4>2 DEF OrderStoreFails, RefusedReserved, RefusedSpent, Spend
      <3>8. "CONFIRMATION_INVALID" \in Errors
        BY DEF Errors, Codes
      <3> HIDE DEF v, x
      <3> QED BY <3>1, <3>2, <3>3, <3>4, <3>5, <3>6, <3>7, <3>8 DEF Entered, x
    <2> QED BY <1>2, <2>2, <2>3, <2>4, <2>5, <2>6
  <1>3. ASSUME NEW c \in Calls, NEW code \in Codes,
               CheckRefuses(c, code) \/ LocateFails(c, code) \/ WriteFails(c, code)
        PROVE  Refused(c)
    <2>1. c \in InFlight /\ Refuse(c, code)
      BY <1>3 DEF InFlight, CheckRefuses, LocateFails, WriteFails
    <2>2. code \in Errors
      BY <1>3 DEF Errors, Codes, CheckRefuses, LocateFails, WriteFails
    <2> QED BY <2>1, <2>2 DEF Refused
  <1>4. ASSUME NEW c \in Calls, NEW done \in 0..3, OrderOk(c, done)
        PROVE  Settled(c, done)
    BY <1>4 DEF OrderOk, Settled
  <1>5. ASSUME NEW c \in Calls, NEW done \in 0..3, WriteOk(c, done)
        PROVE  Refused(c) \/ Settled(c, done) \/ Deciding(c)
    <2>1. "CONFIRMATION_INVALID" \in Errors /\ c \in InFlight
      BY <1>5 DEF Errors, Codes, InFlight, WriteOk
    <2>2. CASE Refuse(c, "CONFIRMATION_INVALID")
      BY <2>1, <2>2 DEF Refused
    <2>3. CASE ~Refuse(c, "CONFIRMATION_INVALID") /\ tool = "plan_decision"
      BY <1>5, <2>3 DEF WriteOk, Deciding
    <2>4. CASE ~Refuse(c, "CONFIRMATION_INVALID") /\ tool # "plan_decision"
      BY <1>5, <2>4 DEF WriteOk, Settled
    <2> QED BY <2>2, <2>3, <2>4
  <1>6. ASSUME NEW c \in Calls, NEW done \in 0..3, Proved(c, done)
        PROVE  Settled(c, done)
    BY <1>6 DEF Proved, Settled, CallInv
  <1> QED BY <1>1, <1>2, <1>3, <1>4, <1>5, <1>6, ZenonT(60) DEF Next, Shaped

-----------------------------------------------------------------------------
(* Type correctness. *)

\* Empty stores have their types.
LEMMA InitType == Init => TypeOK
  <1> SUFFICES ASSUME Init PROVE TypeOK
    OBVIOUS
  <1>1. NoPlanRow \in PlanRow /\ NoConfRow \in ConfRow /\ NoKeyRow \in KeyRow(Calls)
    BY DEF NoPlanRow, PlanRow, NoConfRow, ConfRow, NoKeyRow, KeyRow
  <1> QED BY <1>1 DEF Init, TypeOK

\* A call that was made has its arguments.
LEMMA MadeTypes ==
  ASSUME TypeOK, NEW c \in Calls, calls[c].pc # "idle"
  PROVE  /\ calls[c] \in MadeCall
         /\ calls[c].key \in Keys /\ calls[c].plan \in Plans /\ calls[c].token \in Plans
         /\ plans[calls[c].plan] \in PlanRow
         /\ confs[calls[c].token] \in ConfRow
         /\ keys[calls[c].key] \in KeyRow(Calls)
  <1>1. calls[c] \in MadeCall
    BY DEF TypeOK, NoCall
  <1>2. calls[c].key \in Keys /\ calls[c].plan \in Plans /\ calls[c].token \in Plans
    BY <1>1 DEF MadeCall
  <1> QED BY <1>1, <1>2 DEF TypeOK

\* The audit rows of an answer.
LEMMA AuditTypes ==
  ASSUME TypeOK, NEW c \in Calls, NEW code
  PROVE  audit \cup AuditOf(c, code) \subseteq (Calls \cup Plans) \X {"plan", "denied", "error", "consumed", "applied"}
  BY DEF AuditOf, TypeOK

\* Every step keeps the types.
LEMMA StepTypeShaped == TypeOK /\ Shaped => TypeOK'
  <1> SUFFICES ASSUME TypeOK, Shaped PROVE TypeOK'
    OBVIOUS
  <1>1. ASSUME NEW p \in Plans, NEW h \in Hashes, NEW a \in Actors, Planned(p, h, a)
        PROVE  TypeOK'
    <2>1. /\ PutPlan(h, target, now) \in PlanRow /\ IssueConfirmation(h, a, now) \in ConfRow
          /\ CheckAndRecord(keys[OwnKey[p]], h, now) \in KeyRow(Calls)
      <3>1. plans[p] \in PlanRow /\ confs[p] \in ConfRow /\ keys[OwnKey[p]] \in KeyRow(Calls)
        BY DEF TypeOK
      <3>2. target \in Nat /\ now \in Nat
        BY DEF TypeOK
      <3>3. PutPlan(h, target, now) \in PlanRow
        BY <3>2 DEF PutPlan, PlanRow
      <3>4. now + PlanTTL \in Nat
        BY <3>2
      <3>5. IssueConfirmation(h, a, now) \in ConfRow
        BY <3>4, Zenon DEF ConfRow, IssueConfirmation
      <3>6. CheckAndRecord(keys[OwnKey[p]], h, now) \in KeyRow(Calls)
        BY <3>1, <3>2 DEF CheckAndRecord, KeyRow
      <3> QED BY <3>3, <3>5, <3>6
    <2> QED BY <1>1, <2>1 DEF Planned, NewPlan, PlanReserved, Reserve, TypeOK
  <1>2. ASSUME NEW c \in Calls, NEW p \in Plans, NEW tok \in Plans, NEW k \in Keys, NEW a \in Actors,
               Entered(c, p, tok, k, a)
        PROVE  TypeOK'
    <2> DEFINE x == NewCall(p, tok, k, a)
               row == CheckAndRecord(keys[k], plans[p].hash, now)
    <2>1. x \in MadeCall /\ x.plan = p /\ x.key = k /\ x.token = tok
      <3>1. Late(p, k) \in BOOLEAN
        BY DEF Late
      <3> HIDE DEF Late
      <3> QED BY <3>1, Zenon DEF NewCall, MadeCall
    <2>2. /\ row \in KeyRow(Calls)
          /\ MarkApplyStarted(row) \in KeyRow(Calls)
          /\ MarkPlanExpired(plans[p]) \in PlanRow
          /\ ConsumeRow(confs[tok]) \in ConfRow
      <3>1. plans[p] \in PlanRow /\ confs[tok] \in ConfRow /\ keys[k] \in KeyRow(Calls) /\ now \in Nat
        BY DEF TypeOK
      <3>2. plans[p].hash \in Hashes \cup {None}
        BY <3>1 DEF PlanRow
      <3>3. row \in KeyRow(Calls)
        BY <3>1, <3>2 DEF CheckAndRecord, KeyRow
      <3>4. MarkApplyStarted(row) \in KeyRow(Calls)
        BY <3>3 DEF MarkApplyStarted, KeyRow
      <3>5. MarkPlanExpired(plans[p]) \in PlanRow
        BY <3>1 DEF MarkPlanExpired, PlanRow
      <3>6. ConsumeRow(confs[tok]) \in ConfRow
        BY <3>1, Zenon DEF ConfRow, ConsumeRow
      <3> QED BY <3>3, <3>4, <3>5, <3>6
    <2>3. \A v \in Errors : Finished(x, v) \in MadeCall
      BY <2>1 DEF Finished, MadeCall, Errors
    <2>4. [x EXCEPT !.pc = "writing"] \in MadeCall
      BY <2>1 DEF MadeCall
    <2>5. "INTERNAL" \in Errors
      BY DEF Errors, Codes
    <2> HIDE DEF x, row
    <2>6. ASSUME NEW v \in Errors, RefusedAtEntry(c, x, v) PROVE TypeOK'
      BY <2>1, <2>2, <2>3, <2>6, AuditTypes DEF RefusedAtEntry, TypeOK
    <2>7. ASSUME NEW v \in Errors, RefusedReserved(c, x, v) PROVE TypeOK'
      BY <2>1, <2>2, <2>3, <2>7, AuditTypes DEF RefusedReserved, Reserve, TypeOK, row
    <2>8. CASE RefusedSpent(c, x)
      BY <2>1, <2>2, <2>3, <2>5, <2>8 DEF RefusedSpent, Spend, Reserve, TypeOK, row
    <2>9. CASE GoesToRead(c, x)
      BY <2>1, <2>2, <2>9 DEF GoesToRead, Reserve, TypeOK, row
    <2>10. CASE SentAtOnce(c, x)
      BY <2>1, <2>2, <2>4, <2>10 DEF SentAtOnce, Spend, Post, TypeOK, row
    <2> QED BY <1>2, <2>6, <2>7, <2>8, <2>9, <2>10 DEF Entered, x
  <1>3. ASSUME NEW c \in Calls, calls[c].pc # "idle",
               \/ Refused(c) \/ SnowReads(c) \/ CheckPasses(c) \/ SendLocated(c) \/ Deciding(c)
               \/ \E done \in 0..3 : Settled(c, done)
        PROVE  TypeOK'
    <2>1. /\ calls[c] \in MadeCall
          /\ calls[c].key \in Keys /\ calls[c].plan \in Plans /\ calls[c].token \in Plans
          /\ plans[calls[c].plan] \in PlanRow
          /\ confs[calls[c].token] \in ConfRow
          /\ keys[calls[c].key] \in KeyRow(Calls)
      BY <1>3, MadeTypes
    <2>2. /\ \A code \in Codes : [calls[c] EXCEPT !.pc = "done", !.out = code] \in MadeCall
          /\ \A pc \in {"locating", "writing", "proving"} : /\ [calls[c] EXCEPT !.pc = pc] \in MadeCall
                                                           /\ [calls[c] EXCEPT !.pc = pc, !.seen = None] \in MadeCall
          /\ \A s \in {target, None} : [calls[c] EXCEPT !.pc = "checked", !.seen = s] \in MadeCall
      <3>1. target \in Nat
        BY DEF TypeOK
      <3> QED BY <2>1, <3>1 DEF MadeCall
    <2>3. /\ ConsumeRow(confs[calls[c].token]) \in ConfRow
          /\ MarkApplyStarted(keys[calls[c].key]) \in KeyRow(Calls)
          /\ SaveReceipt(keys[calls[c].key], c) \in KeyRow(Calls)
          /\ MarkPlanConsumed(plans[calls[c].plan]) \in PlanRow
      <3>1. ConsumeRow(confs[calls[c].token]) \in ConfRow
        BY <2>1, Zenon DEF ConfRow, ConsumeRow
      <3>2. /\ MarkApplyStarted(keys[calls[c].key]) \in KeyRow(Calls)
            /\ SaveReceipt(keys[calls[c].key], c) \in KeyRow(Calls)
        BY <2>1 DEF MarkApplyStarted, SaveReceipt, KeyRow
      <3>3. MarkPlanConsumed(plans[calls[c].plan]) \in PlanRow
        BY <2>1 DEF MarkPlanConsumed, PlanRow
      <3> QED BY <3>1, <3>2, <3>3
    <2>4. CASE Refused(c)
      <3>1. PICK code \in Errors : Refuse(c, code)
        BY <2>4 DEF Refused
      <3>2. code \in Codes
        BY <3>1 DEF Errors
      <3> QED BY <2>2, <3>1, <3>2, AuditTypes DEF Refuse, Answer, TypeOK
    <2>5. CASE SnowReads(c)
      <3>1. PICK s \in {target, None} : calls' = [calls EXCEPT ![c].pc = "checked", ![c].seen = s]
        BY <2>5 DEF SnowReads
      <3>2. [calls[c] EXCEPT !.pc = "checked", !.seen = s] \in MadeCall
        BY <2>2
      <3>3. calls' \in [Calls -> {NoCall} \cup MadeCall]
        BY <3>1, <3>2 DEF TypeOK
      <3> QED BY <2>5, <3>3 DEF SnowReads, TypeOK
    <2>6. CASE CheckPasses(c)
      <3>1. keys' \in [Keys -> KeyRow(Calls)] /\ UNCHANGED <<tool, now, plans, confs, target, audit>>
        BY <2>1, <2>3, <2>6 DEF CheckPasses, Started, TypeOK
      <3>2. calls' \in [Calls -> {NoCall} \cup MadeCall]
        BY <2>2, <2>6 DEF CheckPasses, TypeOK
      <3>3. wire' \in [Calls -> {"none", "posted", "applied", "rejected"}]
        BY <2>6 DEF CheckPasses, Post, TypeOK
      <3> QED BY <3>1, <3>2, <3>3 DEF TypeOK
    <2>7. CASE SendLocated(c)
      BY <2>2, <2>7 DEF SendLocated, Post, TypeOK
    <2>8. CASE Deciding(c)
      BY <2>1, <2>2, <2>3, <2>8 DEF Deciding, TypeOK
    <2>9. ASSUME NEW done \in 0..3, Settled(c, done) PROVE TypeOK'
      <3>1. {"ok", "INTERNAL"} \subseteq Codes
        BY DEF Codes
      <3>2. calls' \in [Calls -> {NoCall} \cup MadeCall]
        BY <2>2, <2>9, <3>1 DEF Settled, Settle, Answer, TypeOK
      <3>3. keys' \in [Keys -> KeyRow(Calls)] /\ plans' \in [Plans -> PlanRow] /\ confs' \in [Plans -> ConfRow]
        BY <2>1, <2>3, <2>9 DEF Settled, Settle, TypeOK
      <3>4. audit' \subseteq (Calls \cup Plans) \X {"plan", "denied", "error", "consumed", "applied"}
        BY <2>9 DEF Settled, Settle, TypeOK
      <3> QED BY <2>9, <3>2, <3>3, <3>4 DEF Settled, TypeOK
    <2> QED BY <1>3, <2>4, <2>5, <2>6, <2>7, <2>8, <2>9
  <1>4. ASSUME NEW c \in Calls, SnowApplies(c) \/ SnowRejects(c) PROVE TypeOK'
    BY <1>4 DEF SnowApplies, SnowRejects, TypeOK
  <1>5. CASE ForeignEdit \/ Tick
    BY <1>5 DEF ForeignEdit, Tick, TypeOK
  <1>6. CASE Crash
    <2>1. \A c \in InFlight : calls[c] \in MadeCall
      BY DEF InFlight, TypeOK, NoCall
    <2> QED BY <1>6, <2>1 DEF Crash, TypeOK, MadeCall
  <1>7. CASE UNCHANGED vars
    BY <1>7 DEF vars, TypeOK
  <1>8. \A c \in Calls : \/ Refused(c) \/ SnowReads(c) \/ CheckPasses(c) \/ SendLocated(c) \/ Deciding(c)
                         \/ \E done \in 0..3 : Settled(c, done)
                         => calls[c].pc # "idle"
    BY DEF Refused, InFlight, SnowReads, CheckPasses, SendLocated, Deciding, Settled
  <1> QED BY <1>1, <1>2, <1>3, <1>4, <1>5, <1>6, <1>7, <1>8 DEF Shaped

-----------------------------------------------------------------------------
(* What no step takes back. *)

\* Plans keep what they were made for, confirmations stay spent, calls keep their
\* arguments, and what was sent or served stays so.
Kept ==
  /\ tool' = tool
  /\ now <= now' /\ target <= target'
  /\ audit \subseteq audit'
  /\ \A p \in Plans : Present(p) => /\ plans'[p].state # "absent"
                                    /\ plans'[p].hash = plans[p].hash
                                    /\ plans'[p].token = plans[p].token
                                    /\ plans'[p].expires = plans[p].expires
  /\ \A p \in Plans : confs[p].consumed => confs'[p].consumed
  /\ \A c \in Calls :
       /\ calls[c].pc # "idle" => /\ calls'[c].pc # "idle"
                                  /\ calls'[c].plan = calls[c].plan
                                  /\ calls'[c].token = calls[c].token
                                  /\ calls'[c].key = calls[c].key
                                  /\ calls'[c].late = calls[c].late
       /\ wire[c] = "applied" => wire'[c] = "applied"
       /\ wire[c] # "none" => wire'[c] # "none"

\* The step of a call leaves the others alone.
Others(c) == \A d \in Calls : d # c => calls'[d] = calls[d] /\ wire'[d] = wire[d]

\* plan_store.rs, confirmation.rs: marks keep the rest of the row.
LEMMA RowKept ==
  ASSUME NEW pr \in PlanRow, NEW cr \in ConfRow
  PROVE  /\ MarkPlanConsumed(pr).state = "consumed" /\ MarkPlanConsumed(pr).hash = pr.hash
         /\ MarkPlanConsumed(pr).token = pr.token /\ MarkPlanConsumed(pr).expires = pr.expires
         /\ MarkPlanExpired(pr).state \in {"consumed", "expired"} /\ MarkPlanExpired(pr).hash = pr.hash
         /\ MarkPlanExpired(pr).token = pr.token /\ MarkPlanExpired(pr).expires = pr.expires
         /\ ConsumeRow(cr).consumed /\ ConsumeRow(cr).hash = cr.hash
  <1>1. ConsumeRow(cr).consumed /\ ConsumeRow(cr).hash = cr.hash
    BY Zenon DEF ConsumeRow, ConfRow
  <1> QED BY <1>1 DEF MarkPlanConsumed, MarkPlanExpired, PlanRow

\* An apply changes its own call only.
LEMMA EntryFrame ==
  ASSUME TypeOK, PlanInv, CallInv, NEW c \in Calls, NEW p \in Plans, NEW tok \in Plans, NEW k \in Keys,
         NEW a \in Actors, Entered(c, p, tok, k, a)
  PROVE  /\ calls[c].pc = "idle" /\ wire[c] = "none"
         /\ calls'[c].plan = p /\ calls'[c].token = tok /\ calls'[c].key = k
         /\ calls'[c].late = Late(p, k) /\ calls'[c].seen = None
         /\ Others(c)
         /\ tool' = tool /\ now' = now /\ target' = target
         /\ audit \subseteq audit'
         /\ \A q \in Plans : /\ Present(q) <=> plans'[q].state # "absent"
                             /\ plans'[q].hash = plans[q].hash
                             /\ plans'[q].token = plans[q].token
                             /\ plans'[q].expires = plans[q].expires
         /\ \A q \in Plans : confs'[q] = confs[q] \/ (Present(q) /\ confs'[q].consumed)
         /\ calls'[c].pc \in {"done", "checking", "writing"}
         /\ calls'[c].pc # "done" => Open(p, k) /\ calls'[c].out = None
         /\ calls'[c].pc = "checking" => tool # "order" /\ wire'[c] = "none"
         /\ calls'[c].pc = "writing" => /\ wire'[c] = "posted" /\ tool # "hours"
                                        /\ tool = "order" => ~confs[tok].consumed /\ confs'[tok].consumed
         /\ calls'[c].pc = "done" => wire'[c] = "none" /\ calls'[c].out \in Errors
  <1> DEFINE x == NewCall(p, tok, k, a)
  <1>1. /\ x.plan = p /\ x.key = k /\ x.token = tok /\ x.actor = a /\ x.late = Late(p, k)
        /\ x.seen = None /\ x.out = None /\ x.pc = "checking"
        /\ DOMAIN x = {"pc", "plan", "token", "key", "actor", "late", "seen", "out"}
    BY DEF NewCall
  <1>2. calls[c].pc = "idle" /\ wire[c] = "none"
    BY DEF Entered, Sent, CallInv
  <1>3. /\ \A v : /\ Finished(x, v).plan = p /\ Finished(x, v).token = tok /\ Finished(x, v).key = k
                  /\ Finished(x, v).late = Late(p, k) /\ Finished(x, v).pc = "done"
                  /\ Finished(x, v).out = v /\ Finished(x, v).seen = None
        /\ LET y == [x EXCEPT !.pc = "writing"] IN
             /\ y.plan = p /\ y.token = tok /\ y.key = k /\ y.late = Late(p, k) /\ y.pc = "writing"
             /\ y.out = None /\ y.seen = None
    BY <1>1 DEF Finished
  <1>4. \A q \in Plans : plans[q] \in PlanRow /\ confs[q] \in ConfRow
    BY DEF TypeOK
  <1>5. Confirmed(p, tok, a) => Present(tok) /\ ~confs[tok].consumed
    BY DEF Confirmed, ConfirmationVerdict, BindingVerdict, PlanInv, NoConfRow
  <1>6. ConsumeRow(confs[tok]).consumed
    BY <1>4, RowKept
  <1>7. "INTERNAL" \in Errors
    BY DEF Errors, Codes
  <1> HIDE DEF x
  <1>8. ASSUME NEW v \in Errors, RefusedAtEntry(c, x, v), v = "PLAN_EXPIRED" => Present(p)
        PROVE  /\ calls' = [calls EXCEPT ![c] = Finished(x, v)]
               /\ UNCHANGED <<tool, now, target, wire, confs>> /\ audit \subseteq audit'
               /\ \A q \in Plans : /\ Present(q) <=> plans'[q].state # "absent"
                                   /\ plans'[q].hash = plans[q].hash
                                   /\ plans'[q].token = plans[q].token
                                   /\ plans'[q].expires = plans[q].expires
    BY <1>1, <1>4, <1>8, RowKept DEF RefusedAtEntry, TypeOK, Present
  <1>9. ASSUME NEW v \in Errors, RefusedAtEntry(c, x, v), v = "PLAN_EXPIRED" => Present(p)
        PROVE  calls'[c] = Finished(x, v) /\ wire' = wire /\ Others(c)
    BY <1>8, <1>9 DEF TypeOK, Others
  <1>10. ASSUME NEW v \in Errors, RefusedReserved(c, x, v) \/ (v = "INTERNAL" /\ RefusedSpent(c, x))
         PROVE  /\ calls'[c] = Finished(x, v) /\ wire' = wire /\ Others(c)
                /\ UNCHANGED <<tool, now, target, plans>> /\ audit \subseteq audit'
                /\ \A q \in Plans : confs'[q] = confs[q] \/ (Present(q) /\ confs'[q].consumed)
    BY <1>1, <1>5, <1>6, <1>10 DEF RefusedReserved, RefusedSpent, Spend, TypeOK, Others
  <1>11. CASE \E v \in Errors : RefusedAtEntry(c, x, v) /\ (v = "PLAN_EXPIRED" => Present(p))
    <2>1. PICK v \in Errors : RefusedAtEntry(c, x, v) /\ (v = "PLAN_EXPIRED" => Present(p))
      BY <1>11
    <2>2. /\ calls'[c] = Finished(x, v) /\ wire' = wire /\ Others(c)
          /\ UNCHANGED <<tool, now, target, confs>> /\ audit \subseteq audit'
          /\ \A q \in Plans : /\ Present(q) <=> plans'[q].state # "absent"
                              /\ plans'[q].hash = plans[q].hash
                              /\ plans'[q].token = plans[q].token
                              /\ plans'[q].expires = plans[q].expires
      BY <1>8, <1>9, <2>1
    <2> QED BY <1>2, <1>3, <2>2
  <1>12. CASE \E v \in Errors : RefusedReserved(c, x, v) \/ (v = "INTERNAL" /\ RefusedSpent(c, x))
    <2>1. PICK v \in Errors : RefusedReserved(c, x, v) \/ (v = "INTERNAL" /\ RefusedSpent(c, x))
      BY <1>12
    <2>2. /\ calls'[c] = Finished(x, v) /\ wire' = wire /\ Others(c)
          /\ UNCHANGED <<tool, now, target, plans>> /\ audit \subseteq audit'
          /\ \A q \in Plans : confs'[q] = confs[q] \/ (Present(q) /\ confs'[q].consumed)
      BY <1>10, <2>1
    <2> QED BY <1>2, <1>3, <2>2 DEF Present
  <1>13. CASE Open(p, k) /\ tool # "order" /\ GoesToRead(c, x)
    <2>1. calls'[c] = x /\ wire' = wire /\ Others(c) /\ UNCHANGED <<tool, now, target, plans, confs, audit>>
      BY <1>13 DEF GoesToRead, TypeOK, Others
    <2> QED BY <1>1, <1>2, <1>13, <2>1 DEF Present
  <1>14. CASE Open(p, k) /\ SentAtOnce(c, x)
    <2>1. /\ calls'[c] = [x EXCEPT !.pc = "writing"] /\ wire'[c] = "posted" /\ Others(c)
          /\ UNCHANGED <<tool, now, target, plans, audit>> /\ tool # "hours"
      BY <1>14 DEF SentAtOnce, Post, TypeOK, Others
    <2>2. tool = "order" => /\ Confirmed(p, tok, a)
                            /\ confs' = [confs EXCEPT ![tok] = ConsumeRow(@)]
      BY <1>1, <1>14 DEF SentAtOnce, Spend
    <2>3. tool # "order" => confs' = confs
      BY <1>14 DEF SentAtOnce
    <2>4. \A q \in Plans : confs'[q] = confs[q] \/ (Present(q) /\ confs'[q].consumed)
      BY <1>5, <1>6, <2>2, <2>3 DEF TypeOK
    <2>5. tool = "order" => ~confs[tok].consumed /\ confs'[tok].consumed
      BY <1>5, <1>6, <2>2 DEF TypeOK
    <2> QED BY <1>2, <1>3, <1>14, <2>1, <2>4, <2>5 DEF Present
  <1>15. \/ \E v \in Errors : RefusedAtEntry(c, x, v) /\ (v = "PLAN_EXPIRED" => Present(p))
         \/ Open(p, k) /\ \/ \E v \in Errors : RefusedReserved(c, x, v)
                          \/ RefusedSpent(c, x)
                          \/ tool # "order" /\ GoesToRead(c, x)
                          \/ SentAtOnce(c, x)
    BY DEF Entered, x
  <1> QED BY <1>7, <1>11, <1>12, <1>13, <1>14, <1>15

\* A planning call adds its plan and changes no other row.
LEMMA PlanFrame ==
  ASSUME TypeOK, NEW p \in Plans, NEW h \in Hashes, NEW a \in Actors, Planned(p, h, a)
  PROVE  /\ plans[p].state = "absent"
         /\ plans'[p] = PutPlan(h, target, now)
         /\ ~confs'[p].consumed
         /\ \A q \in Plans : q # p => plans'[q] = plans[q] /\ confs'[q] = confs[q]
         /\ UNCHANGED <<tool, now, calls, wire, target>>
         /\ audit \subseteq audit'
         /\ \A k \in Keys : k # OwnKey[p] => keys'[k] = keys[k]
         /\ tool = "order" => keys' = keys
         /\ tool # "order" => /\ ~KeyLive(keys[OwnKey[p]], now)
                              /\ keys'[OwnKey[p]] = [hash |-> h, receipt |-> None, started |-> FALSE,
                                                     expires |-> now + Window]
  <1>1. NewPlan(p, h, a)
    BY DEF Planned
  <1>2. /\ plans[p].state = "absent" /\ plans'[p] = PutPlan(h, target, now)
        /\ ~confs'[p].consumed
        /\ \A q \in Plans : q # p => plans'[q] = plans[q] /\ confs'[q] = confs[q]
        /\ UNCHANGED <<tool, now, calls, wire, target>>
    BY <1>1 DEF NewPlan, TypeOK, IssueConfirmation
  <1>3. CASE tool = "order"
    <2>1. keys' = keys /\ audit' = audit
      BY <1>3 DEF Planned
    <2> QED BY <1>2, <1>3, <2>1
  <1>4. CASE tool # "order"
    <2>1. /\ CheckOutcome(keys[OwnKey[p]], h, now) = "NewKey"
          /\ keys' = [keys EXCEPT ![OwnKey[p]] = CheckAndRecord(@, h, now)]
          /\ audit \subseteq audit'
      BY <1>4 DEF Planned, PlanReserved, Reserve
    <2>2. ~KeyLive(keys[OwnKey[p]], now)
      BY <2>1 DEF CheckOutcome
    <2>3. OwnKey[p] \in Keys
      OBVIOUS
    <2> QED BY <1>2, <1>4, <2>1, <2>2, <2>3 DEF CheckAndRecord, TypeOK
  <1> QED BY <1>3, <1>4

\* The stretches after a wait.
Later(c) ==
  \/ Refused(c) \/ SnowReads(c) \/ CheckPasses(c) \/ SendLocated(c) \/ Deciding(c)
  \/ \E done \in 0..3 : Settled(c, done)

\* A later stretch belongs to a call in flight, changes that call only, and spends no
\* confirmation but its own.
LEMMA LaterFrame ==
  ASSUME TypeOK, PlanInv, CallInv, NEW c \in Calls, Later(c)
  PROVE  /\ c \in InFlight
         /\ calls'[c].pc \in {"checked", "locating", "writing", "proving", "done"}
         /\ calls'[c].plan = calls[c].plan /\ calls'[c].token = calls[c].token
         /\ calls'[c].key = calls[c].key /\ calls'[c].late = calls[c].late
         /\ Others(c)
         /\ UNCHANGED <<tool, now, target>>
         /\ audit \subseteq audit'
         /\ \A q \in Plans : /\ Present(q) <=> plans'[q].state # "absent"
                             /\ plans'[q].hash = plans[q].hash
                             /\ plans'[q].token = plans[q].token
                             /\ plans'[q].expires = plans[q].expires
         /\ \A q \in Plans : confs'[q] = confs[q] \/ (Present(q) /\ confs'[q].consumed)
         /\ wire'[c] \in {wire[c], "posted"}
         /\ wire'[c] # wire[c] => wire[c] = "none" /\ calls'[c].pc = "writing"
  <1>1. c \in InFlight
    BY DEF Later, Refused, InFlight, SnowReads, CheckPasses, SendLocated, Deciding, Settled
  <1>2. /\ calls[c] \in MadeCall
        /\ calls[c].key \in Keys /\ calls[c].plan \in Plans /\ calls[c].token \in Plans
        /\ Present(calls[c].plan)
    BY <1>1, MadeTypes DEF InFlight, CallInv
  <1>3. \A q \in Plans : plans[q] \in PlanRow /\ confs[q] \in ConfRow
    BY DEF TypeOK
  <1>4. ASSUME ConsumeVerdict(confs[calls[c].token], calls[c].actor, HashOf(c), now) = "ok"
        PROVE  Present(calls[c].token)
    BY <1>2, <1>4 DEF ConsumeVerdict, BindingVerdict, PlanInv, NoConfRow
  <1>5. CASE Refused(c)
    <2>1. PICK code \in Errors : Refuse(c, code)
      BY <1>5 DEF Refused
    <2>2. /\ calls' = [calls EXCEPT ![c].pc = "done", ![c].out = code]
          /\ UNCHANGED <<tool, now, plans, confs, keys, wire, target>> /\ audit \subseteq audit'
      BY <2>1 DEF Refuse, Answer
    <2> QED BY <1>1, <1>2, <2>2 DEF TypeOK, MadeCall, Others, Present
  <1>6. CASE SnowReads(c)
    <2>1. PICK s \in {target, None} : calls' = [calls EXCEPT ![c].pc = "checked", ![c].seen = s]
      BY <1>6 DEF SnowReads
    <2>2. UNCHANGED <<tool, now, plans, confs, keys, wire, target, audit>>
      BY <1>6 DEF SnowReads
    <2> QED BY <1>1, <1>2, <2>1, <2>2 DEF TypeOK, MadeCall, Others, Present
  <1>7. CASE CheckPasses(c)
    <2>1. /\ calls[c].pc = "checked" /\ UNCHANGED <<tool, now, plans, confs, target, audit>>
          /\ \/ calls' = [calls EXCEPT ![c].pc = "locating", ![c].seen = None] /\ wire' = wire
             \/ calls' = [calls EXCEPT ![c].pc = "writing", ![c].seen = None] /\ wire' = [wire EXCEPT ![c] = "posted"]
      BY <1>7 DEF CheckPasses, Post
    <2>2. wire[c] = "none"
      BY <2>1 DEF CallInv
    <2> QED BY <1>1, <1>2, <2>1, <2>2 DEF TypeOK, MadeCall, Others, Present
  <1>8. CASE SendLocated(c)
    <2>1. /\ calls[c].pc = "locating" /\ UNCHANGED <<tool, now, plans, confs, keys, target, audit>>
          /\ calls' = [calls EXCEPT ![c].pc = "writing"] /\ wire' = [wire EXCEPT ![c] = "posted"]
      BY <1>8 DEF SendLocated, Post
    <2>2. wire[c] = "none"
      BY <2>1 DEF CallInv
    <2> QED BY <1>1, <1>2, <2>1, <2>2 DEF TypeOK, MadeCall, Others, Present
  <1>9. CASE Deciding(c)
    <2>1. /\ calls' = [calls EXCEPT ![c].pc = "proving"]
          /\ confs' = [confs EXCEPT ![calls[c].token] = ConsumeRow(@)]
          /\ UNCHANGED <<tool, now, plans, keys, wire, target, audit>>
      BY <1>9 DEF Deciding
    <2>2. Present(calls[c].token)
      BY <1>4, <1>9 DEF Deciding
    <2>3. \A q \in Plans : confs'[q] = confs[q] \/ (Present(q) /\ confs'[q].consumed)
      BY <1>2, <1>3, <2>1, <2>2, RowKept DEF TypeOK
    <2> QED BY <1>1, <1>2, <2>1, <2>3 DEF TypeOK, MadeCall, Others, Present
  <1>10. ASSUME NEW done \in 0..3, Settled(c, done)
         PROVE  /\ calls'[c].pc = "done"
                /\ calls'[c].plan = calls[c].plan /\ calls'[c].token = calls[c].token
                /\ calls'[c].key = calls[c].key /\ calls'[c].late = calls[c].late
                /\ Others(c)
                /\ UNCHANGED <<tool, now, target, wire>>
                /\ audit \subseteq audit'
                /\ \A q \in Plans : /\ Present(q) <=> plans'[q].state # "absent"
                                    /\ plans'[q].hash = plans[q].hash
                                    /\ plans'[q].token = plans[q].token
                                    /\ plans'[q].expires = plans[q].expires
                /\ \A q \in Plans : confs'[q] = confs[q] \/ (Present(q) /\ confs'[q].consumed)
    <2>1. /\ \E code \in Codes : calls' = [calls EXCEPT ![c].pc = "done", ![c].out = code]
          /\ UNCHANGED <<tool, now, target, wire>> /\ audit \subseteq audit'
      BY <1>10 DEF Settled, Settle, Answer, Codes
    <2>2. plans' = plans \/ plans' = [plans EXCEPT ![calls[c].plan] = MarkPlanConsumed(@)]
      BY <1>10 DEF Settled, Settle
    <2>3. \A q \in Plans : /\ Present(q) <=> plans'[q].state # "absent"
                           /\ plans'[q].hash = plans[q].hash
                           /\ plans'[q].token = plans[q].token
                           /\ plans'[q].expires = plans[q].expires
      BY <1>2, <1>3, <2>2, RowKept, SMTT(30) DEF TypeOK, Present
    <2>4. \A q \in Plans : confs'[q] = confs[q] \/ (Present(q) /\ confs'[q].consumed)
      <3>1. CASE confs' = confs
        BY <3>1
      <3>2. CASE confs' # confs
        <4>1. /\ ConsumeVerdict(confs[calls[c].token], calls[c].actor, HashOf(c), now) = "ok"
              /\ confs' = [confs EXCEPT ![calls[c].token] = ConsumeRow(@)]
          BY <1>10, <3>2 DEF Settled
        <4> QED BY <1>2, <1>3, <1>4, <4>1, RowKept DEF TypeOK
      <3> QED BY <3>1, <3>2
    <2> QED BY <1>2, <2>1, <2>3, <2>4 DEF TypeOK, MadeCall, Others
  <1> QED BY <1>1, <1>5, <1>6, <1>7, <1>8, <1>9, <1>10 DEF Later

\* No step of any handler, of ServiceNow, of the clock or of a crash takes any of it back.
LEMMA StepKept == TypeOK /\ PlanInv /\ CallInv /\ Shaped => Kept
  <1> SUFFICES ASSUME TypeOK, PlanInv, CallInv, Shaped PROVE Kept
    OBVIOUS
  <1> USE DEF Kept
  <1>0. now \in Nat /\ target \in Nat
    BY DEF TypeOK
  <1>1. ASSUME NEW p \in Plans, NEW h \in Hashes, NEW a \in Actors, Planned(p, h, a) PROVE Kept
    <2>1. /\ plans[p].state = "absent"
          /\ \A q \in Plans : q # p => plans'[q] = plans[q] /\ confs'[q] = confs[q]
          /\ UNCHANGED <<tool, now, calls, wire, target>>
          /\ audit \subseteq audit'
      BY <1>1, PlanFrame
    <2>2. confs[p] = NoConfRow
      BY <2>1 DEF Present, PlanInv
    <2>3. \A q \in Plans : Present(q) \/ confs[q].consumed => q # p
      BY <2>1, <2>2 DEF Present, NoConfRow
    <2> QED BY <1>0, <2>1, <2>3 DEF Present
  <1>2. ASSUME NEW c \in Calls, NEW p \in Plans, NEW tok \in Plans, NEW k \in Keys, NEW a \in Actors,
               Entered(c, p, tok, k, a)
        PROVE  Kept
    <2>1. \A d \in Calls : calls[d].pc # "idle" \/ wire[d] # "none" => d # c
      BY <1>2, EntryFrame
    <2> QED BY <1>0, <1>2, <2>1, EntryFrame DEF Others, Present
  <1>3. ASSUME NEW c \in Calls, Later(c) PROVE Kept
    <2>1. /\ c \in InFlight
          /\ calls'[c].pc # "idle"
          /\ calls'[c].plan = calls[c].plan /\ calls'[c].token = calls[c].token
          /\ calls'[c].key = calls[c].key /\ calls'[c].late = calls[c].late
          /\ wire[c] # "none" => wire'[c] = wire[c]
          /\ Others(c)
      BY <1>3, LaterFrame
    <2> QED BY <1>0, <1>3, <2>1, LaterFrame DEF Others, Present
  <1>4. ASSUME NEW c \in Calls, SnowApplies(c) \/ SnowRejects(c) PROVE Kept
    BY <1>0, <1>4 DEF SnowApplies, SnowRejects, TypeOK, Present
  <1>5. CASE ForeignEdit \/ Tick \/ UNCHANGED vars
    BY <1>0, <1>5 DEF ForeignEdit, Tick, vars, Present
  <1>6. CASE Crash
    <2>1. \A d \in Calls : calls'[d] = calls[d] \/ calls'[d] = [calls[d] EXCEPT !.pc = "dropped"]
      BY <1>6 DEF Crash
    <2>2. \A d \in Calls : calls[d].pc # "idle" => calls[d] \in MadeCall
      BY MadeTypes
    <2>3. \A d \in Calls : calls[d].pc # "idle" => /\ calls'[d].pc # "idle"
                                                   /\ calls'[d].plan = calls[d].plan
                                                   /\ calls'[d].token = calls[d].token
                                                   /\ calls'[d].key = calls[d].key
                                                   /\ calls'[d].late = calls[d].late
      <3> SUFFICES ASSUME NEW d \in Calls, calls[d].pc # "idle"
                   PROVE  /\ calls'[d].pc # "idle"
                          /\ calls'[d].plan = calls[d].plan
                          /\ calls'[d].token = calls[d].token
                          /\ calls'[d].key = calls[d].key
                          /\ calls'[d].late = calls[d].late
        OBVIOUS
      <3>1. calls[d] \in MadeCall
        BY <2>2
      <3>2. CASE calls'[d] = [calls[d] EXCEPT !.pc = "dropped"]
        BY <3>1, <3>2 DEF MadeCall
      <3> QED BY <2>1, <3>2
    <2> QED BY <1>0, <1>6, <2>3 DEF Crash, Present
  <1> QED BY <1>1, <1>2, <1>3, <1>4, <1>5, <1>6 DEF Shaped, Later

\* Where a later stretch leaves its call.
LEMMA LaterCall ==
  ASSUME TypeOK, PlanInv, CallInv, SpentInv, NEW c \in Calls, Later(c)
  PROVE  /\ calls'[c].pc # "done" => calls'[c].out = None
         /\ calls'[c].out = "ok" => calls'[c].pc = "done"
         /\ calls'[c].pc \in {"checked", "locating"} => wire'[c] = "none" /\ tool # "order"
         /\ wire'[c] # wire[c] => tool # "order"
         /\ calls'[c].pc = "proving" => tool # "order"
         /\ Acked(c)' => /\ wire'[c] = "applied"
                         /\ confs'[calls[c].token].consumed
                         /\ Acked(c) \/ tool = "order" \/ ~confs[calls[c].token].consumed
  <1>1. /\ c \in InFlight
        /\ calls[c] \in MadeCall /\ calls[c].token \in Plans /\ confs[calls[c].token] \in ConfRow
        /\ calls[c].out = None
    <2>1. c \in InFlight
      BY LaterFrame
    <2> QED BY <2>1, MadeTypes DEF InFlight, CallInv
  <1>2. ConsumeVerdict(confs[calls[c].token], calls[c].actor, HashOf(c), now) = "ok"
          => ~confs[calls[c].token].consumed
    BY DEF ConsumeVerdict, BindingVerdict
  <1>3. ConsumeRow(confs[calls[c].token]).consumed
    BY <1>1, Zenon DEF ConsumeRow, ConfRow
  <1>4. None # "ok"
    BY DEF Codes
  <1>5. CASE Refused(c)
    <2>1. PICK code \in Errors : Refuse(c, code)
      BY <1>5 DEF Refused
    <2>2. calls'[c] = [calls[c] EXCEPT !.pc = "done", !.out = code] /\ wire' = wire
      BY <2>1 DEF Refuse, Answer, TypeOK
    <2>3. code # "ok"
      BY DEF Errors
    <2>4. calls'[c].pc = "done" /\ calls'[c].out = code
      BY <1>1, <2>2 DEF MadeCall
    <2> QED BY <2>2, <2>3, <2>4 DEF Acked
  <1>6. CASE SnowReads(c)
    <2>1. PICK s \in {target, None} : calls'[c] = [calls[c] EXCEPT !.pc = "checked", !.seen = s]
      BY <1>6 DEF SnowReads, TypeOK
    <2>2. calls[c].pc = "checking" /\ wire' = wire
      BY <1>6 DEF SnowReads
    <2>3. calls'[c].pc = "checked" /\ calls'[c].out = None
      BY <1>1, <2>1 DEF MadeCall
    <2>4. wire[c] = "none" /\ tool # "order"
      BY <2>2 DEF CallInv
    <2> QED BY <1>4, <2>2, <2>3, <2>4 DEF Acked
  <1>7. CASE CheckPasses(c)
    <2>1. /\ calls[c].pc = "checked"
          /\ \/ calls'[c] = [calls[c] EXCEPT !.pc = "locating", !.seen = None] /\ wire' = wire
             \/ calls'[c] = [calls[c] EXCEPT !.pc = "writing", !.seen = None]
      BY <1>7 DEF CheckPasses, TypeOK
    <2>2. wire[c] = "none" /\ tool # "order"
      BY <2>1 DEF CallInv
    <2>3. /\ calls'[c].out = None
          /\ \/ calls'[c].pc = "locating" /\ wire' = wire
             \/ calls'[c].pc = "writing"
      BY <1>1, <2>1 DEF MadeCall
    <2> QED BY <1>4, <2>2, <2>3 DEF Acked
  <1>8. CASE SendLocated(c)
    <2>1. /\ calls[c].pc = "locating"
          /\ calls'[c] = [calls[c] EXCEPT !.pc = "writing"]
      BY <1>8 DEF SendLocated, TypeOK
    <2>2. wire[c] = "none" /\ tool # "order"
      BY <2>1 DEF CallInv
    <2>3. calls'[c].out = None /\ calls'[c].pc = "writing"
      BY <1>1, <2>1 DEF MadeCall
    <2> QED BY <1>4, <2>2, <2>3 DEF Acked
  <1>9. CASE Deciding(c)
    <2>1. /\ calls'[c] = [calls[c] EXCEPT !.pc = "proving"]
          /\ confs'[calls[c].token] = ConsumeRow(confs[calls[c].token])
          /\ wire' = wire /\ wire[c] = "applied" /\ tool # "order"
          /\ ConsumeVerdict(confs[calls[c].token], calls[c].actor, HashOf(c), now) = "ok"
      BY <1>1, <1>9 DEF Deciding, TypeOK
    <2>2. calls'[c].out = None /\ calls'[c].pc = "proving"
      BY <1>1, <2>1 DEF MadeCall
    <2> QED BY <1>2, <1>3, <1>4, <2>1, <2>2 DEF Acked
  <1>10. ASSUME NEW done \in 0..3, Settled(c, done)
         PROVE  /\ calls'[c].pc = "done" /\ wire' = wire /\ wire[c] = "applied"
                /\ confs'[calls[c].token].consumed
                /\ Acked(c) \/ tool = "order" \/ ~confs[calls[c].token].consumed
    <2>1. \E code \in Codes : calls'[c] = [calls[c] EXCEPT !.pc = "done", !.out = code]
      BY <1>10 DEF Settled, Settle, Answer, Codes, TypeOK
    <2>2. calls'[c].pc = "done"
      BY <1>1, <2>1 DEF MadeCall
    <2>3. wire' = wire /\ wire[c] = "applied"
      BY <1>10 DEF Settled
    <2>4. CASE calls[c].pc = "proving"
      <3>1. confs' = confs
        BY <1>10, <2>4 DEF Settled
      <3> QED BY <2>2, <2>3, <2>4, <3>1 DEF SpentInv, Acked
    <2>5. CASE calls[c].pc = "writing" /\ tool = "order"
      <3>1. confs' = confs
        BY <1>10, <2>5 DEF Settled
      <3> QED BY <2>2, <2>3, <2>5, <3>1 DEF SpentInv
    <2>6. CASE calls[c].pc = "writing" /\ tool # "order"
      <3>1. /\ ConsumeVerdict(confs[calls[c].token], calls[c].actor, HashOf(c), now) = "ok"
            /\ confs'[calls[c].token] = ConsumeRow(confs[calls[c].token])
        BY <1>1, <1>10, <2>6 DEF Settled, TypeOK
      <3> QED BY <1>2, <1>3, <2>2, <2>3, <3>1
    <2> QED BY <1>10, <2>4, <2>5, <2>6 DEF Settled
  <1> QED BY <1>5, <1>6, <1>7, <1>8, <1>9, <1>10 DEF Later, Acked

-----------------------------------------------------------------------------
(* The safety part of the invariant. *)

\* A crash drops calls; nothing else of a call changes.
LEMMA CrashFrame ==
  ASSUME TypeOK, CallInv, Crash
  PROVE  /\ \A c \in Calls : calls'[c] = calls[c] \/ (c \in InFlight /\ calls'[c].pc = "dropped"
                                                       /\ calls'[c].out = calls[c].out)
         /\ UNCHANGED <<tool, now, plans, confs, keys, wire, target, audit>>
  <1>1. UNCHANGED <<tool, now, plans, confs, keys, wire, target, audit>>
    BY DEF Crash
  <1>2. ASSUME NEW c \in Calls, c \in InFlight PROVE calls'[c].pc = "dropped" /\ calls'[c].out = calls[c].out
    <2>1. calls[c] \in MadeCall
      BY <1>2, MadeTypes DEF InFlight
    <2>2. calls'[c] = [calls[c] EXCEPT !.pc = "dropped"]
      BY <1>2 DEF Crash
    <2> QED BY <2>1, <2>2 DEF MadeCall
  <1>3. ASSUME NEW c \in Calls, c \notin InFlight PROVE calls'[c] = calls[c]
    BY <1>3 DEF Crash
  <1> QED BY <1>1, <1>2, <1>3

\* ServiceNow's answers, other people's edits and time touch no call and no store.
Outside ==
  \/ \E c \in Calls : SnowApplies(c) \/ SnowRejects(c)
  \/ ForeignEdit \/ Tick \/ UNCHANGED vars

\* What they touch.
LEMMA OutsideFrame ==
  ASSUME TypeOK, Outside
  PROVE  /\ UNCHANGED <<tool, plans, confs, keys, calls, audit>>
         /\ \A c \in Calls : /\ wire[c] = "none" <=> wire'[c] = "none"
                             /\ wire[c] = "applied" => wire'[c] = "applied"
         /\ now <= now' /\ target <= target'
  <1>1. now \in Nat /\ target \in Nat
    BY DEF TypeOK
  <1>2. ASSUME NEW c \in Calls, SnowApplies(c) \/ SnowRejects(c)
        PROVE  /\ UNCHANGED <<tool, plans, confs, keys, calls, audit>>
               /\ \A d \in Calls : /\ wire[d] = "none" <=> wire'[d] = "none"
                                   /\ wire[d] = "applied" => wire'[d] = "applied"
               /\ now <= now' /\ target <= target'
    BY <1>1, <1>2 DEF SnowApplies, SnowRejects, TypeOK
  <1>3. CASE ForeignEdit \/ Tick \/ UNCHANGED vars
    BY <1>1, <1>3 DEF ForeignEdit, Tick, vars
  <1> QED BY <1>2, <1>3 DEF Outside

\* The plan stores keep what a plan was made for; only a planned operation has a confirmation.
LEMMA StepPlan == TypeOK /\ PlanInv /\ CallInv /\ Shaped => PlanInv'
  <1> SUFFICES ASSUME TypeOK, PlanInv, CallInv, Shaped, NEW p \in Plans
               PROVE  /\ plans'[p].state # "absent" => /\ plans'[p].hash \in Hashes
                                                       /\ plans'[p].token <= target'
                                                       /\ plans'[p].expires <= now' + PlanTTL
                      /\ plans'[p].state = "absent" => confs'[p] = NoConfRow
    BY DEF PlanInv, Present
  <1>0. now \in Nat /\ target \in Nat /\ now' \in Nat /\ target' \in Nat /\ plans[p] \in PlanRow
    <2>1. now' \in Nat /\ target' \in Nat
      BY StepTypeShaped DEF TypeOK
    <2> QED BY <2>1 DEF TypeOK
  <1>1. Kept
    BY StepKept
  <1>2. ASSUME Present(p) <=> plans'[p].state # "absent",
               confs'[p] = confs[p] \/ Present(p)
        PROVE  /\ plans'[p].state # "absent" => /\ plans'[p].hash \in Hashes
                                                /\ plans'[p].token <= target'
                                                /\ plans'[p].expires <= now' + PlanTTL
               /\ plans'[p].state = "absent" => confs'[p] = NoConfRow
    BY <1>0, <1>1, <1>2 DEF Kept, PlanInv, PlanRow
  <1>3. ASSUME NEW q \in Plans, NEW h \in Hashes, NEW a \in Actors, Planned(q, h, a)
        PROVE  /\ plans'[p].state # "absent" => /\ plans'[p].hash \in Hashes
                                                /\ plans'[p].token <= target'
                                                /\ plans'[p].expires <= now' + PlanTTL
               /\ plans'[p].state = "absent" => confs'[p] = NoConfRow
    <2>1. /\ plans'[q] = PutPlan(h, target, now) /\ now' = now /\ target' = target
          /\ \A r \in Plans : r # q => plans'[r] = plans[r] /\ confs'[r] = confs[r]
      BY <1>3, PlanFrame
    <2>2. CASE p = q
      BY <1>0, <2>1, <2>2 DEF PutPlan
    <2>3. CASE p # q
      BY <1>2, <2>1, <2>3 DEF Present
    <2> QED BY <2>2, <2>3
  <1>4. ASSUME NEW c \in Calls, NEW q \in Plans, NEW tok \in Plans, NEW k \in Keys, NEW a \in Actors,
               Entered(c, q, tok, k, a)
        PROVE  (Present(p) <=> plans'[p].state # "absent") /\ (confs'[p] = confs[p] \/ Present(p))
    BY <1>4, EntryFrame
  <1>5. ASSUME NEW c \in Calls, Later(c)
        PROVE  (Present(p) <=> plans'[p].state # "absent") /\ (confs'[p] = confs[p] \/ Present(p))
    BY <1>5, LaterFrame
  <1>6. CASE Outside
    <2>1. UNCHANGED <<plans, confs>>
      BY <1>6, OutsideFrame
    <2> QED BY <1>2, <2>1 DEF Present
  <1>7. CASE Crash
    <2>1. UNCHANGED <<plans, confs>>
      BY <1>7 DEF Crash
    <2> QED BY <1>2, <2>1 DEF Present
  <1> QED BY <1>2, <1>3, <1>4, <1>5, <1>6, <1>7 DEF Shaped, Later, Outside

\* The progress of a call says what it has done.
LEMMA StepCall == TypeOK /\ PlanInv /\ CallInv /\ SpentInv /\ Shaped => CallInv'
  <1> SUFFICES ASSUME TypeOK, PlanInv, CallInv, SpentInv, Shaped PROVE CallInv'
    OBVIOUS
  <1>0. None # "ok" /\ Kept
    BY StepKept DEF Codes
  <1>1. ASSUME NEW d \in Calls, calls'[d] = calls[d],
               wire[d] = "none" <=> wire'[d] = "none", wire[d] = "applied" => wire'[d] = "applied"
        PROVE  /\ calls'[d].pc \in {"idle", "checking", "checked", "locating"} => wire'[d] = "none"
               /\ d \in InFlight' \/ wire'[d] # "none" => plans'[calls'[d].plan].state # "absent"
               /\ calls'[d].pc # "done" => calls'[d].out = None
               /\ calls'[d].pc = "proving" \/ calls'[d].out = "ok" => wire'[d] = "applied"
               /\ tool' = "order" => calls'[d].pc \notin {"checking", "checked", "locating", "proving"}
    <2>1. d \in InFlight' <=> d \in InFlight
      BY <1>1 DEF InFlight
    <2>2. d \in InFlight \/ wire[d] # "none" => calls[d].plan \in Plans /\ Present(calls[d].plan)
      <3>1. d \in InFlight \/ wire[d] # "none" => calls[d].pc # "idle"
        BY DEF CallInv, InFlight
      <3> QED BY <3>1, MadeTypes DEF CallInv
    <2> QED BY <1>0, <1>1, <2>1, <2>2 DEF CallInv, Kept
  <1>2. ASSUME NEW p \in Plans, NEW h \in Hashes, NEW a \in Actors, Planned(p, h, a) PROVE CallInv'
    <2>1. UNCHANGED <<calls, wire>>
      BY <1>2, PlanFrame
    <2> QED BY <1>1, <2>1 DEF CallInv, Present
  <1>3. ASSUME NEW c \in Calls, NEW p \in Plans, NEW tok \in Plans, NEW k \in Keys, NEW a \in Actors,
               Entered(c, p, tok, k, a)
        PROVE  CallInv'
    <2>1. /\ calls'[c].plan = p /\ Others(c) /\ tool' = tool
          /\ Present(p) <=> plans'[p].state # "absent"
          /\ calls'[c].pc \in {"done", "checking", "writing"}
          /\ calls'[c].pc # "done" => Open(p, k) /\ calls'[c].out = None
          /\ calls'[c].pc = "checking" => tool # "order" /\ wire'[c] = "none"
          /\ calls'[c].pc = "done" => wire'[c] = "none" /\ calls'[c].out \in Errors
      BY <1>3, EntryFrame
    <2>2. /\ calls'[c].pc \in {"idle", "checking", "checked", "locating"} => wire'[c] = "none"
          /\ c \in InFlight' \/ wire'[c] # "none" => plans'[calls'[c].plan].state # "absent"
          /\ calls'[c].pc # "done" => calls'[c].out = None
          /\ calls'[c].pc = "proving" \/ calls'[c].out = "ok" => wire'[c] = "applied"
          /\ tool' = "order" => calls'[c].pc \notin {"checking", "checked", "locating", "proving"}
      BY <1>0, <2>1 DEF InFlight, Open, Errors
    <2>3. \A d \in Calls : d # c => calls'[d] = calls[d] /\ wire'[d] = wire[d]
      BY <2>1 DEF Others
    <2> QED BY <1>1, <2>2, <2>3 DEF CallInv, Present
  <1>4. ASSUME NEW c \in Calls, Later(c) PROVE CallInv'
    <2>1. /\ c \in InFlight /\ Others(c) /\ calls'[c].plan = calls[c].plan /\ tool' = tool
          /\ calls'[c].pc \in {"checked", "locating", "writing", "proving", "done"}
      BY <1>4, LaterFrame
    <2>2. /\ calls'[c].pc # "done" => calls'[c].out = None
          /\ calls'[c].pc \in {"checked", "locating"} => wire'[c] = "none" /\ tool # "order"
          /\ calls'[c].pc = "proving" => tool # "order"
          /\ Acked(c)' => wire'[c] = "applied"
      BY <1>4, LaterCall
    <2>3. calls[c].plan \in Plans /\ Present(calls[c].plan)
      BY <2>1, MadeTypes DEF CallInv, InFlight
    <2>4. /\ calls'[c].pc \in {"idle", "checking", "checked", "locating"} => wire'[c] = "none"
          /\ c \in InFlight' \/ wire'[c] # "none" => plans'[calls'[c].plan].state # "absent"
          /\ calls'[c].pc # "done" => calls'[c].out = None
          /\ calls'[c].pc = "proving" \/ calls'[c].out = "ok" => wire'[c] = "applied"
          /\ tool' = "order" => calls'[c].pc \notin {"checking", "checked", "locating", "proving"}
      BY <1>0, <2>1, <2>2, <2>3 DEF Kept, Acked
    <2>5. \A d \in Calls : d # c => calls'[d] = calls[d] /\ wire'[d] = wire[d]
      BY <2>1 DEF Others
    <2> QED BY <1>1, <2>4, <2>5 DEF CallInv, Present
  <1>5. CASE Outside
    <2>1. /\ calls' = calls
          /\ \A d \in Calls : /\ wire[d] = "none" <=> wire'[d] = "none"
                              /\ wire[d] = "applied" => wire'[d] = "applied"
      BY <1>5, OutsideFrame
    <2> QED BY <1>1, <2>1 DEF CallInv, Present
  <1>6. CASE Crash
    <2>1. /\ \A c \in Calls : calls'[c] = calls[c] \/ (c \in InFlight /\ calls'[c].pc = "dropped"
                                                        /\ calls'[c].out = calls[c].out)
          /\ UNCHANGED <<tool, now, plans, confs, keys, wire, target, audit>>
      BY <1>6, CrashFrame
    <2>2. ASSUME NEW c \in Calls, c \in InFlight, calls'[c].pc = "dropped", calls'[c].out = calls[c].out
          PROVE  /\ calls'[c].pc \in {"idle", "checking", "checked", "locating"} => wire'[c] = "none"
                 /\ c \in InFlight' \/ wire'[c] # "none" => plans'[calls'[c].plan].state # "absent"
                 /\ calls'[c].pc # "done" => calls'[c].out = None
                 /\ calls'[c].pc = "proving" \/ calls'[c].out = "ok" => wire'[c] = "applied"
                 /\ tool' = "order" => calls'[c].pc \notin {"checking", "checked", "locating", "proving"}
      <3>1. calls[c].plan \in Plans /\ Present(calls[c].plan) /\ calls[c].pc \notin {"idle", "done"}
        BY <2>2, MadeTypes DEF CallInv, InFlight
      <3>2. calls'[c].plan = calls[c].plan /\ plans'[calls[c].plan].state # "absent"
        BY <1>0, <3>1 DEF Kept
      <3> QED BY <1>0, <2>2, <3>1, <3>2 DEF CallInv, InFlight
    <2> QED BY <1>1, <2>1, <2>2 DEF CallInv, Present
  <1> QED BY <1>2, <1>3, <1>4, <1>5, <1>6 DEF Shaped, Later, Outside

\* A call that the step newly acknowledges, or whose request it sends.
Newly(c) == (Acked(c)' /\ ~Acked(c)) \/ (wire'[c] # "none" /\ wire[c] = "none")

\* Only one call does so in a step, and only with a confirmation it has just spent.
LEMMA StepActs ==
  ASSUME TypeOK, PlanInv, CallInv, SpentInv, Shaped
  PROVE  /\ \A c, d \in Calls : Newly(c) /\ Newly(d) => c = d
         /\ \A c \in Calls : Acked(c)' =>
              \/ Acked(c)
              \/ /\ calls[c].pc # "idle" /\ wire[c] # "none"
                 /\ confs'[calls[c].token].consumed
                 /\ tool = "order" \/ ~confs[calls[c].token].consumed
         /\ \A c \in Calls : tool = "order" /\ wire'[c] # "none" =>
              \/ wire[c] # "none"
              \/ /\ calls[c].pc = "idle" /\ calls'[c].token \in Plans
                 /\ ~confs[calls'[c].token].consumed /\ confs'[calls'[c].token].consumed
  <1>0. None # "ok"
    BY DEF Codes
  <1>1. ASSUME NEW p \in Plans, NEW h \in Hashes, NEW a \in Actors, Planned(p, h, a), NEW c \in Calls
        PROVE  UNCHANGED <<calls, wire>>
    BY <1>1, PlanFrame
  <1>2. ASSUME NEW c \in Calls, NEW p \in Plans, NEW tok \in Plans, NEW k \in Keys, NEW a \in Actors,
               Entered(c, p, tok, k, a)
        PROVE  /\ \A d \in Calls : d # c => calls'[d] = calls[d] /\ wire'[d] = wire[d]
               /\ ~Acked(c)'
               /\ tool = "order" /\ wire'[c] # "none" =>
                      /\ calls[c].pc = "idle" /\ calls'[c].token \in Plans
                      /\ ~confs[calls'[c].token].consumed /\ confs'[calls'[c].token].consumed
    <2>1. /\ Others(c) /\ calls[c].pc = "idle"
          /\ calls'[c].token = tok
          /\ calls'[c].pc \in {"done", "checking", "writing"}
          /\ calls'[c].pc # "done" => calls'[c].out = None
          /\ calls'[c].pc = "checking" => wire'[c] = "none"
          /\ calls'[c].pc = "writing" => (tool = "order" => ~confs[tok].consumed /\ confs'[tok].consumed)
          /\ calls'[c].pc = "done" => wire'[c] = "none" /\ calls'[c].out \in Errors
      BY <1>2, EntryFrame
    <2> QED BY <1>0, <2>1 DEF Others, Acked, Errors
  <1>3. ASSUME NEW c \in Calls, Later(c)
        PROVE  /\ \A d \in Calls : d # c => calls'[d] = calls[d] /\ wire'[d] = wire[d]
               /\ wire'[c] # wire[c] => tool # "order"
               /\ Acked(c)' => \/ Acked(c)
                               \/ /\ calls[c].pc # "idle" /\ wire[c] # "none"
                                  /\ confs'[calls[c].token].consumed
                                  /\ tool = "order" \/ ~confs[calls[c].token].consumed
    <2>1. c \in InFlight /\ Others(c) /\ (wire'[c] # wire[c] => wire[c] = "none" /\ calls'[c].pc = "writing")
      BY <1>3, LaterFrame
    <2>2. /\ calls'[c].pc # "done" => calls'[c].out = None
          /\ wire'[c] # wire[c] => tool # "order"
          /\ Acked(c)' => /\ wire'[c] = "applied"
                          /\ confs'[calls[c].token].consumed
                          /\ Acked(c) \/ tool = "order" \/ ~confs[calls[c].token].consumed
      BY <1>3, LaterCall
    <2>3. Acked(c)' => calls'[c].pc # "writing"
      BY <1>0, <2>2 DEF Acked
    <2> QED BY <2>1, <2>2, <2>3 DEF Others, InFlight
  <1>4. ASSUME Outside, NEW c \in Calls
        PROVE  calls' = calls /\ \A d \in Calls : wire'[d] # "none" => wire[d] # "none"
    BY <1>4, OutsideFrame
  <1>5. ASSUME Crash
        PROVE  \A d \in Calls : (Acked(d)' => Acked(d)) /\ wire'[d] = wire[d]
    BY <1>5, CrashFrame DEF Acked
  <1> DEFINE Goal ==
         /\ \A c, d \in Calls : Newly(c) /\ Newly(d) => c = d
         /\ \A c \in Calls : Acked(c)' =>
              \/ Acked(c)
              \/ /\ calls[c].pc # "idle" /\ wire[c] # "none"
                 /\ confs'[calls[c].token].consumed
                 /\ tool = "order" \/ ~confs[calls[c].token].consumed
         /\ \A c \in Calls : tool = "order" /\ wire'[c] # "none" =>
              \/ wire[c] # "none"
              \/ /\ calls[c].pc = "idle" /\ calls'[c].token \in Plans
                 /\ ~confs[calls'[c].token].consumed /\ confs'[calls'[c].token].consumed
  <1>6. ASSUME NEW p \in Plans, NEW h \in Hashes, NEW a \in Actors, Planned(p, h, a) PROVE Goal
    BY <1>1, <1>6 DEF Newly, Acked
  <1>7. ASSUME NEW c \in Calls, NEW p \in Plans, NEW tok \in Plans, NEW k \in Keys, NEW a \in Actors,
               Entered(c, p, tok, k, a)
        PROVE  Goal
    <2>1. \A d \in Calls : d # c => calls'[d] = calls[d] /\ wire'[d] = wire[d]
      BY <1>2, <1>7
    <2>2. /\ ~Acked(c)'
          /\ tool = "order" /\ wire'[c] # "none" =>
                 /\ calls[c].pc = "idle" /\ calls'[c].token \in Plans
                 /\ ~confs[calls'[c].token].consumed /\ confs'[calls'[c].token].consumed
      BY <1>2, <1>7
    <2> QED BY <2>1, <2>2 DEF Newly, Acked
  <1>8. ASSUME NEW c \in Calls, Later(c) PROVE Goal
    <2>1. \A d \in Calls : d # c => calls'[d] = calls[d] /\ wire'[d] = wire[d]
      BY <1>3, <1>8
    <2>2. /\ wire'[c] # wire[c] => tool # "order"
          /\ Acked(c)' => \/ Acked(c)
                          \/ /\ calls[c].pc # "idle" /\ wire[c] # "none"
                             /\ confs'[calls[c].token].consumed
                             /\ tool = "order" \/ ~confs[calls[c].token].consumed
      BY <1>3, <1>8
    <2> QED BY <2>1, <2>2 DEF Newly, Acked
  <1>9. CASE Outside
    <2>1. calls' = calls /\ \A d \in Calls : wire'[d] # "none" => wire[d] # "none"
      BY <1>9, OutsideFrame
    <2> QED BY <2>1 DEF Newly, Acked
  <1>10. CASE Crash
    BY <1>5, <1>10 DEF Newly
  <1> QED BY <1>6, <1>7, <1>8, <1>9, <1>10 DEF Shaped, Later, Outside

\* ConsumeVerdict and Confirmed turn a spent confirmation away: each has one order and one
\* fresh success.
LEMMA StepSpent ==
  TypeOK /\ PlanInv /\ CallInv /\ SpentInv /\ AckedOnce /\ OrderedOnce /\ Shaped
    => SpentInv' /\ AckedOnce' /\ OrderedOnce'
  <1> SUFFICES ASSUME TypeOK, PlanInv, CallInv, SpentInv, AckedOnce, OrderedOnce, Shaped
               PROVE  SpentInv' /\ AckedOnce' /\ OrderedOnce'
    OBVIOUS
  <1>1. Kept
    BY StepKept
  <1>2. /\ \A c, d \in Calls : Newly(c) /\ Newly(d) => c = d
        /\ \A c \in Calls : Acked(c)' =>
             \/ Acked(c)
             \/ /\ calls[c].pc # "idle" /\ wire[c] # "none"
                /\ confs'[calls[c].token].consumed
                /\ tool = "order" \/ ~confs[calls[c].token].consumed
        /\ \A c \in Calls : tool = "order" /\ wire'[c] # "none" =>
             \/ wire[c] # "none"
             \/ /\ calls[c].pc = "idle" /\ calls'[c].token \in Plans
                /\ ~confs[calls'[c].token].consumed /\ confs'[calls'[c].token].consumed
    BY StepActs
  <1>3. \A c \in Calls : /\ Acked(c) \/ wire[c] # "none" => calls[c].pc # "idle"
                         /\ calls[c].pc # "idle" => calls[c].token \in Plans /\ calls'[c].token = calls[c].token
                         /\ Acked(c) => wire[c] # "none"
    <2>1. None # "ok"
      BY DEF Codes
    <2> QED BY <1>1, <2>1, MadeTypes DEF CallInv, Acked, Kept
  <1>4. SpentInv'
    <2> SUFFICES ASSUME NEW c \in Calls, Acked(c)' \/ (tool' = "order" /\ wire'[c] # "none")
                 PROVE  confs'[calls'[c].token].consumed
      BY DEF SpentInv
    <2> QED BY <1>1, <1>2, <1>3 DEF SpentInv, Kept
  <1>5. OrderedOnce'
    <2> SUFFICES ASSUME tool = "order", NEW c \in Calls, NEW d \in Calls, calls'[c].token = calls'[d].token,
                        wire'[c] # "none", wire'[d] # "none", c # d
                 PROVE  FALSE
      BY <1>1 DEF OrderedOnce, Kept
    <2>1. CASE wire[c] # "none" /\ wire[d] # "none"
      BY <1>3, <2>1 DEF OrderedOnce
    <2>2. ~(wire[c] = "none" /\ wire[d] = "none")
      BY <1>2 DEF Newly
    <2>3. CASE wire[c] # "none" /\ wire[d] = "none"
      BY <1>2, <1>3, <2>3 DEF SpentInv
    <2>4. CASE wire[c] = "none" /\ wire[d] # "none"
      BY <1>2, <1>3, <2>4 DEF SpentInv
    <2> QED BY <2>1, <2>2, <2>3, <2>4
  <1>6. AckedOnce'
    <2> SUFFICES ASSUME NEW c \in Calls, NEW d \in Calls, calls'[c].token = calls'[d].token,
                        Acked(c)', Acked(d)', c # d
                 PROVE  FALSE
      BY DEF AckedOnce
    <2>1. wire[c] # "none" /\ wire[d] # "none" /\ calls[c].token = calls[d].token
      BY <1>2, <1>3
    <2>2. tool # "order"
      BY <2>1 DEF OrderedOnce
    <2>3. ~(~Acked(c) /\ ~Acked(d))
      BY <1>2 DEF Newly
    <2> QED BY <1>2, <2>1, <2>2, <2>3 DEF AckedOnce, SpentInv
  <1> QED BY <1>4, <1>5, <1>6

\* Only settle stores a receipt, and its audit rows come first.
LEMMA StepReceipt ==
  TypeOK /\ PlanInv /\ CallInv /\ SpentInv /\ ReceiptBacked /\ Shaped => ReceiptBacked'
  <1> SUFFICES ASSUME TypeOK, PlanInv, CallInv, SpentInv, ReceiptBacked, Shaped,
                      NEW k \in Keys, NEW c \in Calls, keys'[k].receipt = c
               PROVE  /\ wire'[c] = "applied"
                      /\ confs'[calls'[c].token].consumed
                      /\ tool' # "order" => <<c, "applied">> \in audit'
                      /\ tool' = "note" => <<c, "consumed">> \in audit'
    BY DEF ReceiptBacked
  <1>1. Kept
    BY StepKept
  <1>2. c # None
    OBVIOUS
  <1>3. CASE keys[k].receipt = c
    <2>1. /\ wire[c] = "applied" /\ confs[calls[c].token].consumed
          /\ tool # "order" => <<c, "applied">> \in audit
          /\ tool = "note" => <<c, "consumed">> \in audit
      BY <1>3 DEF ReceiptBacked
    <2>2. calls[c].pc # "idle"
      BY <2>1 DEF CallInv
    <2>3. calls[c].token \in Plans
      BY <2>2, MadeTypes
    <2> QED BY <1>1, <2>1, <2>2, <2>3 DEF Kept
  <1>4. CASE keys[k].receipt # c
    <2>1. \A row \in KeyRow(Calls), h \in Hashes \cup {None} :
            /\ CheckAndRecord(row, h, now).receipt \in {row.receipt, None}
            /\ MarkApplyStarted(CheckAndRecord(row, h, now)).receipt \in {row.receipt, None}
            /\ MarkApplyStarted(row).receipt = row.receipt
      BY DEF CheckAndRecord, MarkApplyStarted, KeyRow
    <2>2. \A q \in Keys : keys[q] \in KeyRow(Calls)
      BY DEF TypeOK
    <2>3. ASSUME NEW p \in Plans, NEW h \in Hashes, NEW a \in Actors, Planned(p, h, a) PROVE FALSE
      <3>0. /\ \A q \in Keys : q # OwnKey[p] => keys'[q] = keys[q]
            /\ tool = "order" => keys' = keys
            /\ tool # "order" => keys'[OwnKey[p]] = [hash |-> h, receipt |-> None, started |-> FALSE,
                                                     expires |-> now + Window]
        BY <2>3, PlanFrame
      <3>1. keys'[k] = keys[k] \/ keys'[k].receipt = None
        BY <3>0, SMT
      <3> QED BY <1>2, <1>4, <3>1
    <2>4. ASSUME NEW d \in Calls, NEW p \in Plans, NEW tok \in Plans, NEW j \in Keys, NEW a \in Actors,
                 Entered(d, p, tok, j, a)
          PROVE  FALSE
      <3> DEFINE x == NewCall(p, tok, j, a)
      <3>1. x.key = j /\ x.plan = p
        BY DEF NewCall
      <3> HIDE DEF x
      <3>2. \/ keys' = keys
            \/ keys' = [keys EXCEPT ![j] = CheckAndRecord(@, plans[p].hash, now)]
            \/ keys' = [keys EXCEPT ![j] = MarkApplyStarted(CheckAndRecord(@, plans[p].hash, now))]
        BY <2>4, <3>1 DEF Entered, RefusedAtEntry, RefusedReserved, RefusedSpent, GoesToRead, SentAtOnce,
                          Reserve, x
      <3>4. plans[p].hash \in Hashes \cup {None}
        BY DEF TypeOK, PlanRow
      <3>3. keys'[k].receipt \in {keys[k].receipt, None}
        BY <2>1, <2>2, <3>2, <3>4 DEF TypeOK
      <3> QED BY <1>2, <1>4, <3>3
    <2>5. ASSUME NEW d \in Calls, Refused(d) \/ SnowReads(d) \/ SendLocated(d) \/ Deciding(d) PROVE FALSE
      BY <1>4, <2>5 DEF Refused, Refuse, SnowReads, SendLocated, Deciding
    <2>6. ASSUME NEW d \in Calls, CheckPasses(d) PROVE FALSE
      <3>1. keys' = [keys EXCEPT ![calls[d].key] = MarkApplyStarted(@)]
        BY <2>6 DEF CheckPasses, Started
      <3> QED BY <1>4, <2>1, <2>2, <3>1 DEF TypeOK
    <2>7. ASSUME NEW d \in Calls, NEW done \in 0..3, Settled(d, done)
          PROVE  /\ wire'[c] = "applied"
                 /\ confs'[calls'[c].token].consumed
                 /\ tool' # "order" => <<c, "applied">> \in audit'
                 /\ tool' = "note" => <<c, "consumed">> \in audit'
      <3>1. \A row \in KeyRow(Calls) : SaveReceipt(row, d).receipt = d
        BY DEF SaveReceipt, KeyRow
      <3>2. keys' = IF done = 3 THEN [keys EXCEPT ![calls[d].key] = SaveReceipt(@, d)] ELSE keys
        BY <2>7 DEF Settled, Settle
      <3>3. done = 3 /\ d = c
        BY <1>4, <2>2, <3>1, <3>2 DEF TypeOK
      <3>4. /\ wire'[c] = "applied"
            /\ tool' # "order" => <<c, "applied">> \in audit'
            /\ tool' = "note" => <<c, "consumed">> \in audit'
        BY <2>7, <3>3 DEF Settled, Settle
      <3>5. /\ c \in InFlight /\ calls'[c].token = calls[c].token
        BY <2>7, <3>3, LaterFrame DEF Later
      <3>6. calls[c].token \in Plans /\ confs[calls[c].token] \in ConfRow
        BY <3>5, MadeTypes DEF InFlight
      <3>7. ConsumeRow(confs[calls[c].token]).consumed
        BY <3>6, Zenon DEF ConsumeRow, ConfRow
      <3>8. confs'[calls[c].token].consumed
        <4>1. CASE calls[c].pc = "proving"
          BY <2>7, <3>3, <4>1 DEF Settled, SpentInv, Acked
        <4>2. CASE calls[c].pc = "writing" /\ tool = "order"
          BY <2>7, <3>3, <4>2 DEF Settled, SpentInv
        <4>3. CASE calls[c].pc = "writing" /\ tool # "order"
          BY <2>7, <3>3, <3>6, <3>7, <4>3 DEF Settled, TypeOK
        <4> QED BY <2>7, <3>3, <4>1, <4>2, <4>3 DEF Settled
      <3> QED BY <3>4, <3>5, <3>8
    <2>8. CASE Outside \/ Crash
      <3>1. keys' = keys
        BY <2>8, OutsideFrame DEF Crash
      <3> QED BY <1>4, <3>1
    <2> QED BY <2>3, <2>4, <2>5, <2>6, <2>7, <2>8 DEF Shaped, Outside
  <1> QED BY <1>3, <1>4

\* Type correctness and the safety part together are inductive.
LEMMA StepSafe == TypeOK /\ SafeInv /\ [Next]_vars => TypeOK' /\ SafeInv'
  <1> SUFFICES ASSUME TypeOK, SafeInv, [Next]_vars PROVE TypeOK' /\ SafeInv'
    OBVIOUS
  <1>1. Shaped
    BY StepShape DEF SafeInv
  <1> QED BY <1>1, StepTypeShaped, StepPlan, StepCall, StepSpent, StepReceipt DEF SafeInv

\* Empty stores and idle calls.
LEMMA InitSafe == Init => SafeInv
  <1> SUFFICES ASSUME Init PROVE SafeInv
    OBVIOUS
  <1>1. \A c \in Calls : calls[c] = NoCall /\ wire[c] = "none"
    BY DEF Init
  <1>2. \A c \in Calls : calls[c].pc = "idle" /\ calls[c].out = None /\ c \notin InFlight
    BY <1>1 DEF NoCall, InFlight
  <1>3. None # "ok"
    BY DEF Codes
  <1>4. PlanInv
    BY DEF Init, PlanInv, Present, NoPlanRow
  <1>5. CallInv /\ SpentInv /\ AckedOnce /\ OrderedOnce
    BY <1>1, <1>2, <1>3 DEF CallInv, SpentInv, AckedOnce, OrderedOnce, Acked
  <1>6. ReceiptBacked
    BY DEF Init, ReceiptBacked, NoKeyRow
  <1> QED BY <1>4, <1>5, <1>6 DEF SafeInv

\* The rows, calls and requests of the five handlers keep their types.
THEOREM TypeCorrect == Spec => []TypeOK
  <1>1. Init => TypeOK /\ SafeInv
    BY InitType, InitSafe
  <1>2. TypeOK /\ SafeInv /\ [Next]_vars => (TypeOK /\ SafeInv)'
    BY StepSafe
  <1> QED BY <1>1, <1>2, PTL DEF Spec

\* The strengthened invariant holds throughout.
THEOREM Inductive == Spec => [](TypeOK /\ SafeInv)
  <1>1. Init => TypeOK /\ SafeInv
    BY InitType, InitSafe
  <1>2. TypeOK /\ SafeInv /\ [Next]_vars => (TypeOK /\ SafeInv)'
    BY StepSafe
  <1> QED BY <1>1, <1>2, PTL DEF Spec

\* A stored receipt stands for a request ServiceNow served, under a spent confirmation, with
\* its audit rows (save_receipt in the five handlers).
THEOREM ReceiptsTrue == Spec => []ReceiptBacked
  <1>1. SafeInv => ReceiptBacked
    BY DEF SafeInv
  <1> QED BY <1>1, Inductive, PTL

\* handle_catalog_submit_request places one order per confirmation.
THEOREM OrdersOnce == Spec => []OrderedOnce
  <1>1. SafeInv => OrderedOnce
    BY DEF SafeInv
  <1> QED BY <1>1, Inductive, PTL

\* consume(): a confirmation is acknowledged with one fresh success at most.
THEOREM OneOk == Spec => []OneOkPerConfirmation
  <1>1. SafeInv => OneOkPerConfirmation
    BY DEF SafeInv, AckedOnce, Acked, OneOkPerConfirmation
  <1> QED BY <1>1, Inductive, PTL

-----------------------------------------------------------------------------
(* Retries, where a plan dies before its reservation. *)

\* A row keeps its reservation, or a dead one is replaced.
RowStays(k) ==
  /\ keys'[k].hash = keys[k].hash
  /\ keys'[k].expires = keys[k].expires
  /\ keys[k].started => keys'[k].started

RowRenewed(k) ==
  /\ ~KeyLive(keys[k], now)
  /\ now' = now
  /\ keys'[k].expires = now + Window
  /\ tool = "order" => \A q \in Plans : OwnKey[q] = k => Present(q)

\* check_and_record, mark_apply_started and save_receipt on one row.
LEMMA RowSteps ==
  ASSUME NEW row \in KeyRow(Calls), NEW h, NEW d \in Calls
  PROVE  /\ CheckAndRecord(row, h, now) =
              IF KeyLive(row, now) THEN row
              ELSE [hash |-> h, receipt |-> None, started |-> FALSE, expires |-> now + Window]
         /\ MarkApplyStarted(row).hash = row.hash
         /\ MarkApplyStarted(row).expires = row.expires
         /\ MarkApplyStarted(row).started
         /\ SaveReceipt(row, d).hash = row.hash
         /\ SaveReceipt(row, d).expires = row.expires
         /\ SaveReceipt(row, d).started = row.started
  <1>1. MarkApplyStarted(row).started
    BY Zenon DEF MarkApplyStarted, KeyRow
  <1> QED BY <1>1 DEF CheckAndRecord, MarkApplyStarted, SaveReceipt, KeyRow

\* An apply that goes on holds a live reservation for its plan's operation, and has marked it
\* when its request goes out with it.
LEMMA EntryKeys ==
  ASSUME TypeOK, PlanInv, CallInv, NEW c \in Calls, NEW p \in Plans, NEW tok \in Plans, NEW k \in Keys,
         NEW a \in Actors, Entered(c, p, tok, k, a)
  PROVE  /\ \A j \in Keys : RowStays(j) \/ RowRenewed(j)
         /\ calls'[c].pc # "done" => /\ keys'[k].hash = plans[p].hash
                                     /\ KeyLive(keys[k], now) \/ keys'[k].expires = now + Window
         /\ calls'[c].pc = "writing" => keys'[k].started
  <1> DEFINE x == NewCall(p, tok, k, a)
             row == CheckAndRecord(keys[k], plans[p].hash, now)
  <1>1. /\ x.plan = p /\ x.key = k /\ x.pc = "checking"
        /\ \A v : Finished(x, v).pc = "done"
    BY DEF NewCall, Finished
  <1>2. Sent(c, p, k) /\ now' = now
    BY EntryFrame DEF Entered
  <1>3. \A j \in Keys : keys[j] \in KeyRow(Calls)
    BY DEF TypeOK
  <1>4. row = IF KeyLive(keys[k], now) THEN keys[k]
              ELSE [hash |-> plans[p].hash, receipt |-> None, started |-> FALSE, expires |-> now + Window]
    BY DEF CheckAndRecord
  <1>5. row \in KeyRow(Calls)
    <2>1. plans[p] \in PlanRow /\ now \in Nat
      BY DEF TypeOK
    <2> QED BY <1>3, <1>4, <2>1 DEF KeyRow, PlanRow
  <1>6. /\ MarkApplyStarted(row).hash = row.hash /\ MarkApplyStarted(row).expires = row.expires
        /\ MarkApplyStarted(row).started
    BY <1>5, RowSteps
  <1>7. \A q \in Plans : OwnKey[q] = k => Present(q)
    BY <1>2 DEF Sent, Present
  <1>8. Open(p, k) => row.hash = plans[p].hash /\ (KeyLive(keys[k], now) \/ row.expires = now + Window)
    BY <1>4 DEF Open
  <1>9. KeyLive(keys[k], now) => row.hash = keys[k].hash /\ row.expires = keys[k].expires /\ row.started = keys[k].started
    BY <1>4
  <1>10. ~KeyLive(keys[k], now) => row.expires = now + Window
    BY <1>4
  <1> HIDE DEF x, row
  <1>11. CASE keys' = keys /\ calls'[c].pc = "done"
    BY <1>11 DEF RowStays
  <1>12. CASE keys' = [keys EXCEPT ![k] = row] /\ calls'[c].pc # "writing" /\ (calls'[c].pc # "done" => Open(p, k))
    <2>1. keys'[k] = row /\ \A j \in Keys : j # k => keys'[j] = keys[j]
      BY <1>12 DEF TypeOK
    <2> QED BY <1>2, <1>7, <1>8, <1>9, <1>10, <1>12, <2>1 DEF RowStays, RowRenewed
  <1>13. CASE keys' = [keys EXCEPT ![k] = MarkApplyStarted(row)] /\ Open(p, k)
    <2>1. keys'[k] = MarkApplyStarted(row) /\ \A j \in Keys : j # k => keys'[j] = keys[j]
      BY <1>13 DEF TypeOK
    <2> QED BY <1>2, <1>6, <1>7, <1>8, <1>9, <1>10, <1>13, <2>1 DEF RowStays, RowRenewed
  <1>14. ASSUME NEW v \in Errors, RefusedAtEntry(c, x, v) PROVE keys' = keys /\ calls'[c].pc = "done"
    BY <1>1, <1>14 DEF RefusedAtEntry, TypeOK
  <1>15. ASSUME NEW v \in Errors, RefusedReserved(c, x, v) \/ RefusedSpent(c, x)
         PROVE  keys' = [keys EXCEPT ![k] = row] /\ calls'[c].pc = "done"
    BY <1>1, <1>15 DEF RefusedReserved, RefusedSpent, Reserve, TypeOK, row
  <1>16. ASSUME GoesToRead(c, x) PROVE keys' = [keys EXCEPT ![k] = row] /\ calls'[c].pc = "checking"
    BY <1>1, <1>16 DEF GoesToRead, Reserve, TypeOK, row
  <1>17. ASSUME SentAtOnce(c, x) PROVE keys' = [keys EXCEPT ![k] = MarkApplyStarted(row)]
    BY <1>1, <1>17 DEF SentAtOnce, TypeOK, row
  <1>18. \/ \E v \in Errors : RefusedAtEntry(c, x, v)
         \/ Open(p, k) /\ \/ \E v \in Errors : RefusedReserved(c, x, v)
                          \/ RefusedSpent(c, x)
                          \/ GoesToRead(c, x)
                          \/ SentAtOnce(c, x)
    BY DEF Entered, x
  <1>19. "INTERNAL" \in Errors
    BY DEF Errors, Codes
  <1> QED BY <1>11, <1>12, <1>13, <1>14, <1>15, <1>16, <1>17, <1>18, <1>19

\* A later stretch keeps every reservation; the check that passes marks its own.
LEMMA LaterKeys ==
  ASSUME TypeOK, PlanInv, CallInv, NEW c \in Calls, Later(c)
  PROVE  /\ \A j \in Keys : RowStays(j)
         /\ (calls'[c].pc = "locating" \/ wire'[c] # "none")
              /\ ~(calls[c].pc = "locating" \/ wire[c] # "none")
              => keys'[calls[c].key].started
  <1>1. /\ c \in InFlight /\ calls[c] \in MadeCall /\ calls[c].key \in Keys
    <2>1. c \in InFlight
      BY LaterFrame
    <2> QED BY <2>1, MadeTypes DEF InFlight
  <1>2. \A j \in Keys : keys[j] \in KeyRow(Calls)
    BY DEF TypeOK
  <1>3. CASE CheckPasses(c)
    <2>1. keys' = [keys EXCEPT ![calls[c].key] = MarkApplyStarted(@)]
      BY <1>3 DEF CheckPasses, Started
    <2>2. keys'[calls[c].key] = MarkApplyStarted(keys[calls[c].key])
          /\ \A j \in Keys : j # calls[c].key => keys'[j] = keys[j]
      BY <1>1, <2>1 DEF TypeOK
    <2> QED BY <1>1, <1>2, <2>2, RowSteps DEF RowStays
  <1>4. ASSUME NEW done \in 0..3, Settled(c, done) PROVE (\A j \in Keys : RowStays(j)) /\ wire' = wire /\ calls'[c].pc = "done"
    <2>1. /\ keys' = IF done = 3 THEN [keys EXCEPT ![calls[c].key] = SaveReceipt(@, c)] ELSE keys
          /\ wire' = wire
          /\ \E code : calls' = [calls EXCEPT ![c].pc = "done", ![c].out = code]
      BY <1>4 DEF Settled, Settle, Answer
    <2>2. calls'[c].pc = "done"
      BY <1>1, <2>1 DEF TypeOK, MadeCall
    <2>3. \A j \in Keys : keys'[j] = keys[j] \/ keys'[j] = SaveReceipt(keys[j], c)
      BY <1>1, <2>1 DEF TypeOK
    <2>4. \A j \in Keys : /\ SaveReceipt(keys[j], c).hash = keys[j].hash
                          /\ SaveReceipt(keys[j], c).expires = keys[j].expires
                          /\ SaveReceipt(keys[j], c).started = keys[j].started
      BY <1>2, RowSteps
    <2>5. \A j \in Keys : RowStays(j)
      BY <2>3, <2>4 DEF RowStays
    <2> QED BY <2>1, <2>2, <2>5
  <1>5. CASE Refused(c) \/ SnowReads(c) \/ Deciding(c)
    <2>1. keys' = keys /\ wire' = wire
      BY <1>5 DEF Refused, Refuse, SnowReads, Deciding
    <2>2. calls'[c].pc # "locating"
      <3>1. \/ \E code \in Errors : calls' = [calls EXCEPT ![c].pc = "done", ![c].out = code]
            \/ \E s \in {target, None} : calls' = [calls EXCEPT ![c].pc = "checked", ![c].seen = s]
            \/ calls' = [calls EXCEPT ![c].pc = "proving"]
        BY <1>5 DEF Refused, Refuse, Answer, SnowReads, Deciding
      <3> QED BY <1>1, <3>1 DEF TypeOK, MadeCall
    <2> QED BY <2>1, <2>2 DEF RowStays
  <1>6. CASE SendLocated(c)
    BY <1>6 DEF SendLocated, RowStays
  <1> QED BY <1>3, <1>4, <1>5, <1>6 DEF Later

\* Every step keeps a reservation, or replaces a dead one.
LEMMA StepRows ==
  TypeOK /\ PlanInv /\ CallInv /\ Shaped => \A k \in Keys : RowStays(k) \/ RowRenewed(k)
  <1> SUFFICES ASSUME TypeOK, PlanInv, CallInv, Shaped PROVE \A k \in Keys : RowStays(k) \/ RowRenewed(k)
    OBVIOUS
  <1>1. ASSUME NEW p \in Plans, NEW h \in Hashes, NEW a \in Actors, Planned(p, h, a)
        PROVE  \A k \in Keys : RowStays(k) \/ RowRenewed(k)
    <2>1. /\ now' = now
          /\ \A q \in Keys : q # OwnKey[p] => keys'[q] = keys[q]
          /\ tool = "order" => keys' = keys
          /\ tool # "order" => /\ ~KeyLive(keys[OwnKey[p]], now)
                               /\ keys'[OwnKey[p]] = [hash |-> h, receipt |-> None, started |-> FALSE,
                                                      expires |-> now + Window]
      BY <1>1, PlanFrame
    <2> QED BY <2>1 DEF RowStays, RowRenewed
  <1>2. ASSUME NEW c \in Calls, NEW p \in Plans, NEW tok \in Plans, NEW k \in Keys, NEW a \in Actors,
               Entered(c, p, tok, k, a)
        PROVE  \A j \in Keys : RowStays(j) \/ RowRenewed(j)
    BY <1>2, EntryKeys
  <1>3. ASSUME NEW c \in Calls, Later(c) PROVE \A j \in Keys : RowStays(j)
    BY <1>3, LaterKeys
  <1>4. CASE Crash
    BY <1>4 DEF Crash, RowStays
  <1>5. CASE Outside
    BY <1>5, OutsideFrame DEF RowStays
  <1> QED BY <1>1, <1>2, <1>3, <1>4, <1>5 DEF Shaped, Later, Outside

\* A plan's own key outlives the plan, whoever reserves it and when.
LEMMA StepKeyInv == PlanTTL <= Window /\ TypeOK /\ PlanInv /\ CallInv /\ KeyInv /\ Shaped => KeyInv'
  <1> SUFFICES ASSUME PlanTTL <= Window, TypeOK, PlanInv, CallInv, KeyInv, Shaped, NEW p \in Plans
               PROVE  /\ plans'[p].state # "absent" /\ keys'[OwnKey[p]].hash # None
                           => plans'[p].expires <= keys'[OwnKey[p]].expires
                      /\ plans'[p].state = "absent" /\ tool' = "order" => keys'[OwnKey[p]].hash = None
    BY DEF KeyInv, Present
  <1> DEFINE k == OwnKey[p]
  <1>1. /\ k \in Keys /\ now \in Nat /\ plans[p] \in PlanRow /\ keys[k] \in KeyRow(Calls)
        /\ plans[p].expires \in Nat /\ keys[k].expires \in Nat
    BY DEF TypeOK, PlanRow, KeyRow
  <1>2. Kept /\ (RowStays(k) \/ RowRenewed(k))
    BY <1>1, StepKept, StepRows
  <1>3. plans'[p].state = "absent" /\ tool' = "order" => keys'[k].hash = None
    BY <1>2 DEF Kept, RowStays, RowRenewed, KeyInv, Present
  <1>4. Present(p) /\ keys'[k].hash # None => plans'[p].expires <= keys'[k].expires
    BY <1>1, <1>2 DEF Kept, RowStays, RowRenewed, KeyInv, PlanInv
  <1>5. ASSUME ~Present(p), plans'[p].state # "absent", keys'[k].hash # None
        PROVE  plans'[p].expires <= keys'[k].expires
    <2>1. PICK h \in Hashes, a \in Actors : Planned(p, h, a)
      <3>1. ASSUME NEW q \in Plans, NEW h \in Hashes, NEW a \in Actors, Planned(q, h, a), q # p PROVE FALSE
        <4>1. plans'[p] = plans[p]
          BY <3>1, PlanFrame, ZenonT(60)
        <4> QED BY <1>5, <4>1 DEF Present
      <3>2. ASSUME NEW c \in Calls, NEW q \in Plans, NEW tok \in Plans, NEW j \in Keys, NEW a \in Actors,
                   Entered(c, q, tok, j, a)
            PROVE  FALSE
        BY <1>5, <3>2, EntryFrame
      <3>3. ASSUME NEW c \in Calls, Later(c) PROVE FALSE
        BY <1>5, <3>3, LaterFrame
      <3>4. CASE Crash
        BY <1>5, <3>4 DEF Crash, Present
      <3>5. CASE Outside
        <4>1. plans' = plans
          BY <3>5, OutsideFrame
        <4> QED BY <1>5, <4>1 DEF Present
      <3> QED BY <3>1, <3>2, <3>3, <3>4, <3>5 DEF Shaped, Later, Outside
    <2>2. /\ plans'[p] = PutPlan(h, target, now)
          /\ tool = "order" => keys' = keys
          /\ tool # "order" => keys'[k] = [hash |-> h, receipt |-> None, started |-> FALSE,
                                           expires |-> now + Window]
      BY <2>1, PlanFrame
    <2>3. tool # "order"
      BY <1>5, <2>2 DEF KeyInv
    <2> QED BY <1>1, <2>2, <2>3 DEF PutPlan
  <1> QED BY <1>3, <1>4, <1>5

\* A call under its plan's own key keeps the reservation while the plan lives, and its mark.
LEMMA StepMark ==
  PlanTTL <= Window /\ TypeOK /\ SafeInv /\ KeyInv /\ MarkInv /\ Shaped => MarkInv'
  <1> SUFFICES ASSUME PlanTTL <= Window, TypeOK, SafeInv, KeyInv, MarkInv, Shaped,
                      NEW c \in Calls, calls'[c].pc # "idle", calls'[c].key = OwnKey[calls'[c].plan]
               PROVE  LET p == calls'[c].plan
                          k == calls'[c].key
                      IN /\ c \in InFlight' \/ wire'[c] # "none" =>
                              \/ plans'[p].expires <= now'
                              \/ KeyLive(keys'[k], now') /\ keys'[k].hash = plans'[p].hash
                         /\ calls'[c].pc = "locating" \/ wire'[c] # "none" =>
                              plans'[p].expires <= now' \/ keys'[k].started
    BY DEF MarkInv, Own
  <1> USE DEF SafeInv
  <1>0. Kept /\ now \in Nat /\ now' \in Nat
    <2>1. TypeOK'
      BY StepTypeShaped
    <2> QED BY <2>1, StepKept DEF TypeOK
  <1> DEFINE p == calls'[c].plan
             k == calls'[c].key
             Held == \/ plans'[p].expires <= now'
                     \/ KeyLive(keys'[k], now') /\ keys'[k].hash = plans'[p].hash
             Marked == plans'[p].expires <= now' \/ keys'[k].started
  <1>1. ASSUME calls[c].pc # "idle",
               c \in InFlight' \/ wire'[c] # "none" => c \in InFlight \/ wire[c] # "none"
        PROVE  /\ c \in InFlight' \/ wire'[c] # "none" => Held
               /\ calls[c].pc = "locating" \/ wire[c] # "none" => Marked
    <2>1. /\ p = calls[c].plan /\ k = calls[c].key /\ p \in Plans /\ k \in Keys /\ Own(c)
          /\ plans[p].expires \in Nat /\ keys[k].expires \in Nat
      BY <1>0, <1>1, MadeTypes DEF Kept, Own, PlanRow, KeyRow
    <2>2. c \in InFlight \/ wire[c] # "none" =>
            /\ Present(p) /\ plans'[p].expires = plans[p].expires /\ plans'[p].hash = plans[p].hash
            /\ plans[p].hash \in Hashes
      BY <1>0, <2>1 DEF Kept, CallInv, PlanInv
    <2>3. c \in InFlight \/ wire[c] # "none" =>
            plans[p].expires <= now \/ (KeyLive(keys[k], now) /\ keys[k].hash = plans[p].hash)
      BY <2>1 DEF MarkInv
    <2>4. calls[c].pc = "locating" \/ wire[c] # "none" => plans[p].expires <= now \/ keys[k].started
      BY <2>1 DEF MarkInv
    <2>5. calls[c].pc = "locating" => c \in InFlight
      BY DEF InFlight
    <2>6. RowStays(k) \/ RowRenewed(k)
      BY <2>1, StepRows
    <2>7. now <= now'
      BY <1>0 DEF Kept
    <2> HIDE DEF p, k
    <2>8. c \in InFlight \/ wire[c] # "none" =>
            plans[p].expires <= now \/ (RowStays(k) /\ KeyLive(keys[k], now) /\ keys[k].hash = plans[p].hash)
      BY <2>3, <2>6 DEF RowRenewed
    <2>9. c \in InFlight \/ wire[c] # "none" => Held
      <3>1. keys[k].hash = plans[p].hash /\ plans[p].hash \in Hashes /\ Present(p) => plans[p].expires <= keys[k].expires
        BY <2>1 DEF KeyInv, Own, p, k
      <3> QED BY <1>0, <2>1, <2>2, <2>7, <2>8, <3>1 DEF RowStays, KeyLive
    <2>10. calls[c].pc = "locating" \/ wire[c] # "none" => Marked
      BY <1>0, <2>1, <2>2, <2>4, <2>5, <2>7, <2>8 DEF RowStays
    <2> QED BY <1>1, <2>9, <2>10
  <1>2. ASSUME NEW q \in Plans, NEW tok \in Plans, NEW j \in Keys, NEW a \in Actors, Entered(c, q, tok, j, a)
        PROVE  /\ c \in InFlight' \/ wire'[c] # "none" => Held
               /\ calls'[c].pc = "locating" \/ wire'[c] # "none" => Marked
    <2>1. /\ p = q /\ k = j /\ now' = now
          /\ plans'[q].hash = plans[q].hash
          /\ calls'[c].pc \in {"done", "checking", "writing"}
          /\ calls'[c].pc # "done" => Open(q, j)
          /\ calls'[c].pc # "writing" => wire'[c] = "none"
      BY <1>2, EntryFrame
    <2>2. /\ RowStays(j) \/ RowRenewed(j)
          /\ calls'[c].pc # "done" => /\ keys'[j].hash = plans[q].hash
                                      /\ KeyLive(keys[j], now) \/ keys'[j].expires = now + Window
          /\ calls'[c].pc = "writing" => keys'[j].started
      BY <1>2, EntryKeys
    <2>3. calls'[c].pc = "done" => c \notin InFlight'
      BY DEF InFlight
    <2>4. calls'[c].pc # "done" => KeyLive(keys'[j], now')
      <3>1. calls'[c].pc # "done" => /\ now < plans[q].expires /\ plans[q].expires <= now + PlanTTL
                                     /\ plans[q].hash \in Hashes
        BY <2>1 DEF Open, PlanInv
      <3>2. plans[q].expires \in Nat /\ keys[j].expires \in Nat
        BY DEF TypeOK, PlanRow, KeyRow
      <3>3. calls'[c].pc # "done" => now < now + Window
        BY <1>0, <3>1, <3>2
      <3> QED BY <1>0, <2>1, <2>2, <3>1, <3>2, <3>3 DEF RowStays, RowRenewed, KeyLive
    <2> HIDE DEF p, k
    <2> QED BY <2>1, <2>2, <2>3, <2>4
  <1>3. ASSUME NEW d \in Calls, NEW q \in Plans, NEW tok \in Plans, NEW j \in Keys, NEW a \in Actors,
               Entered(d, q, tok, j, a), d # c
        PROVE  calls'[c] = calls[c] /\ wire'[c] = wire[c]
    BY <1>3, EntryFrame DEF Others
  <1>4. ASSUME NEW d \in Calls, Later(d), d # c PROVE calls'[c] = calls[c] /\ wire'[c] = wire[c]
    BY <1>4, LaterFrame DEF Others
  <1>5. ASSUME calls'[c] = calls[c], wire[c] = "none" <=> wire'[c] = "none"
        PROVE  /\ c \in InFlight' \/ wire'[c] # "none" => Held
               /\ calls'[c].pc = "locating" \/ wire'[c] # "none" => Marked
    <2>1. calls[c].pc # "idle" /\ (c \in InFlight' <=> c \in InFlight)
      BY <1>5 DEF InFlight
    <2> QED BY <1>1, <1>5, <2>1
  <1>6. ASSUME Later(c)
        PROVE  /\ c \in InFlight' \/ wire'[c] # "none" => Held
               /\ calls'[c].pc = "locating" \/ wire'[c] # "none" => Marked
    <2>1. c \in InFlight /\ calls[c].pc # "idle" /\ k = calls[c].key
      <3>1. c \in InFlight /\ calls'[c].key = calls[c].key
        BY <1>6, LaterFrame
      <3> QED BY <3>1 DEF InFlight
    <2>2. (calls'[c].pc = "locating" \/ wire'[c] # "none") /\ ~(calls[c].pc = "locating" \/ wire[c] # "none")
            => keys'[k].started
      BY <1>6, <2>1, LaterKeys
    <2>3. /\ c \in InFlight' \/ wire'[c] # "none" => Held
          /\ calls[c].pc = "locating" \/ wire[c] # "none" => Marked
      BY <1>1, <2>1
    <2> QED BY <2>2, <2>3
  <1>7. ASSUME Crash
        PROVE  /\ c \in InFlight' \/ wire'[c] # "none" => Held
               /\ calls'[c].pc = "locating" \/ wire'[c] # "none" => Marked
    <2>1. \/ calls'[c] = calls[c] /\ wire'[c] = wire[c]
          \/ c \in InFlight /\ calls'[c].pc = "dropped" /\ wire'[c] = wire[c]
      BY <1>7, CrashFrame
    <2>2. CASE calls'[c] = calls[c]
      BY <1>5, <2>1, <2>2
    <2>3. CASE c \in InFlight /\ calls'[c].pc = "dropped" /\ wire'[c] = wire[c]
      <3>1. calls[c].pc # "idle" /\ c \notin InFlight'
        BY <2>3 DEF InFlight
      <3> QED BY <1>1, <2>3, <3>1
    <2> QED BY <2>1, <2>2, <2>3
  <1>8. ASSUME NEW q \in Plans, NEW h \in Hashes, NEW a \in Actors, Planned(q, h, a)
        PROVE  calls'[c] = calls[c] /\ wire'[c] = wire[c]
    <2>1. UNCHANGED <<calls, wire>>
      BY <1>8, PlanFrame
    <2> QED BY <2>1
  <1>9. ASSUME Outside
        PROVE  /\ c \in InFlight' \/ wire'[c] # "none" => Held
               /\ calls'[c].pc = "locating" \/ wire'[c] # "none" => Marked
    <2>1. calls' = calls /\ (wire[c] = "none" <=> wire'[c] = "none")
      BY <1>9, OutsideFrame
    <2> QED BY <1>5, <2>1
  <1>10. \/ \E q \in Plans, h \in Hashes, a \in Actors : Planned(q, h, a)
         \/ \E d \in Calls, q, tok \in Plans, j \in Keys, a \in Actors : Entered(d, q, tok, j, a)
         \/ \E d \in Calls : Later(d)
         \/ Crash \/ Outside
    BY DEF Shaped, Later, Outside
  <1>11. /\ c \in InFlight' \/ wire'[c] # "none" => Held
         /\ calls'[c].pc = "locating" \/ wire'[c] # "none" => Marked
    <2> HIDE DEF Held, Marked, p, k
    <2>1. ASSUME NEW d \in Calls, NEW q \in Plans, NEW tok \in Plans, NEW j \in Keys, NEW a \in Actors,
                 Entered(d, q, tok, j, a)
          PROVE  /\ c \in InFlight' \/ wire'[c] # "none" => Held
                 /\ calls'[c].pc = "locating" \/ wire'[c] # "none" => Marked
      <3>1. CASE d = c
        BY <1>2, <2>1, <3>1
      <3>2. CASE d # c
        BY <1>3, <1>5, <2>1, <3>2
      <3> QED BY <3>1, <3>2
    <2>2. ASSUME NEW d \in Calls, Later(d)
          PROVE  /\ c \in InFlight' \/ wire'[c] # "none" => Held
                 /\ calls'[c].pc = "locating" \/ wire'[c] # "none" => Marked
      <3>1. CASE d = c
        BY <1>6, <2>2, <3>1
      <3>2. CASE d # c
        BY <1>4, <1>5, <2>2, <3>2
      <3> QED BY <3>1, <3>2
    <2>3. ASSUME NEW q \in Plans, NEW h \in Hashes, NEW a \in Actors, Planned(q, h, a)
          PROVE  /\ c \in InFlight' \/ wire'[c] # "none" => Held
                 /\ calls'[c].pc = "locating" \/ wire'[c] # "none" => Marked
      BY <1>5, <1>8, <2>3
    <2> QED BY <1>7, <1>9, <1>10, <2>1, <2>2, <2>3
  <1> QED BY <1>11

\* Serving an hours request bumps the card.
LEMMA StepServed == TypeOK /\ SafeInv /\ ServedInv /\ Shaped => ServedInv'
  <1> SUFFICES ASSUME TypeOK, SafeInv, ServedInv, Shaped, NEW c \in Calls, tool' = "hours", wire'[c] = "applied"
               PROVE  plans'[calls'[c].plan].token < target'
    BY DEF ServedInv
  <1> USE DEF SafeInv
  <1>0. Kept /\ target \in Nat /\ target' \in Nat
    <2>1. TypeOK'
      BY StepTypeShaped
    <2> QED BY <2>1, StepKept DEF TypeOK
  <1>1. ASSUME wire[c] # "none"
        PROVE  /\ calls'[c].plan = calls[c].plan
               /\ plans'[calls[c].plan].token = plans[calls[c].plan].token
               /\ plans[calls[c].plan].token \in Nat
               /\ plans[calls[c].plan].token <= target
    <2>1. calls[c].pc # "idle"
      BY <1>1 DEF CallInv
    <2>2. calls[c].plan \in Plans /\ Present(calls[c].plan) /\ plans[calls[c].plan] \in PlanRow
      BY <1>1, <2>1, MadeTypes DEF CallInv
    <2> QED BY <1>0, <2>1, <2>2 DEF Kept, PlanInv, PlanRow
  <1>2. CASE wire[c] = "applied"
    BY <1>0, <1>1, <1>2 DEF ServedInv, Kept
  <1>3. CASE wire[c] # "applied"
    <2>1. ASSUME NEW d \in Calls, SnowApplies(d) PROVE wire[c] = "posted" /\ target' = target + 1
      <3>1. d = c
        BY <1>3, <2>1 DEF SnowApplies, TypeOK
      <3> QED BY <1>0, <2>1, <3>1 DEF SnowApplies, Updates, Kept
    <2>2. ASSUME NEW d \in Calls, SnowRejects(d) PROVE FALSE
      BY <1>3, <2>2 DEF SnowRejects, TypeOK
    <2>3. ASSUME NEW p \in Plans, NEW h \in Hashes, NEW a \in Actors, Planned(p, h, a) PROVE FALSE
      <3>1. wire' = wire
        BY <2>3, PlanFrame
      <3> QED BY <1>3, <3>1
    <2>4. ASSUME NEW d \in Calls, NEW p \in Plans, NEW tok \in Plans, NEW k \in Keys, NEW a \in Actors,
                 Entered(d, p, tok, k, a)
          PROVE  FALSE
      <3>1. /\ Others(d)
            /\ calls'[d].pc \in {"done", "checking", "writing"}
            /\ calls'[d].pc \in {"done", "checking"} => wire'[d] = "none"
            /\ calls'[d].pc = "writing" => wire'[d] = "posted"
        BY <2>4, EntryFrame
      <3> QED BY <1>3, <3>1 DEF Others
    <2>5. ASSUME NEW d \in Calls, Later(d) PROVE FALSE
      <3>1. Others(d) /\ wire'[d] \in {wire[d], "posted"}
        BY <2>5, LaterFrame
      <3> QED BY <1>3, <3>1 DEF Others
    <2>6. ASSUME Crash \/ ForeignEdit \/ Tick \/ UNCHANGED vars PROVE FALSE
      BY <1>3, <2>6 DEF Crash, ForeignEdit, Tick, vars
    <2>7. \E d \in Calls : SnowApplies(d)
      BY <2>2, <2>3, <2>4, <2>5, <2>6 DEF Shaped, Later
    <2>8. wire[c] = "posted" /\ target' = target + 1
      BY <2>1, <2>7
    <2> QED BY <1>0, <1>1, <2>8
  <1> QED BY <1>2, <1>3

\* A late call is turned away: by the mark, or by the card's version.
LEMMA StepLate ==
  TypeOK /\ SafeInv /\ MarkInv /\ ServedInv /\ LateInv /\ Shaped => LateInv'
  <1> SUFFICES ASSUME TypeOK, SafeInv, MarkInv, ServedInv, LateInv, Shaped, NEW c \in Calls, calls'[c].late
               PROVE  /\ wire'[c] = "none"
                      /\ tool' # "hours" => calls'[c].pc \in {"done", "dropped"}
                      /\ tool' = "hours" =>
                           /\ plans'[calls'[c].plan].state # "absent"
                           /\ plans'[calls'[c].plan].token < target'
                           /\ calls'[c].pc \notin {"locating", "writing", "proving"}
                           /\ calls'[c].pc = "checked" => calls'[c].seen # plans'[calls'[c].plan].token
    BY DEF LateInv, Present
  <1> USE DEF SafeInv
  <1>0. Kept /\ target \in Nat /\ target' \in Nat /\ \A q \in Plans : plans[q].token \in Nat
    <2>1. TypeOK'
      BY StepTypeShaped
    <2> QED BY <2>1, StepKept DEF TypeOK, PlanRow
  <1> DEFINE Goal == /\ wire'[c] = "none"
                     /\ tool' # "hours" => calls'[c].pc \in {"done", "dropped"}
                     /\ tool' = "hours" =>
                          /\ plans'[calls'[c].plan].state # "absent"
                          /\ plans'[calls'[c].plan].token < target'
                          /\ calls'[c].pc \notin {"locating", "writing", "proving"}
                          /\ calls'[c].pc = "checked" => calls'[c].seen # plans'[calls'[c].plan].token
  <1>1. ASSUME calls[c].pc # "idle"
        PROVE  /\ calls[c].late /\ wire[c] = "none" /\ calls[c].plan \in Plans
               /\ calls'[c].plan = calls[c].plan
               /\ tool' = tool
               /\ tool # "hours" => calls[c].pc \in {"done", "dropped"}
               /\ tool = "hours" => /\ plans'[calls[c].plan].state # "absent"
                                    /\ plans'[calls[c].plan].token = plans[calls[c].plan].token
                                    /\ plans'[calls[c].plan].token < target'
                                    /\ plans[calls[c].plan].token < target
                                    /\ calls[c].pc \notin {"locating", "writing", "proving"}
                                    /\ calls[c].pc = "checked" => calls[c].seen # plans[calls[c].plan].token
    <2>1. calls[c].plan \in Plans /\ calls[c].late /\ calls'[c].plan = calls[c].plan /\ tool' = tool
      BY <1>0, <1>1, MadeTypes DEF Kept
    <2> QED BY <1>0, <2>1 DEF LateInv, Kept
  <1>2. ASSUME calls[c].pc # "idle",
               calls'[c] = calls[c] \/ (calls'[c].pc \in {"done", "dropped"}),
               wire[c] = "none" => wire'[c] = "none"
        PROVE  Goal
    BY <1>1, <1>2
  <1>3. ASSUME calls'[c] = calls[c] PROVE calls[c].pc # "idle"
    BY <1>3 DEF TypeOK, NoCall, MadeCall
  <1>4. ASSUME NEW p \in Plans, NEW tok \in Plans, NEW k \in Keys, NEW a \in Actors, Entered(c, p, tok, k, a)
        PROVE  Goal
    <2>1. /\ calls'[c].plan = p /\ Late(p, k)
          /\ tool' = tool /\ target' = target
          /\ Present(p) <=> plans'[p].state # "absent"
          /\ plans'[p].token = plans[p].token
          /\ calls'[c].pc \in {"done", "checking", "writing"}
          /\ calls'[c].pc # "done" => Open(p, k)
          /\ calls'[c].pc = "checking" => wire'[c] = "none"
          /\ calls'[c].pc = "writing" => tool # "hours"
          /\ calls'[c].pc = "done" => wire'[c] = "none"
      BY <1>4, EntryFrame
    <2>2. PICK d \in Calls : /\ calls[d].plan = p /\ calls[d].key = k /\ k = OwnKey[p]
                             /\ IF tool = "hours" THEN wire[d] = "applied" ELSE wire[d] # "none"
      BY <2>1 DEF Late
    <2>3. wire[d] # "none" /\ calls[d].pc # "idle"
      BY <2>2 DEF CallInv
    <2>4. Own(d) /\ Present(p)
      BY <2>2, <2>3 DEF Own, CallInv
    <2>5. CASE tool = "hours"
      <3>1. plans[p].token < target
        BY <2>2, <2>5 DEF ServedInv
      <3> QED BY <2>1, <2>4, <2>5, <3>1
    <2>6. CASE tool # "hours"
      <3>1. \/ plans[p].expires <= now
            \/ KeyLive(keys[k], now) /\ keys[k].started
        BY <2>2, <2>3, <2>4 DEF MarkInv
      <3>2. plans[p].expires \in Nat /\ now \in Nat
        BY DEF TypeOK, PlanRow
      <3>3. ~Open(p, k)
        BY <2>6, <3>1, <3>2 DEF Open
      <3> QED BY <2>1, <2>6, <3>3
    <2> QED BY <2>5, <2>6
  <1>5. ASSUME NEW d \in Calls, NEW p \in Plans, NEW tok \in Plans, NEW k \in Keys, NEW a \in Actors,
               Entered(d, p, tok, k, a), d # c
        PROVE  Goal
    <2>1. calls'[c] = calls[c] /\ wire'[c] = wire[c]
      BY <1>5, EntryFrame DEF Others
    <2> QED BY <1>2, <1>3, <2>1
  <1>6. ASSUME NEW d \in Calls, Later(d), d # c PROVE Goal
    <2>1. calls'[c] = calls[c] /\ wire'[c] = wire[c]
      BY <1>6, LaterFrame DEF Others
    <2> QED BY <1>2, <1>3, <2>1
  <1>7. ASSUME Later(c) PROVE Goal
    <2>1. /\ c \in InFlight /\ calls[c].pc # "idle" /\ calls[c] \in MadeCall
          /\ tool = "hours" /\ wire[c] = "none" /\ calls[c].pc \in {"checking", "checked"}
      <3>1. c \in InFlight
        BY <1>7, LaterFrame
      <3>2. calls[c].pc # "idle" /\ calls[c] \in MadeCall
        BY <3>1, MadeTypes DEF InFlight
      <3> QED BY <1>1, <3>1, <3>2 DEF InFlight, MadeCall
    <2>2. ASSUME NEW code \in Errors, Refuse(c, code) PROVE Goal
      <3>1. calls' = [calls EXCEPT ![c].pc = "done", ![c].out = code] /\ wire' = wire
        BY <2>2 DEF Refuse, Answer
      <3>2. calls'[c].pc = "done" /\ wire'[c] = wire[c]
        BY <2>1, <3>1 DEF TypeOK, MadeCall
      <3> QED BY <1>2, <2>1, <3>2
    <2>3. CASE SnowReads(c)
      <3>1. PICK s \in {target, None} : calls' = [calls EXCEPT ![c].pc = "checked", ![c].seen = s]
        BY <2>3 DEF SnowReads
      <3>2. wire' = wire
        BY <2>3 DEF SnowReads
      <3>3. calls'[c].pc = "checked" /\ calls'[c].seen = s
        BY <2>1, <3>1 DEF TypeOK, MadeCall
      <3>4. s # plans[calls[c].plan].token
        <4>1. plans[calls[c].plan].token < target /\ plans[calls[c].plan].token \in Nat
          BY <1>0, <1>1, <2>1
        <4>2. None # plans[calls[c].plan].token
          BY <4>1
        <4> QED BY <1>0, <4>1, <4>2
      <3> QED BY <1>1, <2>1, <3>2, <3>3, <3>4
    <2>4. ~CheckPasses(c)
      <3>1. calls[c].pc = "checked" => calls[c].seen # plans[calls[c].plan].token
        BY <1>1, <2>1
      <3> QED BY <2>1, <3>1 DEF CheckPasses, SameVersion
    <2>5. ~SendLocated(c) /\ ~Deciding(c) /\ \A done \in 0..3 : ~Settled(c, done)
      BY <2>1 DEF SendLocated, Deciding, Settled
    <2> HIDE DEF Goal
    <2> QED BY <1>7, <2>2, <2>3, <2>4, <2>5 DEF Later, Refused
  <1>8. ASSUME NEW p \in Plans, NEW h \in Hashes, NEW a \in Actors, Planned(p, h, a) PROVE Goal
    <2>1. calls' = calls /\ wire' = wire
      BY <1>8, PlanFrame
    <2> QED BY <1>2, <1>3, <2>1
  <1>9. ASSUME Crash PROVE Goal
    <2>1. \/ calls'[c] = calls[c] /\ wire'[c] = wire[c]
          \/ c \in InFlight /\ calls'[c].pc = "dropped" /\ wire'[c] = wire[c]
      BY <1>9, CrashFrame
    <2>2. c \in InFlight => calls[c].pc # "idle"
      BY DEF InFlight
    <2> QED BY <1>2, <1>3, <2>1, <2>2
  <1>10. ASSUME Outside PROVE Goal
    <2>1. calls' = calls /\ (wire[c] = "none" <=> wire'[c] = "none")
      BY <1>10, OutsideFrame
    <2> QED BY <1>2, <1>3, <2>1
  <1>11. \/ \E q \in Plans, h \in Hashes, a \in Actors : Planned(q, h, a)
         \/ \E d \in Calls, q, tok \in Plans, j \in Keys, a \in Actors : Entered(d, q, tok, j, a)
         \/ \E d \in Calls : Later(d)
         \/ Crash \/ Outside
    BY DEF Shaped, Later, Outside
  <1>12. Goal
    <2> HIDE DEF Goal
    <2>1. ASSUME NEW d \in Calls, NEW q \in Plans, NEW tok \in Plans, NEW j \in Keys, NEW a \in Actors,
                 Entered(d, q, tok, j, a)
          PROVE  Goal
      <3>1. CASE d = c
        BY <1>4, <2>1, <3>1
      <3>2. CASE d # c
        BY <1>5, <2>1, <3>2
      <3> QED BY <3>1, <3>2
    <2>2. ASSUME NEW d \in Calls, Later(d) PROVE Goal
      <3>1. CASE d = c
        BY <1>7, <2>2, <3>1
      <3>2. CASE d # c
        BY <1>6, <2>2, <3>2
      <3> QED BY <3>1, <3>2
    <2> QED BY <1>8, <1>9, <1>10, <1>11, <2>1, <2>2
  <1> QED BY <1>12

\* With a plan that dies before its reservation, a call that comes after a request went out
\* sends nothing (the started mark; for hours the card's version).
THEOREM LateRefused == Spec => []LateCallsRefused
  <1>1. CASE ~(PlanTTL <= Window)
    <2>1. LateCallsRefused
      BY <1>1 DEF LateCallsRefused
    <2> QED BY <2>1, PTL
  <1>2. CASE PlanTTL <= Window
    <2>1. Init => TypeOK /\ SafeInv /\ RetryInv
      <3> SUFFICES ASSUME Init PROVE TypeOK /\ SafeInv /\ RetryInv
        OBVIOUS
      <3>1. \A c \in Calls : calls[c] = NoCall /\ wire[c] = "none"
        BY DEF Init
      <3>2. \A c \in Calls : calls[c].pc = "idle" /\ ~calls[c].late /\ ~Own(c)
        BY <3>1 DEF NoCall, Own
      <3>3. KeyInv
        BY DEF Init, KeyInv, Present, NoPlanRow, NoKeyRow
      <3> QED BY InitType, InitSafe, <3>1, <3>2, <3>3 DEF RetryInv, MarkInv, ServedInv, LateInv
    <2>2. TypeOK /\ SafeInv /\ RetryInv /\ [Next]_vars => (TypeOK /\ SafeInv /\ RetryInv)'
      <3> SUFFICES ASSUME TypeOK, SafeInv, RetryInv, [Next]_vars PROVE (TypeOK /\ SafeInv /\ RetryInv)'
        OBVIOUS
      <3>1. Shaped
        BY StepShape DEF SafeInv
      <3>2. TypeOK' /\ SafeInv'
        BY StepSafe
      <3>3. KeyInv'
        BY <1>2, <3>1, StepKeyInv DEF SafeInv, RetryInv
      <3>4. MarkInv' /\ ServedInv' /\ LateInv'
        BY <1>2, <3>1, StepMark, StepServed, StepLate DEF RetryInv
      <3> QED BY <3>2, <3>3, <3>4 DEF RetryInv
    <2>3. RetryInv => LateCallsRefused
      BY DEF RetryInv, LateInv, LateCallsRefused
    <2> QED BY <2>1, <2>2, <2>3, PTL DEF Spec
  <1> QED BY <1>1, <1>2
=============================================================================
