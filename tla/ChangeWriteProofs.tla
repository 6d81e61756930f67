-------------------------- MODULE ChangeWriteProofs --------------------------
(***************************************************************************)
(* Proofs about ChangeWrite for every number of plans, keys and calls and  *)
(* every bound: the type invariant, and, when no call outlives its         *)
(* reservation, the mutual exclusion of Incident writers, the truth of     *)
(* stored receipts and their stability, the truth of replays, that an      *)
(* Incident plan's PATCH takes effect once, and that the handlers implement *)
(* GovernedWrite.                                                          *)
(***************************************************************************)
EXTENDS ChangeWrite, TLAPS

USE StoreAssumption, ChangeAssumption

-----------------------------------------------------------------------------
(* What the store operators return. *)

\* plan_store.rs: put, mark_consumed and mark_expired keep rows well formed, keep
\* the operation's hash, and never remove a row.
LEMMA PlanRowTypes ==
  ASSUME NEW row \in PlanRow, NEW h \in Hashes, NEW tok \in Nat, NEW t \in Nat
  PROVE  /\ PutPlan(h, tok, t) \in PlanRow
         /\ MarkPlanConsumed(row) \in PlanRow
         /\ MarkPlanExpired(row) \in PlanRow
         /\ MarkPlanExpired(row).hash = row.hash
         /\ MarkPlanConsumed(row).hash = row.hash
         /\ row.state # "absent" => MarkPlanExpired(row).state # "absent"
         /\ MarkPlanConsumed(row).state # "absent"
  BY DEF PlanRow, PutPlan, MarkPlanConsumed, MarkPlanExpired

\* confirmation.rs: issue and consume keep rows well formed.
LEMMA ConfRowTypes ==
  ASSUME NEW row \in ConfRow, NEW h \in Hashes, NEW a \in Actors, NEW t \in Nat
  PROVE  /\ IssueConfirmation(h, a, t) \in ConfRow
         /\ ConsumeRow(row) \in ConfRow
  <1>1. t + PlanTTL \in Nat
    BY DEF StoreAssumption
  <1>2. IssueConfirmation(h, a, t) \in ConfRow
    BY <1>1, Zenon DEF ConfRow, IssueConfirmation
  <1>3. ConsumeRow(row) \in ConfRow
    BY Zenon DEF ConfRow, ConsumeRow
  <1> QED BY <1>2, <1>3

\* idempotency.rs: each write to mcp_idempotency keeps the row well formed.
LEMMA KeyRowTypes ==
  ASSUME NEW row \in KeyRow(Calls), NEW h \in Hashes \cup {None}, NEW c \in Calls, NEW t \in Nat
  PROVE  /\ CheckAndRecord(row, h, t) \in KeyRow(Calls)
         /\ MarkApplyStarted(row) \in KeyRow(Calls)
         /\ ClearApplyStarted(row) \in KeyRow(Calls)
         /\ SaveReceipt(row, c) \in KeyRow(Calls)
  <1>1. CheckAndRecord(row, h, t) \in KeyRow(Calls)
    BY DEF KeyRow, CheckAndRecord
  <1>2. MarkApplyStarted(row) \in KeyRow(Calls)
    BY DEF KeyRow, MarkApplyStarted
  <1>3. ClearApplyStarted(row) \in KeyRow(Calls)
    BY DEF KeyRow, ClearApplyStarted
  <1>4. SaveReceipt(row, c) \in KeyRow(Calls)
    BY DEF KeyRow, SaveReceipt
  <1> QED BY <1>1, <1>2, <1>3, <1>4

-----------------------------------------------------------------------------
(* Type correctness. *)

\* The early returns of handle_change_apply answer with one of its codes.
LEMMA VerdictTypes ==
  ASSUME NEW p, NEW tok, NEW a, NEW ok, NEW seen, NEW row
  PROVE  /\ EntryVerdict(p, tok, a, row) \in Codes \cup {None}
         /\ GateVerdict(p, tok, a, ok, seen, row) \in Codes \cup {None}
  <1>1. EntryVerdict(p, tok, a, row) \in Codes \cup {None}
    BY DEF EntryVerdict, Codes
  <1>2. GateVerdict(p, tok, a, ok, seen, row) \in Codes \cup {None}
    BY DEF GateVerdict, Codes
  <1> QED BY <1>1, <1>2

\* append_audit_event adds a well-formed row.
LEMMA AuditTypes ==
  ASSUME TypeOK, NEW c \in Calls, NEW code, AuditWith(c, code)
  PROVE  audit' \in SUBSET AuditRows
  <1>1. AuditStatus(code) \in {"plan", "denied", "error", "applied_success", "applied_partial"}
    BY DEF AuditStatus
  <1> QED BY <1>1 DEF AuditWith, TypeOK, AuditRows

\* The stretch from the gate to the write keeps the types.
LEMMA GateTypes ==
  ASSUME TypeOK, NEW c \in Calls, NEW x \in MadeCall, NEW row \in KeyRow(Calls),
         PassGate(c, x, row)
  PROVE  /\ calls' \in [Calls -> {NoCall} \cup MadeCall]
         /\ keys' \in [Keys -> KeyRow(Calls)]
         /\ wire' \in [Calls -> {"none", "posted", "applied", "rejected"}]
         /\ audit' \in SUBSET AuditRows
  <1> DEFINE v == GateVerdict(x.plan, x.token, x.actor, x.tokenOk, x.seen, row)
  <1>1. v \in Codes \cup {None}
    BY VerdictTypes
  <1>2. CASE v # None
    <2>1. Done(x, v) \in MadeCall
      BY <1>1 DEF MadeCall, Done
    <2> QED BY <1>2, <2>1, AuditTypes DEF PassGate, TypeOK
  <1>3. CASE v = None
    <2>1. [x EXCEPT !.pc = "writing"] \in MadeCall
      BY DEF MadeCall
    <2> QED BY <1>3, <2>1, KeyRowTypes DEF PassGate, TypeOK
  <1> QED BY <1>2, <1>3

\* Empty stores have their types.
LEMMA InitType == Init => TypeOK
  <1> SUFFICES ASSUME Init PROVE TypeOK
    OBVIOUS
  <1>1. NoPlanRow \in PlanRow /\ NoConfRow \in ConfRow /\ NoKeyRow \in KeyRow(Calls)
    BY DEF NoPlanRow, PlanRow, NoConfRow, ConfRow, NoKeyRow, KeyRow
  <1> QED BY <1>1 DEF Init, TypeOK

\* Every step of the daemon, of ServiceNow and of the clock keeps the types.
LEMMA StepType == TypeOK /\ [Next]_vars => TypeOK'
  <1> SUFFICES ASSUME TypeOK, [Next]_vars PROVE TypeOK'
    OBVIOUS
  <1>1. ASSUME NEW p \in Plans, NEW h \in Hashes, NEW a \in Actors, PlanChange(p, h, a)
        PROVE  TypeOK'
    <2>1. CheckAndRecord(keys[OwnKey[p]], h, now) \in KeyRow(Calls)
      <3>1. OwnKey[p] \in Keys
        BY DEF ChangeAssumption
      <3> QED BY <3>1 DEF TypeOK, CheckAndRecord, KeyRow
    <2>2. PutPlan(h, mod, now) \in PlanRow /\ IssueConfirmation(h, a, now) \in ConfRow
      BY PlanRowTypes, ConfRowTypes DEF TypeOK
    <2> QED BY <1>1, <2>1, <2>2 DEF PlanChange, TypeOK, AuditRows
  <1>2. ASSUME NEW c \in Calls, NEW p \in Plans, NEW tok \in Plans, NEW k \in Keys,
               NEW a \in Actors, NEW ok \in BOOLEAN, Apply(c, p, tok, k, a, ok)
        PROVE  TypeOK'
    <2> DEFINE x == NewCall(p, tok, k, a, ok)
               v == EntryVerdict(p, tok, a, keys[k])
               row == CheckAndRecord(keys[k], plans[p].hash, now)
    <2>1. x \in MadeCall
      BY DEF NewCall, MadeCall
    <2>2. plans[p].hash \in Hashes \cup {None}
      BY DEF TypeOK, PlanRow
    <2>3. row \in KeyRow(Calls)
      BY <2>2, KeyRowTypes DEF TypeOK
    <2>4. v \in Codes \cup {None}
      BY VerdictTypes
    <2>5. MarkPlanExpired(plans[p]) \in PlanRow
      BY DEF TypeOK, PlanRow, MarkPlanExpired
    <2>6. UNCHANGED <<now, confs, mod>>
      BY <1>2 DEF Apply
    <2> HIDE DEF x, v, row
    <2>7. CASE /\ v # None
               /\ calls' = [calls EXCEPT ![c] = Done(x, v)]
               /\ plans' = IF v = "PLAN_EXPIRED"
                             THEN [plans EXCEPT ![p] = MarkPlanExpired(@)] ELSE plans
               /\ AuditWith(c, v)
               /\ UNCHANGED <<keys, wire>>
      <3>1. Done(x, v) \in MadeCall
        BY <2>1, <2>4, <2>7 DEF MadeCall, Done
      <3> QED BY <2>5, <2>6, <2>7, <3>1, AuditTypes DEF TypeOK
    <2>8. CASE /\ calls' = [calls EXCEPT ![c] = Done(x, "FIELD_REJECTED")]
               /\ keys' = [keys EXCEPT ![k] = row]
               /\ AuditWith(c, "FIELD_REJECTED")
               /\ UNCHANGED <<plans, wire>>
      <3>1. Done(x, "FIELD_REJECTED") \in MadeCall
        BY <2>1 DEF MadeCall, Codes, Done
      <3> QED BY <2>3, <2>6, <2>8, <3>1, AuditTypes DEF TypeOK
    <2>9. CASE /\ calls' = [calls EXCEPT ![c] = x]
               /\ keys' = [keys EXCEPT ![k] = row]
               /\ UNCHANGED <<plans, wire, audit>>
      BY <2>1, <2>3, <2>6, <2>9 DEF TypeOK
    <2>10. CASE PassGate(c, x, row) /\ UNCHANGED plans
      BY <2>1, <2>3, <2>6, <2>10, GateTypes DEF TypeOK
    <2> QED BY <1>2, <2>7, <2>8, <2>9, <2>10 DEF Apply, x, v, row
  <1>3. ASSUME NEW c \in Calls, Handler(c)
        PROVE  TypeOK'
    <2>1. calls[c] \in MadeCall
      BY <1>3 DEF TypeOK, NoCall, Handler, ReadReturns, ReadFails, WriteUpstreamError,
                  WriteLocalCoherence, WriteOk
    <2>2. calls[c].key \in Keys /\ calls[c].plan \in Plans /\ calls[c].token \in Plans
      BY <2>1 DEF MadeCall
    <2>3. \A code \in Codes : Answer(c, code) \in [Calls -> {NoCall} \cup MadeCall]
      BY <2>1 DEF Answer, Done, MadeCall, TypeOK
    <2>4. CASE ReadReturns(c)
      BY <2>1, <2>2, <2>4, GateTypes DEF ReadReturns, TypeOK
    <2>5. CASE ReadFails(c)
      BY <2>3, <2>5 DEF ReadFails, TypeOK, Codes
    <2>6. CASE WriteUpstreamError(c)
      <3>1. ClearApplyStarted(keys[calls[c].key]) \in KeyRow(Calls)
        BY <2>2, KeyRowTypes DEF TypeOK
      <3> QED BY <2>3, <2>6, <3>1, AuditTypes DEF WriteUpstreamError, TypeOK, Codes
    <2>7. CASE WriteLocalCoherence(c)
      BY <2>3, <2>7, AuditTypes DEF WriteLocalCoherence, TypeOK, Codes
    <2>8. ASSUME NEW done \in 0..3, WriteOk(c, done) PROVE TypeOK'
      <3>1. /\ SaveReceipt(keys[calls[c].key], c) \in KeyRow(Calls)
            /\ ConsumeRow(confs[calls[c].token]) \in ConfRow
            /\ MarkPlanConsumed(plans[calls[c].plan]) \in PlanRow
        <4>1. SaveReceipt(keys[calls[c].key], c) \in KeyRow(Calls)
          <5>1. keys[calls[c].key] \in KeyRow(Calls)
            BY <2>2 DEF TypeOK
          <5> QED BY <5>1, KeyRowTypes
        <4>2. confs[calls[c].token] \in ConfRow /\ plans[calls[c].plan] \in PlanRow
          BY <2>2 DEF TypeOK
        <4>3. ConsumeRow(confs[calls[c].token]) \in ConfRow
          BY <4>2, Zenon DEF ConfRow, ConsumeRow
        <4>4. MarkPlanConsumed(plans[calls[c].plan]) \in PlanRow
          BY <4>2 DEF PlanRow, MarkPlanConsumed
        <4> QED BY <4>1, <4>3, <4>4
      <3>2. calls' \in [Calls -> {NoCall} \cup MadeCall]
        BY <2>3, <2>8 DEF WriteOk, Codes
      <3>3. audit' \in SUBSET AuditRows
        BY <2>8, AuditTypes DEF WriteOk, TypeOK, AuditStatus, AuditRows
      <3>4. keys' \in [Keys -> KeyRow(Calls)] /\ UNCHANGED <<now, wire, mod>>
        BY <2>8, <3>1 DEF WriteOk, TypeOK
      <3>5. plans' \in [Plans -> PlanRow] /\ confs' \in [Plans -> ConfRow]
        BY <2>8, <3>1 DEF WriteOk, TypeOK
      <3> QED BY <3>2, <3>3, <3>4, <3>5 DEF TypeOK
    <2> QED BY <1>3, <2>4, <2>5, <2>6, <2>7, <2>8 DEF Handler
  <1>4. ASSUME NEW c \in Calls, Snow(c)
        PROVE  TypeOK'
    <2>1. CASE SnowRead(c)
      <3>1. calls[c] \in MadeCall
        BY <2>1 DEF TypeOK, NoCall, SnowRead
      <3>2. PICK s \in {mod, None} :
              calls' = [calls EXCEPT ![c].pc = "readback", ![c].seen = s]
        BY <2>1 DEF SnowRead
      <3>3. s \in Nat \cup {None}
        BY DEF TypeOK
      <3>4. calls'[c] \in MadeCall
        BY <3>1, <3>2, <3>3 DEF MadeCall, TypeOK
      <3>5. calls' \in [Calls -> {NoCall} \cup MadeCall]
        BY <3>2, <3>4 DEF TypeOK
      <3> QED BY <2>1, <3>5 DEF SnowRead, TypeOK
    <2>2. CASE SnowApplies(c)
      BY <2>2 DEF SnowApplies, TypeOK
    <2>3. CASE SnowRejects(c)
      BY <2>3 DEF SnowRejects, TypeOK
    <2> QED BY <1>4, <2>1, <2>2, <2>3 DEF Snow
  <1>5. CASE ForeignUpdate
    BY <1>5 DEF ForeignUpdate, TypeOK
  <1>6. CASE Tick
    BY <1>6 DEF Tick, TypeOK
  <1>7. CASE Crash
    <2>1. \A c \in InFlight : calls[c] \in MadeCall
      BY DEF InFlight, TypeOK, NoCall
    <2> QED BY <1>7, <2>1 DEF Crash, TypeOK, MadeCall
  <1>8. CASE UNCHANGED vars
    BY <1>8 DEF vars, TypeOK
  <1> QED BY <1>1, <1>2, <1>3, <1>4, <1>5, <1>6, <1>7, <1>8 DEF Next

\* The stores, the calls and the wire of change_write.rs keep their types for
\* every number of plans, keys and calls.
THEOREM TypeCorrect == Spec => []TypeOK
  BY InitType, StepType, PTL DEF Spec

-----------------------------------------------------------------------------
(* The inductive invariant. *)

\* The invariant holds of empty stores.
LEMMA InitInd == Init => IndInv
  BY DEF Init, IndInv, PlanInv, NoPlanRow, InFlightInv, ClaimInv, SingleClaim, WireInv, ReceiptBacked,
         InFlight, Writers, NoCall, NoKeyRow

\* A reservation a call hands to the gate: the row in the table, or a fresh
\* one in the place of a row that had expired.
Handed(k, row) ==
  \/ row = keys[k]
  \/ /\ ~KeyLive(keys[k], now)
     /\ row.receipt = None
     /\ ~row.started

\* The gate and the claim (change_write.rs 458-566) preserve the invariant: the
\* row that is marked was unmarked, so no other Incident writer holds it.
LEMMA GateInd ==
  ASSUME TypeOK, IndInv, NEW c \in Calls, NEW x \in MadeCall, NEW row \in KeyRow(Calls),
         calls[c].pc \in {"idle", "readback"},
         plans[x.plan].state # "absent", KeyLive(row, now), row.hash = plans[x.plan].hash,
         Handed(x.key, row),
         PassGate(c, x, row), UNCHANGED <<now, plans, confs, mod>>
  PROVE  IndInv'
  <1> DEFINE v == GateVerdict(x.plan, x.token, x.actor, x.tokenOk, x.seen, row)
  <1>1. x.key \in Keys /\ x.plan \in Plans
    BY DEF MadeCall
  <1>0. PlanInv'
    BY DEF IndInv, PlanInv
  <1>2. wire[c] = "none"
    BY DEF IndInv, WireInv, TypeOK
  <1>3. \A d \in InFlight : calls[d].key = x.key => row = keys[x.key]
    BY DEF IndInv, InFlightInv, Handed
  <1>4. \A d \in Calls : keys[x.key].receipt = d /\ row = keys[x.key] => d # c
    BY <1>1, <1>2, ZenonT(60) DEF IndInv, ReceiptBacked
  <1>5. \A d \in Calls : d # c => calls'[d] = calls[d] /\ wire'[d] = wire[d]
    BY DEF PassGate, TypeOK
  <1>6. \A k \in Keys : k # x.key => keys'[k] = keys[k]
    BY DEF PassGate, TypeOK
  <1>7. audit \subseteq audit'
    BY DEF PassGate, AuditWith
  <1>8. CASE v # None
    <2>1. /\ calls' = [calls EXCEPT ![c] = Done(x, v)]
          /\ keys' = [keys EXCEPT ![x.key] = row]
          /\ wire' = wire
      BY <1>8 DEF PassGate
    <2>2. /\ calls'[c].pc = "done" /\ calls'[c].plan = x.plan /\ calls'[c].key = x.key
          /\ keys'[x.key] = row
      BY <1>1, <2>1 DEF TypeOK, MadeCall, Done
    <2> HIDE DEF v
    <2>3. \A d \in InFlight' : /\ d # c /\ d \in InFlight
                              /\ keys'[calls[d].key] = keys[calls[d].key]
      BY <1>1, <1>3, <1>5, <1>6, <2>2 DEF InFlight, TypeOK, MadeCall, NoCall
    <2>4. InFlightInv'
      <3> SUFFICES ASSUME NEW d \in InFlight'
                   PROVE  /\ plans'[calls'[d].plan].state # "absent"
                          /\ KeyLive(keys'[calls'[d].key], now')
                          /\ keys'[calls'[d].key].hash = plans'[calls'[d].plan].hash
        BY DEF InFlightInv, HashOf
      <3>1. d \in Calls
        BY DEF InFlight
      <3> QED BY <1>5, <2>3, <3>1 DEF IndInv, InFlightInv, HashOf
    <2>5. Writers' \subseteq InFlight' /\ Writers' \subseteq Writers /\ Writers \subseteq Calls
      BY <1>5, <2>2 DEF Writers, InFlight
    <2>6. ClaimInv' /\ SingleClaim'
      <3>1. \A d \in Writers' : calls'[d] = calls[d] /\ keys'[calls[d].key] = keys[calls[d].key]
        BY <1>5, <2>3, <2>5
      <3>2. ClaimInv'
        BY <2>5, <3>1 DEF IndInv, ClaimInv
      <3>3. SingleClaim'
        BY <2>5, <3>1 DEF IndInv, SingleClaim
      <3> QED BY <3>2, <3>3
    <2>7. WireInv'
      BY <1>2, <1>5, <2>1, <2>2 DEF IndInv, WireInv
    <2>8. ReceiptBacked'
      <3> SUFFICES ASSUME NEW k \in Keys, NEW d \in Calls, keys'[k].receipt = d
                   PROVE  /\ wire'[d] = "applied" /\ calls'[d].key = k
                          /\ plans'[calls'[d].plan].hash = keys'[k].hash
                          /\ <<d, "applied_success">> \in audit'
        BY DEF ReceiptBacked, HashOf
      <3>1. keys'[k] = keys[k] /\ keys[k].receipt = d
        BY <1>6, <2>2 DEF Handed, ChangeAssumption
      <3>2. d # c
        BY <1>2, <3>1 DEF IndInv, ReceiptBacked
      <3> QED BY <1>5, <1>7, <3>1, <3>2 DEF IndInv, ReceiptBacked, HashOf
    <2> QED BY <1>0, <2>4, <2>6, <2>7, <2>8 DEF IndInv
  <1>9. CASE v = None
    <2>1. /\ calls' = [calls EXCEPT ![c] = [x EXCEPT !.pc = "writing"]]
          /\ keys' = [keys EXCEPT ![x.key] = MarkApplyStarted(row)]
          /\ wire' = [wire EXCEPT ![c] = "posted"]
      BY <1>9 DEF PassGate
    <2>0. IsIncident => CanClaim(row)
      BY <1>9 DEF GateVerdict, Codes, ChangeAssumption
    <2>2. /\ calls'[c].pc = "writing" /\ calls'[c].plan = x.plan /\ calls'[c].key = x.key
          /\ keys'[x.key] = MarkApplyStarted(row) /\ wire'[c] = "posted"
      BY <1>1, <2>1 DEF TypeOK, MadeCall
    <2>3. LET m == MarkApplyStarted(row)
          IN  /\ m.hash = row.hash /\ m.receipt = row.receipt /\ m.expires = row.expires
              /\ m.started
      BY DEF MarkApplyStarted, KeyRow
    <2> HIDE DEF v
    <2>4. \A d \in Calls : d # c => (d \in InFlight' <=> d \in InFlight)
      BY <1>5 DEF InFlight
    <2>5. InFlightInv'
      <3> SUFFICES ASSUME NEW d \in InFlight'
                   PROVE  /\ plans'[calls'[d].plan].state # "absent"
                          /\ KeyLive(keys'[calls'[d].key], now')
                          /\ keys'[calls'[d].key].hash = plans'[calls'[d].plan].hash
        BY DEF InFlightInv, HashOf
      <3>1. CASE d = c
        BY <2>2, <2>3, <3>1 DEF KeyLive
      <3>2. CASE d # c /\ calls[d].key = x.key
        BY <1>3, <1>5, <2>2, <2>3, <2>4, <3>2 DEF IndInv, InFlightInv, KeyLive, HashOf, InFlight
      <3>3. CASE d # c /\ calls[d].key # x.key
        <4>1. calls[d].key \in Keys
          BY <2>4, <3>3 DEF InFlight, TypeOK, MadeCall, NoCall
        <4> QED BY <1>5, <1>6, <2>4, <3>3, <4>1 DEF IndInv, InFlightInv, HashOf, InFlight
      <3> QED BY <3>1, <3>2, <3>3
    <2>6. IsIncident => \A d \in Writers : calls[d].key # x.key
      BY <1>3, <2>0 DEF IndInv, ClaimInv, CanClaim, Writers, InFlight
    <2>7. Writers' \subseteq Writers \cup {c}
      BY <1>5 DEF Writers
    <2>8. ClaimInv' /\ SingleClaim'
      <3>1. \A d \in Writers : calls[d].key \in Keys
        BY DEF Writers, TypeOK, MadeCall, NoCall
      <3>2. SingleClaim'
        <4> SUFFICES ASSUME IsIncident, NEW d \in Writers', NEW e \in Writers',
                            calls'[d].key = calls'[e].key
                     PROVE  d = e
          BY DEF SingleClaim
        <4>1. d # c => d \in Writers /\ calls'[d] = calls[d]
          BY <1>5, <2>7 DEF Writers
        <4>2. e # c => e \in Writers /\ calls'[e] = calls[e]
          BY <1>5, <2>7 DEF Writers
        <4> QED BY <2>2, <2>6, <4>1, <4>2 DEF IndInv, SingleClaim
      <3>3. ClaimInv'
        BY <1>5, <1>6, <2>0, <2>2, <2>3, <2>6, <2>7, <3>1 DEF IndInv, ClaimInv, CanClaim, Writers
      <3> QED BY <3>2, <3>3
    <2>9. WireInv'
      BY <1>5, <2>2 DEF IndInv, WireInv
    <2>10. ReceiptBacked'
      <3> SUFFICES ASSUME NEW k \in Keys, NEW d \in Calls, keys'[k].receipt = d
                   PROVE  /\ wire'[d] = "applied" /\ calls'[d].key = k
                          /\ plans'[calls'[d].plan].hash = keys'[k].hash
                          /\ <<d, "applied_success">> \in audit'
        BY DEF ReceiptBacked, HashOf
      <3>1. keys'[k].hash = keys[k].hash /\ keys[k].receipt = d
        BY <1>6, <2>2, <2>3 DEF Handed, ChangeAssumption
      <3>2. d # c
        BY <1>2, <3>1 DEF IndInv, ReceiptBacked
      <3> QED BY <1>5, <1>7, <3>1, <3>2 DEF IndInv, ReceiptBacked, HashOf
    <2> QED BY <1>0, <2>5, <2>8, <2>9, <2>10 DEF IndInv
  <1> QED BY <1>8, <1>9

\* A step that leaves the stores' rows, the plans of the calls and the clock
\* alone as far as the invariant looks at them preserves it, if it only takes
\* calls out of flight and only serves posted writes.
LEMMA QuietInd ==
  ASSUME TypeOK, IndInv, plans' = plans, keys' = keys, now' = now, audit \subseteq audit',
         \A c \in Calls : /\ calls'[c].plan = calls[c].plan
                          /\ calls'[c].key = calls[c].key
                          /\ c \in InFlight' => c \in InFlight
                          /\ c \in Writers' => c \in Writers
                          /\ calls[c].pc \in {"writing", "done", "dropped"} =>
                               calls'[c].pc \in {"writing", "done", "dropped"}
                          /\ wire[c] = "none" => wire'[c] = "none"
                          /\ wire[c] = "applied" => wire'[c] = "applied"
  PROVE  IndInv'
  <1>1. InFlightInv'
    BY DEF IndInv, InFlightInv, HashOf, InFlight
  <1>2. ClaimInv'
    BY DEF IndInv, ClaimInv, Writers
  <1>3. SingleClaim'
    BY DEF IndInv, SingleClaim, Writers
  <1>4. WireInv'
    BY DEF IndInv, WireInv
  <1>5. ReceiptBacked'
    BY DEF IndInv, ReceiptBacked, HashOf
  <1>6. PlanInv'
    BY DEF IndInv, PlanInv
  <1> QED BY <1>1, <1>2, <1>3, <1>4, <1>5, <1>6 DEF IndInv

\* handle_change_plan preserves it: its key is new, so no call is in flight on it.
LEMMA PlanInd ==
  ASSUME TypeOK, IndInv, NEW p \in Plans, NEW h \in Hashes, NEW a \in Actors, PlanChange(p, h, a)
  PROVE  IndInv'
  <1>1. OwnKey[p] \in Keys
    BY DEF ChangeAssumption
  <1>2. ~KeyLive(keys[OwnKey[p]], now)
    BY DEF PlanChange, CheckOutcome
  <1>3. \A c \in InFlight : calls[c].key \in Keys /\ calls[c].key # OwnKey[p]
    BY <1>2 DEF IndInv, InFlightInv, InFlight, TypeOK, MadeCall, NoCall
  <1>4. \A k \in Keys : k # OwnKey[p] => keys'[k] = keys[k]
    BY DEF PlanChange, TypeOK
  <1>5. keys'[OwnKey[p]].receipt = None
    BY <1>1, <1>2 DEF PlanChange, TypeOK, CheckAndRecord
  <1>6. \A q \in Plans : plans[q].state # "absent" => plans'[q] = plans[q]
    BY DEF PlanChange, TypeOK
  <1>7. UNCHANGED <<now, calls, wire>> /\ audit \subseteq audit'
    BY DEF PlanChange
  <1>8. InFlight' = InFlight /\ Writers' = Writers /\ Writers \subseteq InFlight
    BY <1>7 DEF InFlight, Writers
  <1>9. \A c \in Calls : calls[c].pc # "idle" => calls[c].plan \in Plans
    BY DEF TypeOK, MadeCall, NoCall
  <1>10. InFlightInv'
    BY <1>3, <1>4, <1>6, <1>7, <1>8, <1>9 DEF IndInv, InFlightInv, HashOf, InFlight
  <1>11. ClaimInv'
    BY <1>3, <1>4, <1>7, <1>8 DEF IndInv, ClaimInv
  <1>12. SingleClaim'
    BY <1>7, <1>8 DEF IndInv, SingleClaim
  <1>13. WireInv'
    BY <1>6, <1>7, <1>9 DEF IndInv, WireInv
  <1>14. ReceiptBacked'
    <2> SUFFICES ASSUME NEW k \in Keys, NEW d \in Calls, keys'[k].receipt = d
                 PROVE  /\ wire'[d] = "applied" /\ calls'[d].key = k
                        /\ plans'[calls'[d].plan].hash = keys'[k].hash
                        /\ <<d, "applied_success">> \in audit'
      BY DEF ReceiptBacked, HashOf
    <2>1. keys'[k] = keys[k] /\ keys[k].receipt = d
      BY <1>4, <1>5 DEF ChangeAssumption
    <2>2. wire[d] = "applied" /\ plans'[calls[d].plan] = plans[calls[d].plan]
      BY <1>6, <1>9, <2>1 DEF IndInv, ReceiptBacked, WireInv
    <2> QED BY <1>7, <2>1, <2>2 DEF IndInv, ReceiptBacked, HashOf
  <1>15. PlanInv'
    BY DEF IndInv, PlanInv, PlanChange, PutPlan, TypeOK
  <1> QED BY <1>10, <1>11, <1>12, <1>13, <1>14, <1>15 DEF IndInv

\* What Apply knows when no early answer was due.
LEMMA Entered ==
  ASSUME TypeOK, IndInv, Window > 0, NEW p \in Plans, NEW tok, NEW a, NEW k \in Keys,
         EntryVerdict(p, tok, a, keys[k]) = None
  PROVE  LET row == CheckAndRecord(keys[k], plans[p].hash, now)
         IN  /\ plans[p].state # "absent"
             /\ row \in KeyRow(Calls)
             /\ KeyLive(row, now)
             /\ row.hash = plans[p].hash
             /\ Handed(k, row)
  <1> DEFINE row == CheckAndRecord(keys[k], plans[p].hash, now)
  <1>1. plans[p].state # "absent"
    BY DEF EntryVerdict, ChangeAssumption, Codes
  <1>2. plans[p].hash \in Hashes
    BY <1>1 DEF IndInv, PlanInv
  <1>3. KeyLive(keys[k], now) => keys[k].hash = plans[p].hash
    BY DEF EntryVerdict, ChangeAssumption, Codes
  <1>4. row \in KeyRow(Calls)
    BY <1>2 DEF TypeOK, CheckAndRecord, KeyRow
  <1>5. KeyLive(row, now) /\ row.hash = plans[p].hash
    BY <1>2, <1>3 DEF CheckAndRecord, KeyLive, TypeOK, StoreAssumption
  <1>6. Handed(k, row)
    BY DEF CheckAndRecord, Handed
  <1> QED BY <1>1, <1>4, <1>5, <1>6

\* The entry of handle_change_apply preserves it, with or without a wait for
\* the target's read.
LEMMA ApplyInd ==
  ASSUME TypeOK, IndInv, Window > 0, NEW c \in Calls, NEW p \in Plans, NEW tok \in Plans,
         NEW k \in Keys, NEW a \in Actors, NEW ok \in BOOLEAN, Apply(c, p, tok, k, a, ok)
  PROVE  IndInv'
  <1> DEFINE x == NewCall(p, tok, k, a, ok)
             v == EntryVerdict(p, tok, a, keys[k])
             row == CheckAndRecord(keys[k], plans[p].hash, now)
  <1>1. x \in MadeCall /\ x.plan = p /\ x.key = k /\ x.pc = "reading"
    BY DEF NewCall, MadeCall
  <1>2. calls[c].pc = "idle" /\ UNCHANGED <<now, confs, mod>>
    BY DEF Apply
  <1>3. wire[c] = "none"
    BY <1>2 DEF IndInv, WireInv, TypeOK
  <1> HIDE DEF x
  <1>4. CASE /\ v # None
             /\ calls' = [calls EXCEPT ![c] = Done(x, v)]
             /\ plans' = IF v = "PLAN_EXPIRED"
                           THEN [plans EXCEPT ![p] = MarkPlanExpired(@)] ELSE plans
             /\ AuditWith(c, v)
             /\ UNCHANGED <<keys, wire>>
    <2>1. calls'[c].pc = "done" /\ \A d \in Calls : d # c => calls'[d] = calls[d]
      BY <1>1, <1>4 DEF TypeOK, MadeCall, Done
    <2>2. \A q \in Plans : /\ plans[q].state # "absent" =>
                              plans'[q].state # "absent" /\ plans'[q].hash = plans[q].hash
                           /\ plans'[q].state # "absent" => plans[q].state # "absent"
      <3>1. v = "PLAN_EXPIRED" => plans[p].state # "absent"
        BY DEF EntryVerdict
      <3> HIDE DEF v
      <3> QED BY <1>4, <3>1 DEF TypeOK, MarkPlanExpired, PlanRow
    <2>3. audit \subseteq audit'
      BY <1>4 DEF AuditWith
    <2> HIDE DEF v
    <2>4. InFlight' \subseteq InFlight /\ Writers' \subseteq Writers /\ c \notin InFlight'
      BY <2>1 DEF InFlight, Writers
    <2>5. \A d \in Calls : calls[d].pc # "idle" => calls[d].plan \in Plans
      BY DEF TypeOK, MadeCall, NoCall
    <2>6. PlanInv'
      BY <2>2 DEF IndInv, PlanInv
    <2>7. InFlightInv'
      BY <1>2, <1>4, <2>1, <2>2, <2>4, <2>5 DEF IndInv, InFlightInv, HashOf, InFlight
    <2>8. ClaimInv' /\ SingleClaim'
      BY <1>4, <2>1, <2>4 DEF IndInv, ClaimInv, SingleClaim, Writers, InFlight
    <2>9. WireInv'
      BY <1>3, <1>4, <2>1, <2>2, <2>5 DEF IndInv, WireInv
    <2>10. ReceiptBacked'
      <3> SUFFICES ASSUME NEW j \in Keys, NEW d \in Calls, keys[j].receipt = d
                   PROVE  /\ wire[d] = "applied" /\ calls'[d].key = j
                          /\ plans'[calls'[d].plan].hash = keys[j].hash
                          /\ <<d, "applied_success">> \in audit'
        BY <1>4 DEF ReceiptBacked, HashOf
      <3>1. wire[d] = "applied" /\ d # c
        BY <1>3 DEF IndInv, ReceiptBacked
      <3>2. calls[d].plan \in Plans /\ plans[calls[d].plan].state # "absent"
        BY <2>5, <3>1 DEF IndInv, WireInv
      <3> QED BY <2>1, <2>2, <2>3, <3>1, <3>2 DEF IndInv, ReceiptBacked, HashOf
    <2> QED BY <2>6, <2>7, <2>8, <2>9, <2>10 DEF IndInv
  <1>5. ASSUME v = None, plans' = plans, wire' = wire, audit \subseteq audit',
               keys' = [keys EXCEPT ![k] = row],
               NEW y \in MadeCall, calls' = [calls EXCEPT ![c] = y],
               y.plan = p, y.key = k, y.pc \in {"done", "reading"}
        PROVE  IndInv'
    <2>1. /\ plans[p].state # "absent" /\ row \in KeyRow(Calls) /\ KeyLive(row, now)
          /\ row.hash = plans[p].hash /\ Handed(k, row)
      BY <1>5, Entered
    <2> HIDE DEF row, v
    <2>2. /\ \A d \in Calls : d # c => calls'[d] = calls[d]
          /\ calls'[c] = y /\ keys'[k] = row
          /\ \A j \in Keys : j # k => keys'[j] = keys[j]
      BY <1>5 DEF TypeOK
    <2>3. \A d \in InFlight : calls[d].key \in Keys /\ keys'[calls[d].key] = keys[calls[d].key]
      <3>1. \A d \in InFlight : calls[d].key \in Keys
        BY DEF InFlight, TypeOK, MadeCall, NoCall
      <3> QED BY <2>1, <2>2, <3>1 DEF IndInv, InFlightInv, Handed
    <2>4. InFlight' \subseteq InFlight \cup {c} /\ Writers' = Writers /\ c \notin Writers
      BY <1>2, <1>5, <2>2 DEF InFlight, Writers
    <2>5. PlanInv'
      BY <1>5 DEF IndInv, PlanInv
    <2>6. InFlightInv'
      <3> SUFFICES ASSUME NEW d \in InFlight'
                   PROVE  /\ plans'[calls'[d].plan].state # "absent"
                          /\ KeyLive(keys'[calls'[d].key], now')
                          /\ keys'[calls'[d].key].hash = plans'[calls'[d].plan].hash
        BY DEF InFlightInv, HashOf
      <3>1. CASE d = c
        BY <1>2, <1>5, <2>1, <2>2, <3>1
      <3>2. CASE d # c
        <4>1. d \in InFlight /\ calls'[d] = calls[d]
          BY <2>2, <2>4, <3>2 DEF InFlight
        <4> QED BY <1>2, <1>5, <2>3, <4>1 DEF IndInv, InFlightInv, HashOf
      <3> QED BY <3>1, <3>2
    <2>7. \A d \in Writers : /\ calls'[d] = calls[d]
                             /\ keys'[calls[d].key] = keys[calls[d].key]
      BY <2>2, <2>3, <2>4 DEF Writers, InFlight
    <2>8. ClaimInv' /\ SingleClaim'
      BY <2>4, <2>7 DEF IndInv, ClaimInv, SingleClaim
    <2>9. WireInv'
      BY <1>3, <1>5, <2>2 DEF IndInv, WireInv
    <2>10. ReceiptBacked'
      <3> SUFFICES ASSUME NEW j \in Keys, NEW d \in Calls, keys'[j].receipt = d
                   PROVE  /\ wire'[d] = "applied" /\ calls'[d].key = j
                          /\ plans'[calls'[d].plan].hash = keys'[j].hash
                          /\ <<d, "applied_success">> \in audit'
        BY DEF ReceiptBacked, HashOf
      <3>1. keys'[j] = keys[j] /\ keys[j].receipt = d
        BY <2>1, <2>2 DEF Handed, ChangeAssumption
      <3>2. d # c
        BY <1>3, <3>1 DEF IndInv, ReceiptBacked
      <3> QED BY <1>5, <2>2, <3>1, <3>2 DEF IndInv, ReceiptBacked, HashOf
    <2> QED BY <2>5, <2>6, <2>8, <2>9, <2>10 DEF IndInv
  <1>6. CASE /\ v = None
             /\ calls' = [calls EXCEPT ![c] = Done(x, "FIELD_REJECTED")]
             /\ keys' = [keys EXCEPT ![k] = row]
             /\ AuditWith(c, "FIELD_REJECTED")
             /\ UNCHANGED <<plans, wire>>
    <2> DEFINE y == Done(x, "FIELD_REJECTED")
    <2>1. y \in MadeCall /\ y.plan = p /\ y.key = k /\ y.pc = "done"
      BY <1>1 DEF MadeCall, Codes, Done
    <2>2. audit \subseteq audit'
      BY <1>6 DEF AuditWith
    <2> HIDE DEF row, v
    <2> QED BY <1>5, <1>6, <2>1, <2>2
  <1>7. CASE /\ v = None
             /\ calls' = [calls EXCEPT ![c] = x]
             /\ keys' = [keys EXCEPT ![k] = row]
             /\ UNCHANGED <<plans, wire, audit>>
    <2> HIDE DEF row, v
    <2> QED BY <1>1, <1>5, <1>7
  <1>8. CASE /\ v = None
             /\ PassGate(c, x, row)
             /\ UNCHANGED plans
    <2>1. /\ plans[p].state # "absent" /\ row \in KeyRow(Calls) /\ KeyLive(row, now)
          /\ row.hash = plans[p].hash /\ Handed(k, row)
      BY <1>8, Entered
    <2> HIDE DEF row, v
    <2> QED BY <1>1, <1>2, <1>8, <2>1, GateInd
  <1> QED BY <1>4, <1>6, <1>7, <1>8 DEF Apply, x

\* The later stretches of handle_change_apply preserve it: a claim is given back
\* or turned into a receipt by its holder only.
LEMMA HandlerInd ==
  ASSUME TypeOK, IndInv, NEW c \in Calls, Handler(c)
  PROVE  IndInv'
  <1>1. c \in InFlight /\ calls[c] \in MadeCall /\ calls[c].pc \in {"reading", "readback", "writing"}
    BY DEF InFlight, TypeOK, NoCall, Handler, ReadReturns, ReadFails, WriteUpstreamError,
           WriteLocalCoherence, WriteOk
  <1>2. calls[c].key \in Keys /\ calls[c].plan \in Plans /\ calls[c].token \in Plans
    BY <1>1 DEF MadeCall
  <1>3. \A code : /\ \A d \in Calls : d # c => Answer(c, code)[d] = calls[d]
                  /\ Answer(c, code)[c].pc = "done"
                  /\ Answer(c, code)[c].plan = calls[c].plan
                  /\ Answer(c, code)[c].key = calls[c].key
    BY <1>1 DEF Answer, Done, TypeOK, MadeCall
  <1>4. ASSUME NEW code, calls' = Answer(c, code), keys' = keys, plans' = plans, wire' = wire,
               now' = now, audit \subseteq audit'
        PROVE  IndInv'
    <2>1. /\ \A d \in Calls : calls'[d].plan = calls[d].plan /\ calls'[d].key = calls[d].key
          /\ \A d \in Calls : d # c => calls'[d] = calls[d]
          /\ calls'[c].pc = "done"
      BY <1>3, <1>4
    <2>2. \A d \in Calls : /\ d \in InFlight' => d \in InFlight
                           /\ d \in Writers' => d \in Writers
                           /\ calls[d].pc \in {"writing", "done", "dropped"} =>
                                calls'[d].pc \in {"writing", "done", "dropped"}
      BY <2>1 DEF InFlight, Writers
    <2>9. \A d \in Calls : /\ calls'[d].plan = calls[d].plan
                           /\ calls'[d].key = calls[d].key
                           /\ d \in InFlight' => d \in InFlight
                           /\ d \in Writers' => d \in Writers
                           /\ calls[d].pc \in {"writing", "done", "dropped"} =>
                                calls'[d].pc \in {"writing", "done", "dropped"}
                           /\ wire[d] = "none" => wire'[d] = "none"
                           /\ wire[d] = "applied" => wire'[d] = "applied"
      BY <1>4, <2>1, <2>2
    <2> QED BY <1>4, <2>9, QuietInd
  <1>5. CASE ReadReturns(c)
    <2>1. KeyLive(keys[calls[c].key], now) /\ plans[calls[c].plan].state # "absent"
          /\ keys[calls[c].key].hash = plans[calls[c].plan].hash
      BY <1>1 DEF IndInv, InFlightInv, HashOf
    <2>2. keys[calls[c].key] \in KeyRow(Calls) /\ Handed(calls[c].key, keys[calls[c].key])
      BY <1>2 DEF TypeOK, Handed
    <2> QED BY <1>1, <1>5, <2>1, <2>2, GateInd DEF ReadReturns
  <1>6. CASE ReadFails(c)
    BY <1>4, <1>6 DEF ReadFails
  <1>7. CASE WriteLocalCoherence(c)
    BY <1>4, <1>7 DEF WriteLocalCoherence, AuditWith
  <1>8. ASSUME NEW code, calls[c].pc = "writing", calls' = Answer(c, code), wire' = wire,
               now' = now, audit \subseteq audit',
               NEW row \in KeyRow(Calls), keys' = [keys EXCEPT ![calls[c].key] = row],
               row.hash = keys[calls[c].key].hash, row.expires = keys[calls[c].key].expires,
               \/ row.receipt = keys[calls[c].key].receipt
               \/ /\ row.receipt = c
                  /\ wire[c] = "applied"
                  /\ <<c, "applied_success">> \in audit',
               \A q \in Plans : /\ plans'[q].hash = plans[q].hash
                                /\ plans[q].state # "absent" <=> plans'[q].state # "absent",
               IsIncident \/ row.started = keys[calls[c].key].started
        PROVE  IndInv'
    <2>1. /\ \A d \in Calls : calls'[d].plan = calls[d].plan /\ calls'[d].key = calls[d].key
          /\ \A d \in Calls : d # c => calls'[d] = calls[d]
          /\ calls'[c].pc = "done"
      BY <1>3, <1>8
    <2>2. /\ keys'[calls[c].key] = row
          /\ \A k \in Keys : k # calls[c].key => keys'[k] = keys[k]
      BY <1>2, <1>8 DEF TypeOK
    <2>3. /\ InFlight' \subseteq InFlight /\ InFlight \subseteq Calls /\ c \notin InFlight'
          /\ Writers' \subseteq Writers /\ Writers \subseteq InFlight /\ Writers' \subseteq InFlight'
      BY <2>1 DEF InFlight, Writers
    <2>4. \A d \in Calls : calls[d].pc # "idle" => calls[d].plan \in Plans /\ calls[d].key \in Keys
      BY DEF TypeOK, MadeCall, NoCall
    <2>5. PlanInv'
      BY <1>8 DEF IndInv, PlanInv
    <2>6. InFlightInv'
      <3> SUFFICES ASSUME NEW d \in InFlight'
                   PROVE  /\ plans'[calls'[d].plan].state # "absent"
                          /\ KeyLive(keys'[calls'[d].key], now')
                          /\ keys'[calls'[d].key].hash = plans'[calls'[d].plan].hash
        BY DEF InFlightInv, HashOf
      <3>1. d \in InFlight /\ d \in Calls /\ calls'[d] = calls[d] /\ calls[d].pc # "idle"
        BY <2>1, <2>3 DEF InFlight
      <3>2. keys'[calls[d].key].hash = keys[calls[d].key].hash
            /\ keys'[calls[d].key].expires = keys[calls[d].key].expires
        BY <1>8, <2>2, <2>4, <3>1
      <3> QED BY <1>8, <2>4, <3>1, <3>2 DEF IndInv, InFlightInv, HashOf, KeyLive
    <2>7. ClaimInv' /\ SingleClaim'
      <3>1. c \in Writers
        BY <1>8 DEF Writers
      <3>2. IsIncident => \A d \in Writers' : /\ calls'[d] = calls[d]
                                              /\ keys'[calls[d].key] = keys[calls[d].key]
        BY <2>1, <2>2, <2>3, <2>4, <3>1 DEF IndInv, SingleClaim, InFlight
      <3> QED BY <2>3, <3>2 DEF IndInv, ClaimInv, SingleClaim
    <2>8. WireInv'
      BY <1>8, <2>1, <2>4 DEF IndInv, WireInv
    <2>9. ReceiptBacked'
      <3> SUFFICES ASSUME NEW k \in Keys, NEW d \in Calls, keys'[k].receipt = d
                   PROVE  /\ wire'[d] = "applied" /\ calls'[d].key = k
                          /\ plans'[calls'[d].plan].hash = keys'[k].hash
                          /\ <<d, "applied_success">> \in audit'
        BY DEF ReceiptBacked, HashOf
      <3>1. CASE keys[k].receipt = d
        <4>1. wire[d] = "applied" /\ calls[d].key = k /\ plans[calls[d].plan].hash = keys[k].hash
              /\ <<d, "applied_success">> \in audit
          BY <3>1 DEF IndInv, ReceiptBacked, HashOf
        <4>2. calls[d].plan \in Plans
          BY <2>4, <4>1 DEF IndInv, WireInv
        <4> QED BY <1>8, <2>1, <2>2, <4>1, <4>2
      <3>2. CASE keys[k].receipt # d
        <4>1. k = calls[c].key /\ d = c /\ wire[c] = "applied" /\ <<c, "applied_success">> \in audit'
          BY <1>8, <2>2, <3>2
        <4> QED BY <1>1, <1>2, <1>8, <2>1, <2>2, <4>1 DEF IndInv, InFlightInv, HashOf
      <3> QED BY <3>1, <3>2
    <2> QED BY <2>5, <2>6, <2>7, <2>8, <2>9 DEF IndInv
  <1>9. CASE WriteUpstreamError(c)
    <2>1. CASE ~IsIncident
      BY <1>4, <1>9, <2>1 DEF WriteUpstreamError, AuditWith
    <2>2. CASE IsIncident
      <3> DEFINE row == ClearApplyStarted(keys[calls[c].key])
      <3>1. row \in KeyRow(Calls)
        BY <1>2, KeyRowTypes DEF TypeOK
      <3>2. row.hash = keys[calls[c].key].hash /\ row.expires = keys[calls[c].key].expires
            /\ row.receipt = keys[calls[c].key].receipt
        BY <1>2 DEF TypeOK, KeyRow, ClearApplyStarted
      <3>3. keys' = [keys EXCEPT ![calls[c].key] = row]
        BY <1>9, <2>2 DEF WriteUpstreamError
      <3>4. audit \subseteq audit'
        BY <1>9 DEF WriteUpstreamError, AuditWith
      <3> HIDE DEF row
      <3> QED BY <1>8, <1>9, <2>2, <3>1, <3>2, <3>3, <3>4 DEF WriteUpstreamError
    <2> QED BY <2>1, <2>2
  <1>10. ASSUME NEW done \in 0..3, WriteOk(c, done) PROVE IndInv'
    <2>1. CASE done # 3 \/ ConsumeVerdict(confs[calls[c].token], calls[c].actor, HashOf(c), now) # "ok"
      <3>1. keys' = keys /\ plans' = plans /\ wire' = wire /\ now' = now
        BY <1>10, <2>1 DEF WriteOk
      <3>2. audit \subseteq audit'
        BY <1>10 DEF WriteOk, AuditWith
      <3>3. \E code : calls' = Answer(c, code)
        BY <1>10 DEF WriteOk
      <3> QED BY <1>4, <3>1, <3>2, <3>3
    <2>2. CASE done = 3 /\ ConsumeVerdict(confs[calls[c].token], calls[c].actor, HashOf(c), now) = "ok"
      <3> DEFINE row == SaveReceipt(keys[calls[c].key], c)
      <3>1. row \in KeyRow(Calls)
        BY <1>2, KeyRowTypes DEF TypeOK
      <3>2. row.hash = keys[calls[c].key].hash /\ row.expires = keys[calls[c].key].expires
            /\ row.receipt = c /\ row.started = keys[calls[c].key].started
        BY <1>2 DEF TypeOK, KeyRow, SaveReceipt
      <3>3. /\ keys' = [keys EXCEPT ![calls[c].key] = row]
            /\ plans' = [plans EXCEPT ![calls[c].plan] = MarkPlanConsumed(@)]
            /\ calls' = Answer(c, "ok")
            /\ audit' = audit \cup {<<c, "applied_success">>}
            /\ UNCHANGED <<now, wire>>
            /\ calls[c].pc = "writing"
            /\ wire[c] = "applied"
        BY <1>10, <2>2 DEF WriteOk, AuditStatus
      <3>4. \A q \in Plans : /\ plans'[q].hash = plans[q].hash
                             /\ plans[q].state # "absent" <=> plans'[q].state # "absent"
        <4>1. plans[calls[c].plan].state # "absent"
          BY <1>1 DEF IndInv, InFlightInv
        <4> QED BY <1>2, <3>3, <4>1 DEF TypeOK, PlanRow, MarkPlanConsumed
      <3> HIDE DEF row
      <3> QED BY <1>8, <3>1, <3>2, <3>3, <3>4
    <2> QED BY <2>1, <2>2
  <1> QED BY <1>5, <1>6, <1>7, <1>9, <1>10 DEF Handler

\* The invariant is inductive while reservations outlive the calls under them.
LEMMA StepInd ==
  ASSUME FlightsFit, Window > 0
  PROVE  TypeOK /\ IndInv /\ [Next]_vars => IndInv'
  <1> SUFFICES ASSUME TypeOK, IndInv, [Next]_vars PROVE IndInv'
    OBVIOUS
  <1>1. ASSUME NEW p \in Plans, NEW h \in Hashes, NEW a \in Actors, PlanChange(p, h, a)
        PROVE  IndInv'
    BY <1>1, PlanInd
  <1>2. ASSUME NEW c \in Calls, NEW p \in Plans, NEW tok \in Plans, NEW k \in Keys,
               NEW a \in Actors, NEW ok \in BOOLEAN, Apply(c, p, tok, k, a, ok)
        PROVE  IndInv'
    BY <1>2, ApplyInd
  <1>3. ASSUME NEW c \in Calls, Handler(c) PROVE IndInv'
    BY <1>3, HandlerInd
  <1>4. ASSUME NEW c \in Calls, Snow(c) PROVE IndInv'
    <2>1. keys' = keys /\ plans' = plans /\ now' = now /\ audit' = audit
      BY <1>4 DEF Snow, SnowRead, SnowApplies, SnowRejects
    <2>2. CASE SnowRead(c)
      <3>1. \A d \in Calls : /\ calls'[d].plan = calls[d].plan
                             /\ calls'[d].key = calls[d].key
                             /\ d # c => calls'[d] = calls[d]
        BY <2>2 DEF SnowRead, TypeOK, MadeCall, NoCall
      <3>2. calls[c].pc = "reading" /\ calls'[c].pc = "readback" /\ wire' = wire
        BY <2>2 DEF SnowRead, TypeOK, MadeCall, NoCall
      <3>3. \A d \in Calls : /\ d \in InFlight' => d \in InFlight
                             /\ d \in Writers' => d \in Writers
                             /\ calls[d].pc \in {"writing", "done", "dropped"} =>
                                  calls'[d].pc \in {"writing", "done", "dropped"}
        BY <3>1, <3>2 DEF InFlight, Writers
      <3> QED BY <2>1, <3>1, <3>2, <3>3, QuietInd
    <2>3. CASE SnowApplies(c) \/ SnowRejects(c)
      <3>1. calls' = calls /\ InFlight' = InFlight /\ Writers' = Writers
        BY <2>3 DEF SnowApplies, SnowRejects, InFlight, Writers
      <3>2. \A d \in Calls : /\ wire[d] = "none" => wire'[d] = "none"
                             /\ wire[d] = "applied" => wire'[d] = "applied"
        BY <2>3 DEF SnowApplies, SnowRejects, TypeOK
      <3> QED BY <2>1, <3>1, <3>2, QuietInd
    <2> QED BY <1>4, <2>2, <2>3 DEF Snow
  <1>5. CASE ForeignUpdate
    <2>1. calls' = calls /\ wire' = wire /\ keys' = keys /\ plans' = plans /\ now' = now
          /\ audit' = audit /\ InFlight' = InFlight /\ Writers' = Writers
      BY <1>5 DEF ForeignUpdate, InFlight, Writers
    <2> QED BY <2>1, QuietInd
  <1>6. CASE Tick
    <2>1. UNCHANGED <<plans, keys, calls, wire, audit>> /\ now' = now + 1
          /\ InFlight' = InFlight /\ Writers' = Writers
      BY <1>6 DEF Tick, InFlight, Writers
    <2>2. \A c \in InFlight : keys[calls[c].key].expires > now'
      BY <1>6 DEF Tick
    <2>3. InFlightInv'
      BY <2>1, <2>2 DEF IndInv, InFlightInv, HashOf, KeyLive
    <2> QED BY <2>1, <2>3 DEF IndInv, PlanInv, ClaimInv, SingleClaim, WireInv, ReceiptBacked, HashOf
  <1>7. CASE Crash
    <2>1. keys' = keys /\ plans' = plans /\ now' = now /\ audit' = audit /\ wire' = wire
      BY <1>7 DEF Crash
    <2>2. \A d \in Calls : /\ d \in InFlight => calls'[d].pc = "dropped"
                           /\ d \notin InFlight => calls'[d] = calls[d]
                           /\ calls'[d].plan = calls[d].plan
                           /\ calls'[d].key = calls[d].key
      <3>1. \A d \in InFlight : calls[d] \in MadeCall
        BY DEF InFlight, TypeOK, NoCall
      <3> QED BY <1>7, <3>1 DEF Crash, MadeCall
    <2>3. \A d \in Calls : /\ d \in InFlight' => d \in InFlight
                           /\ d \in Writers' => d \in Writers
                           /\ calls[d].pc \in {"writing", "done", "dropped"} =>
                                calls'[d].pc \in {"writing", "done", "dropped"}
      BY <2>2 DEF InFlight, Writers
    <2>9. \A d \in Calls : /\ calls'[d].plan = calls[d].plan
                           /\ calls'[d].key = calls[d].key
                           /\ d \in InFlight' => d \in InFlight
                           /\ d \in Writers' => d \in Writers
                           /\ calls[d].pc \in {"writing", "done", "dropped"} =>
                                calls'[d].pc \in {"writing", "done", "dropped"}
                           /\ wire[d] = "none" => wire'[d] = "none"
                           /\ wire[d] = "applied" => wire'[d] = "applied"
      BY <2>1, <2>2, <2>3
    <2> QED BY <2>1, <2>9, QuietInd
  <1>8. CASE UNCHANGED vars
    <2>1. calls' = calls /\ wire' = wire /\ keys' = keys /\ plans' = plans /\ now' = now
          /\ audit' = audit /\ InFlight' = InFlight /\ Writers' = Writers
      BY <1>8 DEF vars, InFlight, Writers
    <2> QED BY <2>1, QuietInd
  <1> QED BY <1>1, <1>2, <1>3, <1>4, <1>5, <1>6, <1>7, <1>8 DEF Next

\* Under the flights assumption (no call outlives its reservation, a window of
\* at least one second) the strengthened invariant holds in every state.
LEMMA IndCorrect ==
  ASSUME FlightsFit, Window > 0
  PROVE  Spec => []IndInv
  <1>1. TypeOK /\ IndInv /\ [Next]_vars => IndInv'
    BY StepInd
  <1> QED BY <1>1, InitInd, TypeCorrect, PTL DEF Spec

\* try_mark_apply_started is a mutual exclusion between the Incident calls of
\* one reservation, for any number of them, with lost replies and crashes.
THEOREM ClaimExclusive ==
  ASSUME FlightsFit, Window > 0
  PROVE  Spec => []SingleClaim
  <1>1. IndInv => SingleClaim
    BY DEF IndInv
  <1> QED BY <1>1, IndCorrect, PTL

\* A receipt in mcp_idempotency always stands for an applied and audited write
\* of the reserved operation, for every tool of change_write.rs.
THEOREM ReceiptsTrue ==
  ASSUME FlightsFit, Window > 0
  PROVE  Spec => []ReceiptBacked
  <1>1. IndInv => ReceiptBacked
    BY DEF IndInv
  <1> QED BY <1>1, IndCorrect, PTL

\* No step replaces the receipt of a live Incident reservation: the only save is
\* that of a writer, and a writer's row has no receipt.
LEMMA StepStable ==
  ASSUME TypeOK, IndInv, [Next]_vars, IsIncident, NEW k \in Keys,
         keys[k].receipt # None, KeyLive(keys[k], now)
  PROVE  keys'[k].receipt = keys[k].receipt
  <1>1. ASSUME NEW p \in Plans, NEW h \in Hashes, NEW a \in Actors, PlanChange(p, h, a)
        PROVE  keys'[k].receipt = keys[k].receipt
    <2>1. ~KeyLive(keys[OwnKey[p]], now) /\ keys' = [keys EXCEPT ![OwnKey[p]] =
              CheckAndRecord(keys[OwnKey[p]], h, now)]
      BY <1>1 DEF PlanChange, CheckOutcome
    <2> QED BY <2>1 DEF TypeOK
  <1>2. ASSUME NEW c \in Calls, NEW x, NEW row \in KeyRow(Calls), PassGate(c, x, row),
               x.key = k => row = keys[k]
        PROVE  keys'[k].receipt = keys[k].receipt
    <2>1. MarkApplyStarted(row).receipt = row.receipt
      BY DEF MarkApplyStarted, KeyRow
    <2>2. keys' = [keys EXCEPT ![x.key] = row] \/ keys' = [keys EXCEPT ![x.key] = MarkApplyStarted(row)]
      BY <1>2 DEF PassGate
    <2> QED BY <1>2, <2>1, <2>2 DEF TypeOK
  <1>3. ASSUME NEW c \in Calls, NEW p \in Plans, NEW tok \in Plans, NEW j \in Keys,
               NEW a \in Actors, NEW ok \in BOOLEAN, Apply(c, p, tok, j, a, ok)
        PROVE  keys'[k].receipt = keys[k].receipt
    <2> DEFINE x == NewCall(p, tok, j, a, ok)
               row == CheckAndRecord(keys[j], plans[p].hash, now)
    <2>1. j = k => row = keys[k]
      BY DEF CheckAndRecord
    <2>2. row \in KeyRow(Calls)
      <3>1. plans[p].hash \in Hashes \cup {None}
        BY DEF TypeOK, PlanRow
      <3> QED BY <3>1, KeyRowTypes DEF TypeOK
    <2>3. x.key = j
      BY DEF NewCall
    <2>4. keys' = keys \/ keys' = [keys EXCEPT ![j] = row] \/ PassGate(c, x, row)
      BY <1>3 DEF Apply
    <2> HIDE DEF x, row
    <2> QED BY <1>2, <2>1, <2>2, <2>3, <2>4 DEF TypeOK
  <1>4. ASSUME NEW c \in Calls, Handler(c)
        PROVE  keys'[k].receipt = keys[k].receipt
    <2>1. calls[c] \in MadeCall
      BY <1>4 DEF TypeOK, NoCall, Handler, ReadReturns, ReadFails, WriteUpstreamError,
                  WriteLocalCoherence, WriteOk
    <2>2. calls[c].key \in Keys
      BY <2>1 DEF MadeCall
    <2>3. CASE ReadReturns(c)
      <3>1. keys[calls[c].key] \in KeyRow(Calls)
        BY <2>2 DEF TypeOK
      <3> QED BY <1>2, <2>3, <3>1 DEF ReadReturns
    <2>4. CASE ReadFails(c) \/ WriteLocalCoherence(c)
      BY <2>4 DEF ReadFails, WriteLocalCoherence
    <2>5. CASE WriteUpstreamError(c)
      <3>1. keys[calls[c].key] \in KeyRow(Calls)
        BY <2>2 DEF TypeOK
      <3>2. ClearApplyStarted(keys[calls[c].key]).receipt = keys[calls[c].key].receipt
        BY <3>1 DEF ClearApplyStarted, KeyRow
      <3> QED BY <2>2, <2>5, <3>2 DEF WriteUpstreamError, TypeOK
    <2>6. ASSUME NEW done \in 0..3, WriteOk(c, done)
          PROVE  keys'[k].receipt = keys[k].receipt
      <3>1. c \in Writers
        BY <2>6 DEF WriteOk, Writers
      <3>2. calls[c].key # k
        BY <3>1 DEF IndInv, ClaimInv
      <3>3. keys' = keys \/ keys' = [keys EXCEPT ![calls[c].key] = SaveReceipt(keys[calls[c].key], c)]
        BY <2>6 DEF WriteOk
      <3> QED BY <3>2, <3>3 DEF TypeOK
    <2> QED BY <1>4, <2>3, <2>4, <2>5, <2>6 DEF Handler
  <1>5. CASE (\E c \in Calls : Snow(c)) \/ ForeignUpdate \/ Tick \/ Crash \/ UNCHANGED vars
    BY <1>5 DEF Snow, SnowRead, SnowApplies, SnowRejects, ForeignUpdate, Tick, Crash, vars
  <1> QED BY <1>1, <1>3, <1>4, <1>5 DEF Next

\* A stored Incident receipt is never replaced while its reservation lives: of
\* all calls under one key, exactly one result is ever reported.
THEOREM ReceiptsStable ==
  ASSUME FlightsFit, Window > 0
  PROVE  Spec => ReceiptStable
  <1>1. TypeOK /\ IndInv /\ [Next]_vars =>
          [IsIncident => \A k \in Keys :
             keys[k].receipt # None /\ KeyLive(keys[k], now) => keys'[k].receipt = keys[k].receipt]_vars
    BY StepStable
  <1> QED BY <1>1, IndCorrect, TypeCorrect, PTL DEF Spec, ReceiptStable
-----------------------------------------------------------------------------
(* Replays, and one effect per plan. *)

\* A call that was not answered has no answer.
DoneInv == \A c \in Calls : calls[c].pc # "done" => calls[c].out = None

\* A replayed call reports a write of its own operation, whose plan is stored.
ReplayInv ==
  \A c \in Calls : calls[c].out = "replay" =>
    /\ plans[calls[c].plan].state # "absent"
    /\ \E d \in Calls : wire[d] = "applied" /\ calls[d].key = calls[c].key /\ HashOf(d) = HashOf(c)

\* A plan's own key stays reserved for as long as the plan lives.
KeyInv ==
  \A p \in Plans : plans[p].state # "absent" =>
    keys[OwnKey[p]].hash # None /\ plans[p].expires <= keys[OwnKey[p]].expires

\* A call that sent its PATCH under its plan's own key and did not give its claim back.
Counts(c) ==
  /\ wire[c] # "none"
  /\ calls[c].key = OwnKey[calls[c].plan]
  /\ calls[c].out # "UPSTREAM_ERROR"

\* Its claim stands, and nobody else has one on that reservation ...
Marked(c) ==
  /\ KeyLive(keys[calls[c].key], now)
  /\ keys[calls[c].key].started
  /\ \A e \in Writers : calls[e].key = calls[c].key => e = c

\* ... or its plan is over and no call of it is under way.
Over(c) ==
  /\ plans[calls[c].plan].expires <= now
  /\ \A e \in InFlight : ~Same(e, c)

MarkInv == \A c \in Calls : Counts(c) => Marked(c) \/ Over(c)
OnceInv == \A c, d \in Calls : Counts(c) /\ Counts(d) /\ Same(c, d) => c = d

\* What every step leaves alone: the arguments and answers of calls, stored plans,
\* served writes.
CallsKept ==
  \A c \in Calls :
    /\ calls[c].pc # "idle" => calls'[c].plan = calls[c].plan /\ calls'[c].key = calls[c].key
    /\ calls[c].out # None => calls'[c].out = calls[c].out
    /\ calls'[c].pc # "done" => calls'[c].out = None
PlansKept ==
  \A p \in Plans : plans[p].state # "absent" =>
    /\ plans'[p].state # "absent"
    /\ plans'[p].hash = plans[p].hash
    /\ plans'[p].expires = plans[p].expires
WireKept == \A c \in Calls : wire[c] = "applied" => wire'[c] = "applied"

\* A call that is answered with a replay met a receipt of its own operation.
ReplaysMeet ==
  \A c \in Calls : calls'[c].out = "replay" /\ calls[c].out # "replay" =>
    LET k == calls'[c].key
        p == calls'[c].plan
    IN /\ k \in Keys /\ p \in Plans
       /\ plans[p].state # "absent"
       /\ keys[k].receipt # None
       /\ keys[k].hash = plans[p].hash

\* A step of one unanswered call keeps the arguments and answers.
LEMMA OneKept ==
  ASSUME TypeOK, DoneInv, NEW c \in Calls, NEW y,
         calls' = [calls EXCEPT ![c] = y],
         calls[c].pc # "done",
         calls[c].pc # "idle" => y.plan = calls[c].plan /\ y.key = calls[c].key,
         y.pc # "done" => y.out = None
  PROVE  CallsKept
  <1>1. \A d \in Calls : d # c => calls'[d] = calls[d]
    BY DEF TypeOK
  <1>2. calls'[c] = y
    BY DEF TypeOK
  <1>3. calls[c].out = None
    BY DEF DoneInv
  <1> QED BY <1>1, <1>2, <1>3 DEF CallsKept, DoneInv

\* What an answer is.
LEMMA AnswerShape ==
  ASSUME NEW x \in MadeCall, NEW code
  PROVE  LET y == Done(x, code)
         IN  y.pc = "done" /\ y.out = code /\ y.plan = x.plan /\ y.key = x.key
  BY DEF Done, MadeCall

\* The gate answers the call or sends its write.
LEMMA GateShape ==
  ASSUME TypeOK, NEW c \in Calls, NEW x \in MadeCall, NEW row, PassGate(c, x, row)
  PROVE  LET v == GateVerdict(x.plan, x.token, x.actor, x.tokenOk, x.seen, row)
         IN  \/ v # None /\ calls' = [calls EXCEPT ![c] = Done(x, v)] /\ wire' = wire
             \/ /\ v = None
                /\ calls' = [calls EXCEPT ![c] = [x EXCEPT !.pc = "writing"]]
                /\ wire' = [wire EXCEPT ![c] = "posted"]
  BY DEF PassGate

\* Every step keeps them.
LEMMA StepKept ==
  ASSUME TypeOK, IndInv, DoneInv, [Next]_vars
  PROVE  CallsKept /\ PlansKept /\ WireKept
  <1>1. ASSUME calls' = calls PROVE CallsKept
    BY <1>1 DEF CallsKept, DoneInv
  <1>2. ASSUME plans' = plans PROVE PlansKept
    BY <1>2 DEF PlansKept
  <1>3. ASSUME wire' = wire PROVE WireKept
    BY <1>3 DEF WireKept
  <1>4. ASSUME NEW c \in Calls, wire[c] # "applied", NEW w, wire' = [wire EXCEPT ![c] = w]
        PROVE  WireKept
    BY <1>4 DEF WireKept, TypeOK
  <1>5. ASSUME NEW p \in Plans, NEW row, plans' = [plans EXCEPT ![p] = row],
               plans[p].state # "absent" => /\ row.state # "absent" /\ row.hash = plans[p].hash
                                            /\ row.expires = plans[p].expires
        PROVE  PlansKept
    BY <1>5 DEF PlansKept, TypeOK
  <1>6. ASSUME NEW c \in Calls, NEW x \in MadeCall, NEW row, PassGate(c, x, row), wire[c] # "applied",
               x.out = None, calls[c].pc # "done",
               calls[c].pc # "idle" => x.plan = calls[c].plan /\ x.key = calls[c].key
        PROVE  CallsKept /\ WireKept
    <2> DEFINE v == GateVerdict(x.plan, x.token, x.actor, x.tokenOk, x.seen, row)
    <2>1. \/ calls' = [calls EXCEPT ![c] = Done(x, v)] /\ wire' = wire
          \/ /\ calls' = [calls EXCEPT ![c] = [x EXCEPT !.pc = "writing"]]
             /\ wire' = [wire EXCEPT ![c] = "posted"]
      BY <1>6, GateShape
    <2> DEFINE y == [x EXCEPT !.pc = "writing"]
    <2>2. y.out = None /\ y.plan = x.plan /\ y.key = x.key
      BY <1>6 DEF MadeCall
    <2>3. Done(x, v).pc = "done" /\ Done(x, v).plan = x.plan /\ Done(x, v).key = x.key
      BY <1>6, AnswerShape
    <2> HIDE DEF v, y
    <2>4. CASE calls' = [calls EXCEPT ![c] = Done(x, v)] /\ wire' = wire
      BY <1>3, <1>6, <2>3, <2>4, OneKept
    <2>5. CASE /\ calls' = [calls EXCEPT ![c] = y]
               /\ wire' = [wire EXCEPT ![c] = "posted"]
      BY <1>4, <1>6, <2>2, <2>5, OneKept
    <2> QED BY <2>1, <2>4, <2>5 DEF y
  <1>7. ASSUME NEW p \in Plans, NEW h \in Hashes, NEW a \in Actors, PlanChange(p, h, a)
        PROVE  CallsKept /\ PlansKept /\ WireKept
    BY <1>1, <1>3, <1>5, <1>7 DEF PlanChange
  <1>8. ASSUME NEW c \in Calls, NEW p \in Plans, NEW tok \in Plans, NEW k \in Keys, NEW a \in Actors,
               NEW ok \in BOOLEAN, Apply(c, p, tok, k, a, ok)
        PROVE  CallsKept /\ PlansKept /\ WireKept
    <2> DEFINE x == NewCall(p, tok, k, a, ok)
               v == EntryVerdict(p, tok, a, keys[k])
               row == CheckAndRecord(keys[k], plans[p].hash, now)
    <2>1. x \in MadeCall /\ x.out = None /\ calls[c].pc = "idle"
      BY <1>8 DEF NewCall, MadeCall, Apply
    <2>2. \A code : Done(x, code).pc = "done"
      BY <2>1, AnswerShape
    <2>0. wire[c] # "applied"
      BY <2>1 DEF IndInv, WireInv
    <2> HIDE DEF x
    <2>3. PlansKept
      <3>1. plans' = plans \/ plans' = [plans EXCEPT ![p] = MarkPlanExpired(@)]
        BY <1>8 DEF Apply
      <3>2. plans[p].state # "absent" =>
              /\ MarkPlanExpired(plans[p]).state # "absent"
              /\ MarkPlanExpired(plans[p]).hash = plans[p].hash
              /\ MarkPlanExpired(plans[p]).expires = plans[p].expires
        BY DEF MarkPlanExpired, TypeOK, PlanRow
      <3> QED BY <1>2, <1>5, <3>1, <3>2
    <2>4. \/ PassGate(c, x, row)
          \/ /\ wire' = wire
             /\ \/ calls' = [calls EXCEPT ![c] = Done(x, v)]
                \/ calls' = [calls EXCEPT ![c] = Done(x, "FIELD_REJECTED")]
                \/ calls' = [calls EXCEPT ![c] = x]
      BY <1>8 DEF Apply, x
    <2> HIDE DEF v, row
    <2>5. CASE PassGate(c, x, row)
      BY <1>6, <2>0, <2>1, <2>3, <2>5
    <2>6. CASE wire' = wire /\ \E code : calls' = [calls EXCEPT ![c] = Done(x, code)]
      BY <1>3, <2>1, <2>2, <2>3, <2>6, OneKept
    <2>7. CASE wire' = wire /\ calls' = [calls EXCEPT ![c] = x]
      BY <1>3, <2>1, <2>3, <2>7, OneKept
    <2> QED BY <2>4, <2>5, <2>6, <2>7
  <1>9. ASSUME NEW c \in Calls, Handler(c)
        PROVE  CallsKept /\ PlansKept /\ WireKept
    <2>1. calls[c] \in MadeCall /\ calls[c].pc \in {"reading", "readback", "writing"}
      BY <1>9 DEF TypeOK, NoCall, Handler, ReadReturns, ReadFails, WriteUpstreamError,
                  WriteLocalCoherence, WriteOk
    <2>2. calls[c].out = None /\ calls[c].plan \in Plans
      BY <2>1 DEF DoneInv, MadeCall
    <2>3. CASE ReadReturns(c)
      <3>1. wire[c] # "applied"
        BY <2>3 DEF ReadReturns, IndInv, WireInv
      <3> QED BY <1>2, <1>6, <2>1, <2>2, <2>3, <3>1 DEF ReadReturns
    <2>4. CASE ~ReadReturns(c)
      <3>1. wire' = wire /\ \E code : calls' = [calls EXCEPT ![c] = Done(calls[c], code)]
        BY <1>9, <2>4 DEF Handler, ReadFails, WriteUpstreamError, WriteLocalCoherence, WriteOk, Answer
      <3>2. CallsKept
        <4>1. PICK code : calls' = [calls EXCEPT ![c] = Done(calls[c], code)]
          BY <3>1
        <4> DEFINE y == Done(calls[c], code)
        <4>2. y.pc = "done" /\ y.plan = calls[c].plan /\ y.key = calls[c].key
          BY <2>1, AnswerShape
        <4> HIDE DEF y
        <4>3. calls' = [calls EXCEPT ![c] = y] /\ calls[c].pc # "done"
          BY <2>1, <4>1 DEF y
        <4> QED BY <4>2, <4>3, OneKept
      <3>3. plans' = plans \/ plans' = [plans EXCEPT ![calls[c].plan] = MarkPlanConsumed(@)]
        BY <1>9, <2>4 DEF Handler, ReadFails, WriteUpstreamError, WriteLocalCoherence, WriteOk
      <3>4. LET row == MarkPlanConsumed(plans[calls[c].plan])
            IN /\ row.state # "absent" /\ row.hash = plans[calls[c].plan].hash
               /\ row.expires = plans[calls[c].plan].expires
        BY <2>2 DEF MarkPlanConsumed, TypeOK, PlanRow
      <3> QED BY <1>2, <1>3, <1>5, <2>2, <3>1, <3>2, <3>3, <3>4
    <2> QED BY <2>3, <2>4
  <1>10. ASSUME NEW c \in Calls, Snow(c)
         PROVE  CallsKept /\ PlansKept /\ WireKept
    <2>1. CASE SnowRead(c)
      <3>1. calls[c] \in MadeCall
        BY <2>1 DEF TypeOK, NoCall, SnowRead
      <3>2. PICK s \in {mod, None} : calls' = [calls EXCEPT ![c].pc = "readback", ![c].seen = s]
        BY <2>1 DEF SnowRead
      <3> DEFINE y == [calls[c] EXCEPT !.pc = "readback", !.seen = s]
      <3>3. y.plan = calls[c].plan /\ y.key = calls[c].key /\ y.out = calls[c].out
        BY <3>1 DEF MadeCall
      <3>4. calls' = [calls EXCEPT ![c] = y] /\ calls[c].pc = "reading"
        BY <2>1, <3>2 DEF SnowRead, TypeOK
      <3>5. calls[c].out = None
        BY <3>4 DEF DoneInv
      <3> HIDE DEF y
      <3>6. CallsKept
        BY <3>3, <3>4, <3>5, OneKept
      <3> QED BY <1>2, <1>3, <2>1, <3>6 DEF SnowRead
    <2>2. CASE SnowApplies(c) \/ SnowRejects(c)
      BY <1>1, <1>2, <1>4, <2>2 DEF SnowApplies, SnowRejects
    <2> QED BY <1>10, <2>1, <2>2 DEF Snow
  <1>11. CASE Crash
    <2>1. \A d \in Calls : /\ d \in InFlight => calls[d] \in MadeCall /\ calls[d].pc # "done"
                           /\ d \in InFlight => calls'[d] = [calls[d] EXCEPT !.pc = "dropped"]
                           /\ d \notin InFlight => calls'[d] = calls[d]
      BY <1>11 DEF Crash, InFlight, TypeOK, NoCall
    <2>2. CallsKept
      BY <2>1, ZenonT(60) DEF CallsKept, DoneInv, MadeCall
    <2> QED BY <1>2, <1>3, <1>11, <2>2 DEF Crash
  <1>12. CASE ForeignUpdate \/ Tick \/ UNCHANGED vars
    BY <1>1, <1>2, <1>3, <1>12 DEF ForeignUpdate, Tick, vars
  <1> QED BY <1>7, <1>8, <1>9, <1>10, <1>11, <1>12 DEF Next

\* A replay is answered at the entry or at the gate, over a row with a receipt.
LEMMA StepMeets ==
  ASSUME TypeOK, IndInv, DoneInv, Window > 0, [Next]_vars
  PROVE  ReplaysMeet
  <1>1. ASSUME \A c \in Calls : calls'[c].out = "replay" => calls[c].out = "replay"
        PROVE  ReplaysMeet
    BY <1>1 DEF ReplaysMeet
  <1>2. ASSUME NEW c \in Calls, NEW x \in MadeCall, NEW code,
               calls' = [calls EXCEPT ![c] = Done(x, code)],
               code = "replay" => /\ plans[x.plan].state # "absent"
                                  /\ keys[x.key].receipt # None
                                  /\ keys[x.key].hash = plans[x.plan].hash
        PROVE  ReplaysMeet
    <2>1. \A d \in Calls : d # c => calls'[d] = calls[d]
      BY <1>2 DEF TypeOK
    <2>2. calls'[c].out = code /\ calls'[c].plan = x.plan /\ calls'[c].key = x.key
      BY <1>2, AnswerShape DEF TypeOK
    <2>3. x.plan \in Plans /\ x.key \in Keys
      BY DEF MadeCall
    <2> QED BY <1>2, <2>1, <2>2, <2>3 DEF ReplaysMeet
  <1>3. ASSUME NEW c \in Calls, NEW x, calls' = [calls EXCEPT ![c] = x], x.out = None
        PROVE  ReplaysMeet
    <2>1. \A d \in Calls : calls'[d] = calls[d] \/ calls'[d].out = None
      BY <1>3 DEF TypeOK
    <2>2. None # "replay"
      BY DEF ChangeAssumption, Codes
    <2> QED BY <1>1, <2>1, <2>2
  <1>4. ASSUME NEW c \in Calls, NEW x \in MadeCall, NEW row, PassGate(c, x, row), x.out = None,
               plans[x.plan].state # "absent", row.hash = plans[x.plan].hash, Handed(x.key, row)
        PROVE  ReplaysMeet
    <2> DEFINE v == GateVerdict(x.plan, x.token, x.actor, x.tokenOk, x.seen, row)
    <2>1. v = "replay" => row.receipt # None
      BY DEF GateVerdict, ChangeAssumption, Codes
    <2>2. v = "replay" => row = keys[x.key]
      BY <1>4, <2>1 DEF Handed
    <2>3. \/ calls' = [calls EXCEPT ![c] = Done(x, v)]
          \/ calls' = [calls EXCEPT ![c] = [x EXCEPT !.pc = "writing"]]
      BY <1>4, GateShape
    <2>4. [x EXCEPT !.pc = "writing"].out = None
      BY <1>4 DEF MadeCall
    <2> HIDE DEF v
    <2> QED BY <1>2, <1>3, <1>4, <2>1, <2>2, <2>3, <2>4, ZenonT(60)
  <1>5. ASSUME NEW c \in Calls, NEW p \in Plans, NEW tok \in Plans, NEW k \in Keys, NEW a \in Actors,
               NEW ok \in BOOLEAN, Apply(c, p, tok, k, a, ok)
        PROVE  ReplaysMeet
    <2> DEFINE x == NewCall(p, tok, k, a, ok)
               v == EntryVerdict(p, tok, a, keys[k])
               row == CheckAndRecord(keys[k], plans[p].hash, now)
    <2>1. x \in MadeCall /\ x.out = None /\ x.plan = p /\ x.key = k
      BY DEF NewCall, MadeCall
    <2>2. v = "replay" => /\ plans[p].state # "absent" /\ keys[k].receipt # None
                          /\ keys[k].hash = plans[p].hash
      BY DEF EntryVerdict, ChangeAssumption, Codes
    <2>3. v = None => /\ plans[p].state # "absent" /\ row.hash = plans[p].hash /\ Handed(k, row)
      BY Entered
    <2>4. \/ calls' = [calls EXCEPT ![c] = Done(x, v)]
          \/ calls' = [calls EXCEPT ![c] = Done(x, "FIELD_REJECTED")]
          \/ calls' = [calls EXCEPT ![c] = x]
          \/ v = None /\ PassGate(c, x, row)
      BY <1>5 DEF Apply
    <2> HIDE DEF x, v, row
    <2>5. CASE calls' = [calls EXCEPT ![c] = Done(x, v)]
      BY <1>2, <2>1, <2>2, <2>5
    <2>6. CASE calls' = [calls EXCEPT ![c] = Done(x, "FIELD_REJECTED")]
      BY <1>2, <2>1, <2>6
    <2>7. CASE calls' = [calls EXCEPT ![c] = x]
      BY <1>3, <2>1, <2>7
    <2>8. CASE v = None /\ PassGate(c, x, row)
      BY <1>4, <2>1, <2>3, <2>8
    <2> QED BY <2>4, <2>5, <2>6, <2>7, <2>8
  <1>6. ASSUME NEW c \in Calls, Handler(c)
        PROVE  ReplaysMeet
    <2>1. /\ c \in InFlight /\ calls[c] \in MadeCall /\ calls[c].pc # "done"
      BY <1>6 DEF InFlight, TypeOK, NoCall, Handler, ReadReturns, ReadFails, WriteUpstreamError,
                  WriteLocalCoherence, WriteOk
    <2>2. CASE ReadReturns(c)
      <3>1. /\ plans[calls[c].plan].state # "absent"
            /\ keys[calls[c].key].hash = plans[calls[c].plan].hash
        BY <2>1 DEF IndInv, InFlightInv, HashOf
      <3>2. calls[c].out = None
        BY <2>1 DEF DoneInv
      <3> QED BY <1>4, <2>1, <2>2, <3>1, <3>2 DEF ReadReturns, Handed
    <2>3. CASE ~ReadReturns(c)
      <3>1. \E code \in {"INTERNAL", "UPSTREAM_ERROR", "LOCAL_COHERENCE_FAILED", "CONFIRMATION_INVALID", "ok"} :
              calls' = [calls EXCEPT ![c] = Done(calls[c], code)]
        BY <1>6, <2>3 DEF Handler, ReadFails, WriteUpstreamError, WriteLocalCoherence, WriteOk, Answer
      <3>2. PICK code \in {"INTERNAL", "UPSTREAM_ERROR", "LOCAL_COHERENCE_FAILED", "CONFIRMATION_INVALID", "ok"} :
              calls' = [calls EXCEPT ![c] = Done(calls[c], code)]
        BY <3>1
      <3>3. code # "replay"
        OBVIOUS
      <3> QED BY <1>2, <2>1, <3>2, <3>3
    <2> QED BY <2>2, <2>3
  <1>7. ASSUME NEW c \in Calls, Snow(c)
        PROVE  ReplaysMeet
    <2>1. \A d \in Calls : calls'[d].out = calls[d].out
      BY <1>7 DEF Snow, SnowRead, SnowApplies, SnowRejects, TypeOK, MadeCall, NoCall
    <2> QED BY <1>1, <2>1
  <1>8. CASE Crash
    <2>1. \A d \in Calls : calls'[d].out = calls[d].out
      <3>1. \A d \in InFlight : calls[d] \in MadeCall
        BY DEF InFlight, TypeOK, NoCall
      <3> QED BY <1>8, <3>1 DEF Crash, MadeCall
    <2> QED BY <1>1, <2>1
  <1>9. ASSUME calls' = calls PROVE ReplaysMeet
    BY <1>1, <1>9
  <1> QED BY <1>5, <1>6, <1>7, <1>8, <1>9 DEF Next, PlanChange, ForeignUpdate, Tick, vars

\* A receipt that was met is that of an applied write (ReceiptBacked), and stays so.
LEMMA StepReplay ==
  ASSUME TypeOK, IndInv, DoneInv, ReplayInv, CallsKept, PlansKept, WireKept, ReplaysMeet
  PROVE  ReplayInv'
  <1> SUFFICES ASSUME NEW c \in Calls, calls'[c].out = "replay"
               PROVE  /\ plans'[calls'[c].plan].state # "absent"
                      /\ \E d \in Calls : /\ wire'[d] = "applied" /\ calls'[d].key = calls'[c].key
                                          /\ plans'[calls'[d].plan].hash = plans'[calls'[c].plan].hash
    BY DEF ReplayInv, HashOf
  <1>1. None # "replay"
    BY DEF ChangeAssumption, Codes
  <1>2. ASSUME NEW d \in Calls, wire[d] = "applied"
        PROVE  /\ wire'[d] = "applied" /\ calls'[d].key = calls[d].key /\ calls'[d].plan = calls[d].plan
               /\ plans'[calls[d].plan].hash = plans[calls[d].plan].hash
    <2>1. calls[d].pc # "idle" /\ plans[calls[d].plan].state # "absent"
      BY <1>2 DEF IndInv, WireInv
    <2>2. calls[d].plan \in Plans
      BY <2>1 DEF TypeOK, MadeCall, NoCall
    <2> QED BY <1>2, <2>1, <2>2 DEF WireKept, CallsKept, PlansKept
  <1>3. CASE calls[c].out = "replay"
    <2>1. PICK d \in Calls : wire[d] = "applied" /\ calls[d].key = calls[c].key
                             /\ plans[calls[d].plan].hash = plans[calls[c].plan].hash
      BY <1>3 DEF ReplayInv, HashOf
    <2>2. calls[c].pc # "idle" /\ calls[c].plan \in Plans /\ plans[calls[c].plan].state # "absent"
      BY <1>1, <1>3 DEF ReplayInv, TypeOK, NoCall, MadeCall
    <2>3. calls'[c].plan = calls[c].plan /\ calls'[c].key = calls[c].key
      BY <2>2 DEF CallsKept
    <2> QED BY <1>2, <2>1, <2>2, <2>3 DEF PlansKept
  <1>4. CASE calls[c].out # "replay"
    <2> DEFINE k == calls'[c].key
               p == calls'[c].plan
    <2>1. /\ k \in Keys /\ p \in Plans /\ plans[p].state # "absent"
          /\ keys[k].receipt # None /\ keys[k].hash = plans[p].hash
      BY <1>4 DEF ReplaysMeet
    <2>2. keys[k].receipt \in Calls
      BY <2>1 DEF TypeOK, KeyRow
    <2>3. PICK d \in Calls : keys[k].receipt = d
      BY <2>2
    <2>4. wire[d] = "applied" /\ calls[d].key = k /\ plans[calls[d].plan].hash = keys[k].hash
      BY <2>1, <2>3, ZenonT(60) DEF IndInv, ReceiptBacked, HashOf
    <2> QED BY <1>2, <2>1, <2>4 DEF PlansKept
  <1> QED BY <1>3, <1>4

\* What a replayed caller is told is the outcome of an applied write of the very operation it
\* asked for, for every tool of change_write.rs.
THEOREM ReplaysTrue ==
  ASSUME FlightsFit, Window > 0
  PROVE  Spec => []ReplayBacked
  <1>1. Init => DoneInv /\ ReplayInv
    BY DEF Init, DoneInv, ReplayInv, NoCall, ChangeAssumption, Codes
  <1>2. TypeOK /\ IndInv /\ DoneInv /\ ReplayInv /\ [Next]_vars => DoneInv' /\ ReplayInv'
    <2>1. TypeOK /\ IndInv /\ DoneInv /\ [Next]_vars => CallsKept /\ PlansKept /\ WireKept /\ ReplaysMeet
      BY StepKept, StepMeets
    <2>2. CallsKept => DoneInv'
      BY DEF CallsKept, DoneInv
    <2> QED BY <2>1, <2>2, StepReplay
  <1>3. ReplayInv => ReplayBacked
    BY DEF ReplayInv, ReplayBacked
  <1> QED BY <1>1, <1>2, <1>3, TypeCorrect, IndCorrect, PTL DEF Spec

\* What a step does to the reservations: it leaves one to its holder, takes a mark only from
\* a writer that reports UPSTREAM_ERROR, or renews one that had expired.
RowsKept ==
  \A k \in Keys :
    \/ /\ keys'[k].hash = keys[k].hash /\ keys'[k].expires = keys[k].expires
       /\ keys[k].started =>
            \/ keys'[k].started
            \/ \E w \in Writers : calls[w].key = k /\ calls'[w].out = "UPSTREAM_ERROR"
    \/ /\ ~KeyLive(keys[k], now)
       /\ keys'[k].hash # None /\ keys'[k].expires = now + Window

\* A new plan comes with the reservation of its own key.
PlansNew ==
  \A p \in Plans : plans[p].state = "absent" /\ plans'[p].state # "absent" =>
    keys'[OwnKey[p]].hash # None /\ plans'[p].expires <= keys'[OwnKey[p]].expires

\* A step that sends nothing, starts no write, and lets a call in only under a plan that lives.
Calm ==
  /\ now' = now
  /\ \A c \in Calls :
       /\ wire'[c] = "none" <=> wire[c] = "none"
       /\ c \in Writers' => c \in Writers
       /\ c \in InFlight' => c \in InFlight \/ plans[calls'[c].plan].expires > now

\* An Incident call claims its reservation and sends its PATCH.
Sends(c) ==
  /\ calls[c].pc = "readback" /\ calls' = [calls EXCEPT ![c] = [calls[c] EXCEPT !.pc = "writing"]]
  /\ wire' = [wire EXCEPT ![c] = "posted"]
  /\ CanClaim(keys[calls[c].key])
  /\ keys' = [keys EXCEPT ![calls[c].key] = MarkApplyStarted(@)]
  /\ now' = now

\* Every step treats reservations and new plans so.
LEMMA StepRows ==
  ASSUME TypeOK, IndInv, Window > 0, PlanTTL <= Window, [Next]_vars
  PROVE  RowsKept /\ PlansNew
  <1>1. ASSUME keys' = keys PROVE RowsKept
    BY <1>1 DEF RowsKept
  <1>2. ASSUME \A p \in Plans : plans'[p].state # "absent" => plans[p].state # "absent"
        PROVE  PlansNew
    BY <1>2 DEF PlansNew
  <1>3. ASSUME NEW k \in Keys, NEW row, keys' = [keys EXCEPT ![k] = row],
               \/ /\ row.hash = keys[k].hash /\ row.expires = keys[k].expires
                  /\ keys[k].started =>
                       \/ row.started
                       \/ \E w \in Writers : calls[w].key = k /\ calls'[w].out = "UPSTREAM_ERROR"
               \/ ~KeyLive(keys[k], now) /\ row.hash # None /\ row.expires = now + Window
        PROVE  RowsKept
    <2>1. keys'[k] = row /\ \A j \in Keys : j # k => keys'[j] = keys[j]
      BY <1>3 DEF TypeOK
    <2> QED BY <1>3, <2>1 DEF RowsKept
  <1>4. ASSUME NEW c \in Calls, NEW x, x.key \in Keys, NEW row \in KeyRow(Calls), PassGate(c, x, row),
               \/ row = keys[x.key]
               \/ ~KeyLive(keys[x.key], now) /\ row.hash # None /\ row.expires = now + Window
        PROVE  RowsKept
    <2> DEFINE m == MarkApplyStarted(row)
    <2>1. keys' = [keys EXCEPT ![x.key] = row] \/ keys' = [keys EXCEPT ![x.key] = m]
      BY <1>4 DEF PassGate
    <2>2. m.hash = row.hash /\ m.expires = row.expires /\ m.started
      BY DEF MarkApplyStarted, KeyRow
    <2> HIDE DEF m
    <2>3. CASE keys' = [keys EXCEPT ![x.key] = row]
      BY <1>3, <1>4, <2>3
    <2>4. CASE keys' = [keys EXCEPT ![x.key] = m]
      BY <1>3, <1>4, <2>2, <2>4
    <2> QED BY <2>1, <2>3, <2>4
  <1>5. ASSUME NEW p \in Plans, NEW h \in Hashes, NEW a \in Actors, PlanChange(p, h, a)
        PROVE  RowsKept /\ PlansNew
    <2> DEFINE row == CheckAndRecord(keys[OwnKey[p]], h, now)
    <2>1. OwnKey[p] \in Keys /\ now \in Nat
      BY DEF ChangeAssumption, TypeOK
    <2>2. ~KeyLive(keys[OwnKey[p]], now)
      BY <1>5 DEF PlanChange, CheckOutcome
    <2>3. row.hash = h /\ row.expires = now + Window /\ h # None
      BY <2>2 DEF CheckAndRecord, StoreAssumption
    <2>4. keys' = [keys EXCEPT ![OwnKey[p]] = row] /\ plans' = [plans EXCEPT ![p] = PutPlan(h, mod, now)]
      BY <1>5 DEF PlanChange
    <2> HIDE DEF row
    <2>5. RowsKept
      BY <1>3, <2>1, <2>2, <2>3, <2>4
    <2>6. keys'[OwnKey[p]] = row
      BY <2>1, <2>4 DEF TypeOK
    <2>7. \A q \in Plans : q # p => plans'[q] = plans[q]
      BY <2>4 DEF TypeOK
    <2>8. plans'[p].expires = now + PlanTTL
      BY <2>4 DEF TypeOK, PutPlan
    <2>9. now + PlanTTL <= now + Window
      BY <2>1 DEF StoreAssumption
    <2> QED BY <2>3, <2>5, <2>6, <2>7, <2>8, <2>9 DEF PlansNew
  <1>6. ASSUME NEW c \in Calls, NEW p \in Plans, NEW tok \in Plans, NEW k \in Keys, NEW a \in Actors,
               NEW ok \in BOOLEAN, Apply(c, p, tok, k, a, ok)
        PROVE  RowsKept /\ PlansNew
    <2> DEFINE x == NewCall(p, tok, k, a, ok)
               v == EntryVerdict(p, tok, a, keys[k])
               row == CheckAndRecord(keys[k], plans[p].hash, now)
    <2>1. v = None => /\ row \in KeyRow(Calls)
                      /\ \/ row = keys[k]
                         \/ ~KeyLive(keys[k], now) /\ row.hash # None /\ row.expires = now + Window
      <3>1. v = None => plans[p].state # "absent" /\ row \in KeyRow(Calls)
        BY Entered
      <3>2. plans[p].state # "absent" => plans[p].hash \in Hashes
        BY DEF IndInv, PlanInv
      <3>3. plans[p].hash \in Hashes =>
              \/ row = keys[k]
              \/ ~KeyLive(keys[k], now) /\ row.hash = plans[p].hash /\ row.expires = now + Window
        BY DEF CheckAndRecord
      <3> QED BY <3>1, <3>2, <3>3 DEF StoreAssumption
    <2>2. x.key = k
      BY DEF NewCall
    <2>3. \/ keys' = keys
          \/ v = None /\ keys' = [keys EXCEPT ![k] = row]
          \/ v = None /\ PassGate(c, x, row)
      BY <1>6 DEF Apply
    <2>4. \A q \in Plans : plans'[q].state # "absent" => plans[q].state # "absent"
      <3>1. v = "PLAN_EXPIRED" => plans[p].state # "absent"
        BY DEF EntryVerdict
      <3>2. plans' = plans \/ (v = "PLAN_EXPIRED" /\ plans' = [plans EXCEPT ![p] = MarkPlanExpired(@)])
        BY <1>6 DEF Apply
      <3> HIDE DEF v
      <3> QED BY <3>1, <3>2 DEF TypeOK
    <2> HIDE DEF x, v, row
    <2>5. CASE v = None /\ keys' = [keys EXCEPT ![k] = row]
      BY <1>2, <1>3, <2>1, <2>4, <2>5
    <2>6. CASE v = None /\ PassGate(c, x, row)
      BY <1>2, <1>4, <2>1, <2>2, <2>4, <2>6
    <2> QED BY <1>1, <1>2, <2>3, <2>4, <2>5, <2>6
  <1>7. ASSUME NEW c \in Calls, Handler(c)
        PROVE  RowsKept /\ PlansNew
    <2>1. /\ c \in InFlight /\ calls[c] \in MadeCall
      BY <1>7 DEF InFlight, TypeOK, NoCall, Handler, ReadReturns, ReadFails, WriteUpstreamError,
                  WriteLocalCoherence, WriteOk
    <2>2. calls[c].key \in Keys /\ calls[c].plan \in Plans /\ plans[calls[c].plan].state # "absent"
      BY <2>1 DEF MadeCall, IndInv, InFlightInv
    <2>3. keys[calls[c].key] \in KeyRow(Calls)
      BY <2>2 DEF TypeOK
    <2>4. PlansNew
      <3>1. plans' = plans \/ plans' = [plans EXCEPT ![calls[c].plan] = MarkPlanConsumed(@)]
        BY <1>7 DEF Handler, ReadReturns, ReadFails, WriteUpstreamError, WriteLocalCoherence, WriteOk
      <3> QED BY <1>2, <2>2, <3>1 DEF TypeOK
    <2>5. CASE ReadReturns(c)
      BY <1>4, <2>2, <2>3, <2>4, <2>5 DEF ReadReturns
    <2>6. CASE ReadFails(c) \/ WriteLocalCoherence(c)
      BY <1>1, <2>4, <2>6 DEF ReadFails, WriteLocalCoherence
    <2>7. CASE WriteUpstreamError(c)
      <3> DEFINE row == ClearApplyStarted(keys[calls[c].key])
      <3>1. row.hash = keys[calls[c].key].hash /\ row.expires = keys[calls[c].key].expires
        BY <2>3 DEF ClearApplyStarted, KeyRow
      <3>2. c \in Writers
        BY <2>7 DEF WriteUpstreamError, Writers
      <3>3. calls'[c].out = "UPSTREAM_ERROR"
        BY <2>1, <2>7, AnswerShape DEF WriteUpstreamError, Answer, TypeOK
      <3>4. keys' = keys \/ keys' = [keys EXCEPT ![calls[c].key] = row]
        BY <2>7 DEF WriteUpstreamError
      <3> HIDE DEF row
      <3> QED BY <1>1, <1>3, <2>2, <2>4, <3>1, <3>2, <3>3, <3>4
    <2>8. ASSUME NEW done \in 0..3, WriteOk(c, done)
          PROVE  RowsKept
      <3> DEFINE row == SaveReceipt(keys[calls[c].key], c)
      <3>1. row.hash = keys[calls[c].key].hash /\ row.expires = keys[calls[c].key].expires
            /\ row.started = keys[calls[c].key].started
        BY <2>3 DEF SaveReceipt, KeyRow
      <3>2. keys' = keys \/ keys' = [keys EXCEPT ![calls[c].key] = row]
        BY <2>8 DEF WriteOk
      <3> HIDE DEF row
      <3> QED BY <1>1, <1>3, <2>2, <3>1, <3>2
    <2> QED BY <1>7, <2>4, <2>5, <2>6, <2>7, <2>8 DEF Handler
  <1>8. ASSUME UNCHANGED <<keys, plans>>
        PROVE  RowsKept /\ PlansNew
    BY <1>1, <1>2, <1>8
  <1>9. ASSUME NEW c \in Calls, Snow(c)
        PROVE  UNCHANGED <<keys, plans>>
    BY <1>9 DEF Snow, SnowRead, SnowApplies, SnowRejects
  <1>10. ASSUME ForeignUpdate \/ Tick \/ Crash \/ UNCHANGED vars
         PROVE  UNCHANGED <<keys, plans>>
    BY <1>10 DEF ForeignUpdate, Tick, Crash, vars
  <1> QED BY <1>5, <1>6, <1>7, <1>8, <1>9, <1>10 DEF Next

\* Every step of an Incident write is calm, a tick, or sends a PATCH.
LEMMA StepCalm ==
  ASSUME TypeOK, IndInv, IsIncident, [Next]_vars
  PROVE  Calm \/ Tick \/ \E c \in Calls : Sends(c)
  <1>1. ASSUME now' = now, calls' = calls, \A c \in Calls : wire'[c] = "none" <=> wire[c] = "none"
        PROVE  Calm
    BY <1>1 DEF Calm, Writers, InFlight
  <1>2. ASSUME now' = now, wire' = wire, NEW c \in Calls, NEW y, calls' = [calls EXCEPT ![c] = y],
               y.pc # "writing",
               y.pc \in {"reading", "readback"} => c \in InFlight \/ plans[y.plan].expires > now
        PROVE  Calm
    <2>1. calls'[c] = y /\ \A d \in Calls : d # c => calls'[d] = calls[d]
      BY <1>2 DEF TypeOK
    <2> QED BY <1>2, <2>1 DEF Calm, Writers, InFlight
  <1>3. ASSUME NEW c \in Calls, NEW p \in Plans, NEW tok \in Plans, NEW k \in Keys, NEW a \in Actors,
               NEW ok \in BOOLEAN, Apply(c, p, tok, k, a, ok)
        PROVE  Calm
    <2> DEFINE x == NewCall(p, tok, k, a, ok)
               v == EntryVerdict(p, tok, a, keys[k])
    <2>1. x \in MadeCall /\ x.plan = p /\ x.pc = "reading"
      BY DEF NewCall, MadeCall
    <2>2. \A code : Done(x, code).pc = "done"
      BY <2>1, AnswerShape
    <2>3. v = None => plans[p].expires > now
      BY DEF EntryVerdict, PlanExpired, TypeOK, PlanRow, ChangeAssumption, Codes
    <2>4. /\ now' = now /\ wire' = wire
          /\ \/ calls' = [calls EXCEPT ![c] = Done(x, v)]
             \/ calls' = [calls EXCEPT ![c] = Done(x, "FIELD_REJECTED")]
             \/ v = None /\ calls' = [calls EXCEPT ![c] = x]
      BY <1>3 DEF Apply, IsIncident, IsUpdate
    <2> HIDE DEF x, v
    <2>5. CASE calls' = [calls EXCEPT ![c] = x] /\ v = None
      BY <1>2, <2>1, <2>3, <2>4, <2>5
    <2>6. ASSUME NEW code, calls' = [calls EXCEPT ![c] = Done(x, code)] PROVE Calm
      <3> DEFINE y == Done(x, code)
      <3>1. y.pc = "done"
        BY <2>2
      <3>2. calls' = [calls EXCEPT ![c] = y]
        BY <2>6
      <3> HIDE DEF y
      <3> QED BY <1>2, <2>4, <3>1, <3>2
    <2> QED BY <2>4, <2>5, <2>6
  <1>4. ASSUME NEW c \in Calls, Handler(c)
        PROVE  Calm \/ Sends(c)
    <2>1. /\ calls[c] \in MadeCall
      BY <1>4 DEF InFlight, TypeOK, NoCall, Handler, ReadReturns, ReadFails, WriteUpstreamError,
                  WriteLocalCoherence, WriteOk
    <2>2. now' = now
      BY <1>4 DEF Handler, ReadReturns, ReadFails, WriteUpstreamError, WriteLocalCoherence, WriteOk
    <2>3. ASSUME NEW code, wire' = wire, calls' = [calls EXCEPT ![c] = Done(calls[c], code)]
          PROVE  Calm
      <3> DEFINE y == Done(calls[c], code)
      <3>1. y.pc = "done"
        BY <2>1, AnswerShape
      <3>2. calls' = [calls EXCEPT ![c] = y]
        BY <2>3
      <3> HIDE DEF y
      <3> QED BY <1>2, <2>2, <2>3, <3>1, <3>2
    <2>4. CASE ReadReturns(c)
      <3> DEFINE x == calls[c]
                 v == GateVerdict(x.plan, x.token, x.actor, x.tokenOk, x.seen, keys[x.key])
      <3>1. calls[c].pc = "readback" /\ PassGate(c, calls[c], keys[calls[c].key])
        BY <2>4 DEF ReadReturns
      <3>2. CASE v # None
        <4>1. calls' = [calls EXCEPT ![c] = Done(calls[c], v)] /\ wire' = wire
          BY <3>1, <3>2 DEF PassGate
        <4> HIDE DEF v
        <4> QED BY <2>3, <4>1
      <3>3. CASE v = None
        <4>1. /\ calls' = [calls EXCEPT ![c] = [calls[c] EXCEPT !.pc = "writing"]]
              /\ keys' = [keys EXCEPT ![calls[c].key] = MarkApplyStarted(keys[calls[c].key])]
              /\ wire' = [wire EXCEPT ![c] = "posted"]
          BY <3>1, <3>3 DEF PassGate
        <4>2. CanClaim(keys[calls[c].key])
          BY <3>3 DEF GateVerdict, Codes, ChangeAssumption
        <4> QED BY <2>2, <3>1, <4>1, <4>2 DEF Sends
      <3> QED BY <3>2, <3>3
    <2>5. CASE ~ReadReturns(c)
      <3>1. wire' = wire /\ \E code : calls' = [calls EXCEPT ![c] = Done(calls[c], code)]
        BY <1>4, <2>5 DEF Handler, ReadFails, WriteUpstreamError, WriteLocalCoherence, WriteOk, Answer
      <3> QED BY <2>3, <3>1
    <2> QED BY <2>4, <2>5
  <1>5. ASSUME NEW c \in Calls, Snow(c)
        PROVE  Calm
    <2>1. CASE SnowRead(c)
      <3>1. calls[c] \in MadeCall /\ calls[c].pc = "reading"
        BY <2>1 DEF TypeOK, NoCall, SnowRead
      <3>2. PICK s \in {mod, None} : calls' = [calls EXCEPT ![c].pc = "readback", ![c].seen = s]
        BY <2>1 DEF SnowRead
      <3> DEFINE y == [calls[c] EXCEPT !.pc = "readback", !.seen = s]
      <3>3. y.pc = "readback" /\ calls' = [calls EXCEPT ![c] = y]
        BY <3>1, <3>2 DEF MadeCall, TypeOK
      <3>4. c \in InFlight
        BY <3>1 DEF InFlight
      <3> HIDE DEF y
      <3> QED BY <1>2, <2>1, <3>3, <3>4 DEF SnowRead
    <2>2. CASE SnowApplies(c) \/ SnowRejects(c)
      <3>1. now' = now /\ calls' = calls
        BY <2>2 DEF SnowApplies, SnowRejects
      <3>2. \A d \in Calls : wire'[d] = "none" <=> wire[d] = "none"
        BY <2>2 DEF SnowApplies, SnowRejects, TypeOK
      <3> QED BY <1>1, <3>1, <3>2
    <2> QED BY <1>5, <2>1, <2>2 DEF Snow
  <1>6. CASE Crash
    <2>1. \A d \in Calls : /\ d \in InFlight => calls'[d].pc = "dropped"
                           /\ d \notin InFlight => calls'[d] = calls[d]
      <3>1. \A d \in InFlight : calls[d] \in MadeCall
        BY DEF InFlight, TypeOK, NoCall
      <3> QED BY <1>6, <3>1 DEF Crash, MadeCall
    <2>2. now' = now /\ wire' = wire
      BY <1>6 DEF Crash
    <2> QED BY <2>1, <2>2 DEF Calm, InFlight, Writers
  <1>7. ASSUME UNCHANGED <<now, calls, wire>> PROVE Calm
    BY <1>1, <1>7
  <1>8. ASSUME NEW p \in Plans, NEW h \in Hashes, NEW a \in Actors, PlanChange(p, h, a)
        PROVE  Calm
    BY <1>7, <1>8 DEF PlanChange
  <1>9. CASE ForeignUpdate \/ UNCHANGED vars
    BY <1>7, <1>9 DEF ForeignUpdate, vars
  <1> QED BY <1>3, <1>4, <1>5, <1>6, <1>8, <1>9 DEF Next

\* What a call that counts has been through.
LEMMA CountsMade ==
  ASSUME TypeOK, IndInv, NEW c \in Calls, wire[c] # "none"
  PROVE  /\ calls[c].pc # "idle" /\ calls[c].plan \in Plans /\ calls[c].key \in Keys
         /\ plans[calls[c].plan].state # "absent"
  BY DEF IndInv, WireInv, TypeOK, MadeCall, NoCall

\* A calm step keeps claims and what is over.
LEMMA CalmKeeps ==
  ASSUME TypeOK, IndInv, MarkInv, OnceInv, CallsKept, PlansKept, RowsKept, Calm
  PROVE  MarkInv' /\ OnceInv'
  <1>1. ASSUME NEW c \in Calls, Counts(c)'
        PROVE  /\ Counts(c) /\ calls'[c].plan = calls[c].plan /\ calls'[c].key = calls[c].key
               /\ plans'[calls[c].plan].expires = plans[calls[c].plan].expires
    <2>1. wire[c] # "none"
      BY <1>1 DEF Counts, Calm
    <2>2. /\ calls[c].pc # "idle" /\ calls[c].plan \in Plans
          /\ plans[calls[c].plan].state # "absent"
      BY <2>1, CountsMade
    <2>3. "UPSTREAM_ERROR" # None
      BY DEF ChangeAssumption, Codes
    <2> QED BY <1>1, <2>1, <2>2, <2>3 DEF Counts, CallsKept, PlansKept
  <1>2. \A e \in InFlight : calls[e].pc # "idle" /\ calls'[e].plan = calls[e].plan /\ calls'[e].key = calls[e].key
    BY DEF InFlight, CallsKept
  <1>3. ASSUME NEW c \in Calls, Counts(c)', Marked(c)
        PROVE  Marked(c)'
    <2> DEFINE k == calls[c].key
    <2>1. k \in Keys /\ calls'[c].key = k /\ calls'[c].out # "UPSTREAM_ERROR"
      BY <1>1, <1>3, CountsMade DEF Counts
    <2>2. \A w \in Writers : calls[w].key = k => w = c
      BY <1>3 DEF Marked
    <2>3. keys'[k].hash = keys[k].hash /\ keys'[k].expires = keys[k].expires /\ keys'[k].started
      BY <1>3, <2>1, <2>2 DEF Marked, RowsKept
    <2>4. KeyLive(keys'[k], now')
      BY <1>3, <2>3 DEF Marked, KeyLive, Calm
    <2>5. Writers' \subseteq Writers /\ Writers \subseteq InFlight
      BY DEF Calm, Writers, InFlight
    <2>6. \A e \in Writers' : calls'[e].key = calls[e].key
      BY <1>2, <2>5
    <2> QED BY <2>1, <2>2, <2>3, <2>4, <2>5, <2>6 DEF Marked
  <1>4. ASSUME NEW c \in Calls, Counts(c)', Over(c)
        PROVE  Over(c)'
    <2>1. plans'[calls'[c].plan].expires <= now'
      BY <1>1, <1>4 DEF Over, Calm
    <2>2. ASSUME NEW e \in InFlight', Same(e, c)' PROVE FALSE
      <3>1. e \in Calls /\ calls'[e].plan = calls[c].plan /\ calls'[e].key = calls[c].key
        BY <1>1, <1>4, <2>2 DEF Same, InFlight
      <3>2. CASE e \in InFlight
        BY <1>2, <1>4, <3>1, <3>2 DEF Over, Same
      <3>3. CASE plans[calls'[e].plan].expires > now
        <4>1. plans[calls[c].plan].expires <= now
          BY <1>4 DEF Over
        <4>2. calls[c].plan \in Plans
          BY <1>1, <1>4, CountsMade DEF Counts
        <4>3. plans[calls[c].plan].expires \in Nat /\ now \in Nat
          BY <4>2 DEF TypeOK, PlanRow
        <4> QED BY <3>1, <3>3, <4>1, <4>3
      <3> QED BY <2>2, <3>1, <3>2, <3>3 DEF Calm
    <2> QED BY <2>1, <2>2 DEF Over
  <1>5. MarkInv'
    BY <1>1, <1>3, <1>4 DEF MarkInv
  <1>6. OnceInv'
    <2> SUFFICES ASSUME NEW c \in Calls, NEW d \in Calls, Counts(c)', Counts(d)', Same(c, d)'
                 PROVE  c = d
      BY DEF OnceInv
    <2>1. Counts(c) /\ Counts(d) /\ Same(c, d)
      BY <1>1 DEF Same
    <2> QED BY <2>1 DEF OnceInv
  <1> QED BY <1>5, <1>6

\* When the clock ends a reservation its plan has ended too, and no call is under way on it.
LEMMA TickKeeps ==
  ASSUME TypeOK, IndInv, MarkInv, OnceInv, KeyInv, FlightsFit, Tick
  PROVE  MarkInv' /\ OnceInv'
  <1>1. now \in Nat /\ now' = now + 1 /\ UNCHANGED <<plans, keys, calls, wire>>
    BY DEF Tick, TypeOK
  <1>2. InFlight' = InFlight /\ Writers' = Writers
    BY <1>1 DEF InFlight, Writers
  <1>3. ASSUME NEW c \in Calls, Counts(c)
        PROVE  Marked(c)' \/ Over(c)'
    <2> DEFINE k == calls[c].key
               p == calls[c].plan
    <2>1. k \in Keys /\ p \in Plans /\ plans[p].state # "absent" /\ k = OwnKey[p]
      BY <1>3, CountsMade DEF Counts
    <2>2. keys[k].expires \in Nat /\ plans[p].expires \in Nat
      BY <2>1 DEF TypeOK, KeyRow, PlanRow
    <2>3. plans[p].expires <= keys[k].expires
      BY <2>1 DEF KeyInv
    <2>4. CASE Over(c)
      BY <1>1, <1>2, <2>2, <2>4 DEF Over, Same
    <2>5. CASE Marked(c) /\ keys[k].expires > now'
      BY <1>1, <1>2, <2>5 DEF Marked, KeyLive
    <2>6. CASE keys[k].expires <= now'
      <3>1. plans[p].expires <= now'
        BY <1>1, <2>2, <2>3, <2>6
      <3>2. \A e \in InFlight : ~Same(e, c)
        BY <1>1, <2>2, <2>6 DEF Tick, Same
      <3> QED BY <1>1, <1>2, <3>1, <3>2 DEF Over, Same
    <2> QED BY <1>1, <1>3, <2>2, <2>4, <2>5, <2>6 DEF MarkInv
  <1>4. MarkInv'
    BY <1>1, <1>3 DEF MarkInv, Counts
  <1>5. OnceInv'
    BY <1>1 DEF OnceInv, Counts, Same
  <1> QED BY <1>4, <1>5

\* A call that claims its reservation finds it unmarked, so nobody who counts holds it; and it
\* is under way, so its plan is not over for anybody.
LEMMA SendKeeps ==
  ASSUME TypeOK, IndInv, IsIncident, MarkInv, OnceInv, CallsKept, PlansKept, NEW w \in Calls, Sends(w)
  PROVE  MarkInv' /\ OnceInv'
  <1>1. w \in InFlight /\ calls[w] \in MadeCall
    BY DEF Sends, InFlight, TypeOK, NoCall
  <1> DEFINE j == calls[w].key
  <1>2. j \in Keys /\ ~keys[j].started
    BY <1>1 DEF MadeCall, Sends, CanClaim
  <1>3. /\ \A d \in Calls : d # w => calls'[d] = calls[d] /\ wire'[d] = wire[d]
        /\ calls'[w].pc = "writing" /\ calls'[w].plan = calls[w].plan /\ calls'[w].key = j
        /\ calls'[w].out = calls[w].out
    BY <1>1 DEF Sends, TypeOK, MadeCall
  <1>4. /\ keys'[j] = MarkApplyStarted(keys[j]) /\ now' = now
        /\ \A k \in Keys : k # j => keys'[k] = keys[k]
    BY <1>2 DEF Sends, TypeOK
  <1>5. keys[j] \in KeyRow(Calls)
    BY <1>2 DEF TypeOK
  <1>6. keys'[j].hash = keys[j].hash /\ keys'[j].expires = keys[j].expires /\ keys'[j].started
    BY <1>4, <1>5 DEF MarkApplyStarted, KeyRow
  <1>7. InFlight' = InFlight /\ Writers' = Writers \cup {w}
    BY <1>1, <1>3 DEF InFlight, Writers
  <1>8. \A e \in Writers : calls[e].key # j
    BY <1>2 DEF IndInv, ClaimInv
  <1>9. \A c \in Calls : calls'[c].key = calls[c].key /\ calls'[c].plan = calls[c].plan
    BY <1>3
  <1>10. ASSUME NEW c \in Calls, c # w, Counts(c)'
         PROVE  /\ Counts(c)
                /\ ~Same(w, c)
                /\ Marked(c)' \/ Over(c)'
    <2>1. Counts(c)
      BY <1>3, <1>10 DEF Counts
    <2>2. /\ calls[c].key \in Keys /\ calls[c].plan \in Plans
          /\ plans[calls[c].plan].state # "absent"
      BY <2>1, CountsMade DEF Counts
    <2>3. CASE Marked(c)
      <3>1. calls[c].key # j
        BY <1>2, <2>3 DEF Marked
      <3>2. \A e \in Writers' : calls'[e].key = calls[c].key => e = c
        BY <1>3, <1>7, <1>9, <2>3, <3>1 DEF Marked, Writers
      <3> QED BY <1>3, <1>4, <1>10, <2>1, <2>2, <2>3, <3>1, <3>2 DEF Marked, Same
    <2>4. CASE Over(c)
      <3>1. ~Same(w, c)
        BY <1>1, <2>4 DEF Over
      <3>2. plans'[calls'[c].plan].expires <= now'
        BY <1>4, <1>9, <2>2, <2>4 DEF Over, PlansKept
      <3>3. \A e \in InFlight' : ~Same(e, c)'
        BY <1>7, <1>9, <2>4 DEF Over, Same, InFlight
      <3> QED BY <2>1, <3>1, <3>2, <3>3 DEF Over
    <2> QED BY <2>1, <2>3, <2>4 DEF MarkInv
  <1>11. Marked(w)'
    <2>1. KeyLive(keys'[j], now')
      BY <1>1, <1>4, <1>6 DEF IndInv, InFlightInv, KeyLive
    <2>2. \A e \in Writers' : calls'[e].key = j => e = w
      BY <1>7, <1>8, <1>9 DEF Writers
    <2> QED BY <1>3, <1>6, <2>1, <2>2 DEF Marked
  <1>12. MarkInv'
    BY <1>10, <1>11 DEF MarkInv
  <1>13. OnceInv'
    <2> SUFFICES ASSUME NEW c \in Calls, NEW d \in Calls, Counts(c)', Counts(d)', Same(c, d)'
                 PROVE  c = d
      BY DEF OnceInv
    <2>1. Same(c, d) /\ Same(d, c)
      BY <1>9 DEF Same
    <2> QED BY <1>10, <2>1 DEF OnceInv
  <1> QED BY <1>12, <1>13

\* Reservations outlast their plans: one is renewed only once it has expired.
LEMMA KeysKeep ==
  ASSUME TypeOK, KeyInv, PlansKept, RowsKept, PlansNew
  PROVE  KeyInv'
  <1> SUFFICES ASSUME NEW p \in Plans, plans'[p].state # "absent"
               PROVE  keys'[OwnKey[p]].hash # None /\ plans'[p].expires <= keys'[OwnKey[p]].expires
    BY DEF KeyInv
  <1>1. CASE plans[p].state = "absent"
    BY <1>1 DEF PlansNew
  <1>2. CASE plans[p].state # "absent"
    <2>1. OwnKey[p] \in Keys
      BY DEF ChangeAssumption
    <2>2. /\ keys[OwnKey[p]].hash # None /\ plans[p].expires <= keys[OwnKey[p]].expires
          /\ plans'[p].expires = plans[p].expires
      BY <1>2 DEF KeyInv, PlansKept
    <2>3. plans[p].expires \in Nat /\ keys[OwnKey[p]].expires \in Nat /\ now \in Nat /\ Window \in Nat
      BY <2>1 DEF TypeOK, PlanRow, KeyRow, StoreAssumption
    <2>4. ~KeyLive(keys[OwnKey[p]], now) => keys[OwnKey[p]].expires <= now
      BY <2>2, <2>3 DEF KeyLive
    <2> QED BY <2>1, <2>2, <2>3, <2>4 DEF RowsKept
  <1> QED BY <1>1, <1>2

\* Under the key minted with it, an Incident plan's PATCH takes effect once, save for callers
\* told UPSTREAM_ERROR: however many calls retry, overlap, fail locally or die with the daemon.
THEOREM OneEffect ==
  ASSUME FlightsFit, Window > 0
  PROVE  Spec => []AppliedOnce
  <1>1. CASE IsIncident /\ PlanTTL <= Window
    <2> DEFINE Inv == DoneInv /\ KeyInv /\ MarkInv /\ OnceInv
    <2>1. Init => Inv
      BY DEF Init, DoneInv, KeyInv, MarkInv, OnceInv, Counts, NoCall, NoPlanRow
    <2>2. TypeOK /\ IndInv /\ Inv /\ [Next]_vars => Inv'
      <3> SUFFICES ASSUME TypeOK, IndInv, Inv, [Next]_vars PROVE Inv'
        OBVIOUS
      <3>1. CallsKept /\ PlansKept /\ RowsKept /\ PlansNew
        BY <1>1, StepKept, StepRows
      <3>2. DoneInv' /\ KeyInv'
        BY <3>1, KeysKeep DEF CallsKept, DoneInv
      <3>3. Calm \/ Tick \/ \E c \in Calls : Sends(c)
        BY <1>1, StepCalm
      <3>4. MarkInv' /\ OnceInv'
        BY <1>1, <3>1, <3>3, CalmKeeps, TickKeeps, SendKeeps
      <3> QED BY <3>2, <3>4
    <2>3. Inv => AppliedOnce
      BY DEF OnceInv, Counts, AppliedOnce, Same
    <2> HIDE DEF Inv
    <2> QED BY <2>1, <2>2, <2>3, TypeCorrect, IndCorrect, PTL DEF Spec
  <1>2. CASE ~(IsIncident /\ PlanTTL <= Window)
    <2>1. AppliedOnce
      BY <1>2 DEF AppliedOnce
    <2> QED BY <2>1, PTL
  <1> QED BY <1>1, <1>2

-----------------------------------------------------------------------------
(* ChangeWrite implements GovernedWrite.  Every step of a handler, of         *)
(* ServiceNow, of the clock or of a crash is one step of GovernedWrite, or    *)
(* none, under the mapping of ChangeWrite; the argument needs IndInv and two  *)
(* facts about the stores.                                                    *)

\* A confirmation is issued for a stored plan only, and a call that waits for its
\* write has sent one.
ConfInv == \A p \in Plans : plans[p].state = "absent" => confs[p] = NoConfRow
SentInv == \A c \in Writers : wire[c] # "none"
RefInv == ConfInv /\ SentInv

-----------------------------------------------------------------------------
(* The two facts. *)

\* Confirmations come with their plan, and only an issued one is consumed.
LEMMA StepConf ==
  ASSUME TypeOK, ConfInv, [Next]_vars
  PROVE  ConfInv'
  <1>1. ASSUME NEW p \in Plans, NEW h \in Hashes, NEW a \in Actors, PlanChange(p, h, a)
        PROVE  ConfInv'
    BY <1>1 DEF PlanChange, PutPlan, TypeOK, ConfInv
  <1>2. ASSUME NEW c \in Calls, NEW p \in Plans, NEW tok \in Plans, NEW k \in Keys, NEW a \in Actors,
               NEW ok \in BOOLEAN, Apply(c, p, tok, k, a, ok)
        PROVE  ConfInv'
    <2>1. confs' = confs /\ \A q \in Plans : plans'[q].state = "absent" => plans[q].state = "absent"
      BY <1>2 DEF Apply, MarkPlanExpired, TypeOK, PlanRow
    <2> QED BY <2>1 DEF ConfInv
  <1>3. ASSUME NEW c \in Calls, NEW done \in 0 .. 3, WriteOk(c, done)
        PROVE  ConfInv'
    <2>1. \A q \in Plans : plans'[q].state = "absent" => plans[q].state = "absent"
      BY <1>3 DEF WriteOk, MarkPlanConsumed, TypeOK, PlanRow
    <2>2. CASE confs' = confs
      BY <2>1, <2>2 DEF ConfInv
    <2>3. CASE confs' # confs
      <3>1. /\ ConsumeVerdict(confs[calls[c].token], calls[c].actor, HashOf(c), now) = "ok"
            /\ confs' = [confs EXCEPT ![calls[c].token] = ConsumeRow(@)]
        BY <1>3, <2>3 DEF WriteOk
      <3>2. confs[calls[c].token].hash # None
        BY <3>1 DEF ConsumeVerdict, BindingVerdict
      <3>3. ASSUME NEW q \in Plans, plans'[q].state = "absent"
            PROVE  confs'[q] = NoConfRow
        <4>1. confs[q] = NoConfRow
          BY <2>1, <3>3 DEF ConfInv
        <4>2. q # calls[c].token
          BY <3>2, <4>1 DEF NoConfRow
        <4> QED BY <3>1, <4>1, <4>2 DEF TypeOK
      <3> QED BY <3>3 DEF ConfInv
    <2> QED BY <2>2, <2>3
  <1>4. ASSUME UNCHANGED <<plans, confs>>
        PROVE  ConfInv'
    BY <1>4 DEF ConfInv
  <1>5. ASSUME NEW c \in Calls, Handler(c) \/ Snow(c)
        PROVE  (\E done \in 0 .. 3 : WriteOk(c, done)) \/ UNCHANGED <<plans, confs>>
    BY <1>5 DEF Handler, Snow, ReadReturns, ReadFails, WriteUpstreamError, WriteLocalCoherence,
                SnowRead, SnowApplies, SnowRejects
  <1>6. ASSUME ForeignUpdate \/ Tick \/ Crash \/ UNCHANGED vars
        PROVE  UNCHANGED <<plans, confs>>
    BY <1>6 DEF ForeignUpdate, Tick, Crash, vars
  <1> QED BY <1>1, <1>2, <1>3, <1>4, <1>5, <1>6 DEF Next

\* Only the gate makes a call wait for its write, in the step that sends it.
LEMMA StepSent ==
  ASSUME TypeOK, SentInv, [Next]_vars
  PROVE  SentInv'
  <1>1. ASSUME NEW c \in Calls, NEW x \in MadeCall, NEW row, PassGate(c, x, row)
        PROVE  SentInv'
    <2>1. \A d \in Calls : d # c => calls'[d] = calls[d] /\ wire'[d] = wire[d]
      BY <1>1 DEF PassGate, TypeOK
    <2>2. calls'[c].pc = "writing" => wire'[c] = "posted"
      <3>1. \A code : Done(x, code).pc = "done"
        BY DEF Done, MadeCall
      <3> QED BY <1>1, <3>1 DEF PassGate, TypeOK
    <2> QED BY <2>1, <2>2 DEF SentInv, Writers
  <1>2. ASSUME wire' = wire, \A c \in Calls : calls'[c].pc = "writing" => calls[c].pc = "writing"
        PROVE  SentInv'
    BY <1>2 DEF SentInv, Writers
  <1>3. ASSUME NEW c \in Calls, NEW p \in Plans, NEW tok \in Plans, NEW k \in Keys, NEW a \in Actors,
               NEW ok \in BOOLEAN, Apply(c, p, tok, k, a, ok)
        PROVE  SentInv'
    <2> DEFINE x == NewCall(p, tok, k, a, ok)
    <2>0. x \in MadeCall /\ \A code : Done(x, code).pc = "done"
      BY DEF NewCall, MadeCall, Done
    <2>1. CASE PassGate(c, x, CheckAndRecord(keys[k], plans[p].hash, now))
      BY <1>1, <2>0, <2>1
    <2>2. CASE wire' = wire /\ \E y \in {Done(x, EntryVerdict(p, tok, a, keys[k])),
                                        Done(x, "FIELD_REJECTED"), x} :
                                 calls' = [calls EXCEPT ![c] = y]
      <3>1. PICK y \in {Done(x, EntryVerdict(p, tok, a, keys[k])), Done(x, "FIELD_REJECTED"), x} :
                   calls' = [calls EXCEPT ![c] = y]
        BY <2>2
      <3>2. y.pc # "writing"
        <4>1. x.pc = "reading"
          BY DEF NewCall
        <4> QED BY <2>0, <4>1
      <3>3. \A d \in Calls : calls'[d].pc = "writing" => calls[d].pc = "writing"
        BY <3>1, <3>2 DEF TypeOK
      <3> QED BY <1>2, <2>2, <3>3
    <2> QED BY <1>3, <2>1, <2>2 DEF Apply
  <1>4. ASSUME NEW c \in Calls, Handler(c)
        PROVE  SentInv'
    <2>1. CASE ReadReturns(c)
      <3>1. calls[c] \in MadeCall
        BY <2>1 DEF ReadReturns, TypeOK, NoCall
      <3> QED BY <1>1, <2>1, <3>1 DEF ReadReturns
    <2>2. CASE wire' = wire /\ \E code : calls' = Answer(c, code)
      <3>1. \A d \in Calls : calls'[d].pc = "writing" => calls[d].pc = "writing"
        <4>1. PICK code : calls' = Answer(c, code)
          BY <2>2
        <4>2. calls[c] \in {NoCall} \cup MadeCall
          BY DEF TypeOK
        <4>3. Done(calls[c], code).pc = "done"
          BY <4>2 DEF Done, NoCall, MadeCall
        <4>4. calls' = [calls EXCEPT ![c] = Done(calls[c], code)]
          BY <4>1 DEF Answer
        <4> QED BY <4>3, <4>4 DEF TypeOK
      <3> QED BY <1>2, <2>2, <3>1
    <2> QED BY <1>4, <2>1, <2>2 DEF Handler, ReadFails, WriteUpstreamError, WriteLocalCoherence, WriteOk
  <1>5. ASSUME NEW c \in Calls, Snow(c)
        PROVE  SentInv'
    <2>1. CASE SnowRead(c)
      <3>1. wire' = wire /\ \A d \in Calls : calls'[d].pc = "writing" => calls[d].pc = "writing"
        BY <2>1 DEF SnowRead, TypeOK, NoCall, MadeCall
      <3> QED BY <1>2, <3>1
    <2>2. CASE SnowApplies(c) \/ SnowRejects(c)
      BY <2>2 DEF SnowApplies, SnowRejects, SentInv, Writers, TypeOK
    <2> QED BY <1>5, <2>1, <2>2 DEF Snow
  <1>6. CASE Crash
    BY <1>2, <1>6 DEF Crash
  <1>7. CASE UNCHANGED <<calls, wire>>
    BY <1>2, <1>7
  <1> QED BY <1>3, <1>4, <1>5, <1>6, <1>7 DEF Next, vars, PlanChange, ForeignUpdate, Tick

\* The two facts hold in every state.
LEMMA RefCorrect == Spec => []RefInv
  <1>1. Init => RefInv
    BY DEF Init, RefInv, ConfInv, SentInv, Writers, NoCall
  <1>2. TypeOK /\ RefInv /\ [Next]_vars => RefInv'
    BY StepConf, StepSent DEF RefInv
  <1> QED BY <1>1, <1>2, TypeCorrect, PTL DEF Spec
-----------------------------------------------------------------------------
(* The abstract state. *)

\* The abstract initial state.
LEMMA InitRefines == Init => G!Init
  <1> SUFFICES ASSUME Init PROVE G!Init
    OBVIOUS
  <1>1. AbstractCalls = [c \in Calls |-> G!At("waiting")]
    BY DEF Init, AbstractCalls, AbstractCall, NoCall, G!At
  <1>2. AbstractLedger = [k \in Keys |-> None]
    BY DEF Init, AbstractLedger, NoKeyRow, KeyLive
  <1>3. AbstractSpent = {}
    BY DEF Init, AbstractSpent, NoConfRow
  <1>4. wire = [c \in Calls |-> "none"]
    BY DEF Init
  <1> QED BY <1>1, <1>2, <1>3, <1>4 DEF G!Init

\* A step that touches one call moves only that call of the abstract state.
LEMMA OneMoves ==
  ASSUME NEW c \in Calls,
         \A d \in Calls : d # c => calls'[d] = calls[d] /\ (wire'[d] = "none" <=> wire[d] = "none")
  PROVE  AbstractCalls' = [AbstractCalls EXCEPT ![c] = AbstractCalls'[c]]
  <1>1. \A d \in Calls : d # c => AbstractCalls'[d] = AbstractCalls[d]
    BY DEF AbstractCalls, AbstractCall
  <1>2. AbstractCalls = [d \in Calls |-> AbstractCalls[d]] /\ AbstractCalls' = [d \in Calls |-> AbstractCalls'[d]]
    BY DEF AbstractCalls
  <1> QED BY <1>1, <1>2

\* Where a call is: before its write it waits, and its write is not on the wire.
LEMMA Waiting ==
  ASSUME IndInv, TypeOK, NEW c \in Calls, calls[c].pc \in {"idle", "reading", "readback"}
  PROVE  AbstractCalls[c].st = "waiting" /\ wire[c] = "none"
  <1>1. AbstractCalls[c].st = "waiting"
    BY DEF AbstractCalls, AbstractCall
  <1>2. wire[c] = "none"
    BY DEF IndInv, WireInv, TypeOK
  <1> QED BY <1>1, <1>2

\* During its write the abstract call has its key and its confirmation.
LEMMA InWrite ==
  ASSUME SentInv, NEW c \in Calls, calls[c].pc = "writing"
  PROVE  /\ AbstractCalls[c].st = "writing"
         /\ AbstractCalls[c].key = calls[c].key
         /\ AbstractCalls[c].token = calls[c].token
         /\ wire[c] # "none"
  BY DEF AbstractCalls, AbstractCall, SentInv, Writers

\* An answer ends the abstract call.
LEMMA Ended ==
  ASSUME TypeOK, NEW c \in Calls, NEW x \in MadeCall, NEW code,
         calls' = [calls EXCEPT ![c] = Done(x, code)], wire' = wire
  PROVE  AbstractCalls' = [AbstractCalls EXCEPT ![c] =
           G!At(IF code = "ok" THEN "done"
                ELSE IF code = "replay" THEN "replayed"
                ELSE IF wire[c] # "none" THEN "unsure" ELSE "refused")]
  <1>1. calls'[c].pc = "done" /\ calls'[c].out = code
    <2>1. Done(x, code).pc = "done" /\ Done(x, code).out = code
      BY DEF Done, MadeCall
    <2> QED BY <2>1 DEF TypeOK
  <1>2. \A d \in Calls : d # c => calls'[d] = calls[d]
    BY DEF TypeOK
  <1>3. AbstractCalls'[c] = G!At(IF code = "ok" THEN "done"
                                 ELSE IF code = "replay" THEN "replayed"
                                 ELSE IF wire[c] # "none" THEN "unsure" ELSE "refused")
    BY <1>1 DEF AbstractCalls, AbstractCall, G!At
  <1>4. AbstractCalls' = [AbstractCalls EXCEPT ![c] = AbstractCalls'[c]]
    BY <1>2, OneMoves
  <1> QED BY <1>3, <1>4

\* A row written in the place of another leaves the ledger alone when it reports
\* the same receipt, or both report none.
LEMMA SameLedger ==
  ASSUME TypeOK, now' = now, NEW k \in Keys, NEW row, keys' = [keys EXCEPT ![k] = row],
         \/ KeyLive(row, now) /\ KeyLive(keys[k], now) /\ row.receipt = keys[k].receipt
         \/ row.receipt = None /\ (KeyLive(keys[k], now) => keys[k].receipt = None)
  PROVE  AbstractLedger' = AbstractLedger
  <1>1. keys'[k] = row /\ \A j \in Keys : j # k => keys'[j] = keys[j]
    BY DEF TypeOK
  <1>2. ASSUME NEW j \in Keys
        PROVE  (IF KeyLive(keys'[j], now) THEN keys'[j].receipt ELSE None)
                 = (IF KeyLive(keys[j], now) THEN keys[j].receipt ELSE None)
    BY <1>1
  <1> QED BY <1>2 DEF AbstractLedger

\* check_and_record leaves the ledger alone.
LEMMA RecordLedger ==
  ASSUME TypeOK, now' = now, NEW k \in Keys, NEW h,
         keys' = [keys EXCEPT ![k] = CheckAndRecord(keys[k], h, now)]
  PROVE  AbstractLedger' = AbstractLedger
  <1> DEFINE row == CheckAndRecord(keys[k], h, now)
  <1>1. CASE KeyLive(keys[k], now)
    <2>1. keys' = keys
      BY <1>1 DEF CheckAndRecord, TypeOK
    <2> QED BY <2>1 DEF AbstractLedger
  <1>2. CASE ~KeyLive(keys[k], now)
    <2>1. row.receipt = None
      BY <1>2 DEF CheckAndRecord
    <2>2. keys' = [keys EXCEPT ![k] = row]
      OBVIOUS
    <2> HIDE DEF row
    <2> QED BY <1>2, <2>1, <2>2, SameLedger
  <1> QED BY <1>1, <1>2

-----------------------------------------------------------------------------
(* The steps. *)

\* The gate answers before the write, from the ledger, or sends the write: an Incident
\* call only where the ledger is empty and nobody else is writing.
LEMMA GateRefines ==
  ASSUME TypeOK, IndInv, NEW c \in Calls, NEW x \in MadeCall, NEW row \in KeyRow(Calls),
         calls[c].pc \in {"idle", "readback"}, KeyLive(row, now), Handed(x.key, row),
         PassGate(c, x, row), UNCHANGED <<now, confs>>
  PROVE  G!Next
  <1> DEFINE v == GateVerdict(x.plan, x.token, x.actor, x.tokenOk, x.seen, row)
             k == x.key
  <1>1. k \in Keys /\ x.token \in Plans
    BY DEF MadeCall
  <1>2. AbstractCalls[c].st = "waiting" /\ wire[c] = "none"
    BY Waiting
  <1>3. AbstractSpent' = AbstractSpent
    BY DEF AbstractSpent
  <1>4. row.receipt # None => KeyLive(keys[k], now) /\ row = keys[k]
    BY DEF Handed
  <1>5. KeyLive(keys[k], now) => row = keys[k]
    BY DEF Handed
  <1> HIDE DEF v, k
  <1>6. CASE v # None
    <2>1. calls' = [calls EXCEPT ![c] = Done(x, v)] /\ wire' = wire /\ keys' = [keys EXCEPT ![k] = row]
      BY <1>6 DEF PassGate, v, k
    <2>2. AbstractLedger' = AbstractLedger
      BY <1>1, <1>4, <1>5, <2>1, SameLedger
    <2>3. v # "ok"
      BY DEF v, GateVerdict, ChangeAssumption, Codes
    <2>4. AbstractCalls' = [AbstractCalls EXCEPT ![c] =
                              G!At(IF v = "replay" THEN "replayed" ELSE "refused")]
      BY <1>2, <2>1, <2>3, Ended
    <2>5. CASE v = "replay"
      <3>1. row.receipt # None
        BY <2>5 DEF v, GateVerdict, ChangeAssumption, Codes
      <3>2. AbstractLedger[k] # None
        BY <1>1, <1>4, <3>1 DEF AbstractLedger
      <3>3. G!Replay(c, k)
        BY <1>2, <1>3, <2>1, <2>2, <2>4, <2>5, <3>2 DEF G!Replay
      <3> QED BY <1>1, <3>3 DEF G!Next
    <2>6. CASE v # "replay"
      <3>1. G!Refuse(c)
        BY <1>2, <1>3, <2>1, <2>2, <2>4, <2>6 DEF G!Refuse
      <3> QED BY <3>1 DEF G!Next
    <2> QED BY <2>5, <2>6
  <1>7. CASE v = None
    <2> DEFINE y == [x EXCEPT !.pc = "writing"]
               marked == MarkApplyStarted(row)
    <2>1. calls' = [calls EXCEPT ![c] = y] /\ wire' = [wire EXCEPT ![c] = "posted"]
          /\ keys' = [keys EXCEPT ![k] = marked]
      BY <1>7 DEF PassGate, v, k
    <2>2. y.pc = "writing" /\ y.key = k /\ y.token = x.token
      BY DEF MadeCall, k
    <2>3. marked.receipt = row.receipt /\ KeyLive(marked, now)
      BY DEF MarkApplyStarted, KeyRow, KeyLive
    <2> HIDE DEF y, marked
    <2>4. AbstractLedger' = AbstractLedger
      BY <1>1, <1>4, <1>5, <2>1, <2>3, SameLedger
    <2>5. AbstractCalls' = [AbstractCalls EXCEPT ![c] = G!Writing(k, x.token)]
      <3>1. calls'[c] = y /\ \A d \in Calls : d # c => calls'[d] = calls[d] /\ wire'[d] = wire[d]
        BY <2>1 DEF TypeOK
      <3>2. AbstractCalls'[c] = G!Writing(k, x.token)
        BY <2>2, <3>1 DEF AbstractCalls, AbstractCall, G!Writing
      <3> QED BY <3>1, <3>2, OneMoves
    <2>6. IsIncident => AbstractLedger[k] = None /\ \A d \in Calls : AbstractCalls[d].key # k
      <3> SUFFICES ASSUME IsIncident
                   PROVE  AbstractLedger[k] = None /\ \A d \in Calls : AbstractCalls[d].key # k
        OBVIOUS
      <3>1. CanClaim(row)
        BY <1>7 DEF v, GateVerdict, ChangeAssumption, Codes
      <3>2. AbstractLedger[k] = None
        BY <1>1, <1>5, <3>1 DEF AbstractLedger, CanClaim
      <3>3. ASSUME NEW d \in Calls, AbstractCalls[d].key = k PROVE FALSE
        <4>1. d \in Writers /\ calls[d].key = k
          BY <1>1, <3>3 DEF AbstractCalls, AbstractCall, Writers, ChangeAssumption
        <4>2. keys[k].started /\ KeyLive(keys[k], now)
          BY <4>1 DEF IndInv, ClaimInv, InFlightInv, Writers, InFlight
        <4> QED BY <1>5, <3>1, <4>2 DEF CanClaim
      <3> QED BY <3>2, <3>3
    <2>7. G!Send(c, k, x.token)
      BY <1>2, <1>3, <2>1, <2>4, <2>5, <2>6 DEF G!Send
    <2> QED BY <1>1, <2>7 DEF G!Next
  <1> QED BY <1>6, <1>7

\* A new plan brings an unused confirmation, and its reservation no receipt.
LEMMA PlanRefines ==
  ASSUME TypeOK, ConfInv, NEW p \in Plans, NEW h \in Hashes, NEW a \in Actors, PlanChange(p, h, a)
  PROVE  UNCHANGED G!vars
  <1>1. AbstractCalls' = AbstractCalls
    BY DEF PlanChange, AbstractCalls, AbstractCall
  <1>2. AbstractLedger' = AbstractLedger
    <2>1. OwnKey[p] \in Keys
      BY DEF ChangeAssumption
    <2> QED BY <2>1, RecordLedger DEF PlanChange
  <1>3. AbstractSpent' = AbstractSpent
    <2>1. confs[p] = NoConfRow /\ confs' = [confs EXCEPT ![p] = IssueConfirmation(h, a, now)]
      BY DEF PlanChange, ConfInv
    <2>2. \A q \in Plans : confs'[q].consumed <=> confs[q].consumed
      BY <2>1 DEF NoConfRow, IssueConfirmation, TypeOK
    <2> QED BY <2>2 DEF AbstractSpent
  <1>4. wire' = wire
    BY DEF PlanChange
  <1> QED BY <1>1, <1>2, <1>3, <1>4 DEF G!vars

\* A call that arrives is answered at once, waits for its read, or passes the gate.
LEMMA ApplyRefines ==
  ASSUME TypeOK, IndInv, Window > 0, NEW c \in Calls, NEW p \in Plans, NEW tok \in Plans,
         NEW k \in Keys, NEW a \in Actors, NEW ok \in BOOLEAN, Apply(c, p, tok, k, a, ok)
  PROVE  G!Next \/ UNCHANGED G!vars
  <1> DEFINE x == NewCall(p, tok, k, a, ok)
             v == EntryVerdict(p, tok, a, keys[k])
             row == CheckAndRecord(keys[k], plans[p].hash, now)
  <1>1. x \in MadeCall /\ x.key = k /\ x.pc = "reading"
    BY DEF NewCall, MadeCall
  <1>2. calls[c].pc = "idle" /\ UNCHANGED <<now, confs>>
    BY DEF Apply
  <1>3. AbstractCalls[c].st = "waiting" /\ wire[c] = "none"
    BY <1>2, Waiting
  <1>4. AbstractSpent' = AbstractSpent
    BY <1>2 DEF AbstractSpent
  <1>5. v = "replay" => KeyLive(keys[k], now) /\ keys[k].receipt # None
    BY DEF EntryVerdict, ChangeAssumption, Codes
  <1>6. v # "ok"
    BY DEF EntryVerdict, ChangeAssumption, Codes
  <1>7. \/ calls' = [calls EXCEPT ![c] = Done(x, v)] /\ keys' = keys /\ wire' = wire
        \/ /\ calls' = [calls EXCEPT ![c] = Done(x, "FIELD_REJECTED")]
           /\ keys' = [keys EXCEPT ![k] = row] /\ wire' = wire
        \/ calls' = [calls EXCEPT ![c] = x] /\ keys' = [keys EXCEPT ![k] = row] /\ wire' = wire
        \/ v = None /\ PassGate(c, x, row)
    BY DEF Apply
  <1> HIDE DEF x, v
  <1>8. CASE calls' = [calls EXCEPT ![c] = Done(x, v)] /\ keys' = keys /\ wire' = wire
    <2>1. AbstractLedger' = AbstractLedger
      BY <1>2, <1>8 DEF AbstractLedger
    <2>2. AbstractCalls' = [AbstractCalls EXCEPT ![c] =
                              G!At(IF v = "replay" THEN "replayed" ELSE "refused")]
      BY <1>1, <1>3, <1>6, <1>8, Ended
    <2>3. CASE v = "replay"
      <3>1. AbstractLedger[k] # None
        BY <1>5, <2>3 DEF AbstractLedger
      <3>2. G!Replay(c, k)
        BY <1>3, <1>4, <1>8, <2>1, <2>2, <2>3, <3>1 DEF G!Replay
      <3> QED BY <3>2 DEF G!Next
    <2>4. CASE v # "replay"
      <3>1. G!Refuse(c)
        BY <1>3, <1>4, <1>8, <2>1, <2>2, <2>4 DEF G!Refuse
      <3> QED BY <3>1 DEF G!Next
    <2> QED BY <2>3, <2>4
  <1>9. CASE calls' = [calls EXCEPT ![c] = Done(x, "FIELD_REJECTED")]
             /\ keys' = [keys EXCEPT ![k] = row] /\ wire' = wire
    <2>1. AbstractLedger' = AbstractLedger
      BY <1>2, <1>9, RecordLedger
    <2> DEFINE code == "FIELD_REJECTED"
    <2>0. /\ code # "ok" /\ code # "replay" /\ wire' = wire
          /\ calls' = [calls EXCEPT ![c] = Done(x, code)]
      BY <1>9
    <2> HIDE DEF code
    <2>2. AbstractCalls' = [AbstractCalls EXCEPT ![c] = G!At("refused")]
      <3> DEFINE st == IF code = "ok" THEN "done"
                       ELSE IF code = "replay" THEN "replayed"
                       ELSE IF wire[c] # "none" THEN "unsure" ELSE "refused"
      <3>1. AbstractCalls' = [AbstractCalls EXCEPT ![c] = G!At(st)]
        BY <1>1, <2>0, Ended
      <3>2. st = "refused"
        BY <1>3, <2>0
      <3> QED BY <3>1, <3>2
    <2>3. G!Refuse(c)
      BY <1>3, <1>4, <1>9, <2>1, <2>2 DEF G!Refuse
    <2> QED BY <2>3 DEF G!Next
  <1>10. CASE calls' = [calls EXCEPT ![c] = x] /\ keys' = [keys EXCEPT ![k] = row] /\ wire' = wire
    <2>1. AbstractLedger' = AbstractLedger
      BY <1>2, <1>10, RecordLedger
    <2>2. AbstractCall(c)' = AbstractCall(c)
      BY <1>1, <1>2, <1>10 DEF AbstractCall, TypeOK
    <2>3. \A d \in Calls : AbstractCall(d)' = AbstractCall(d)
      BY <1>10, <2>2 DEF AbstractCall, TypeOK
    <2>4. AbstractCalls' = AbstractCalls
      BY <2>3 DEF AbstractCalls
    <2> QED BY <1>4, <1>10, <2>1, <2>4 DEF G!vars
  <1>11. CASE v = None /\ PassGate(c, x, row)
    <2>1. row \in KeyRow(Calls) /\ KeyLive(row, now) /\ Handed(k, row)
      BY <1>11, Entered DEF v
    <2> QED BY <1>1, <1>2, <1>11, <2>1, GateRefines
  <1> QED BY <1>7, <1>8, <1>9, <1>10, <1>11
\* A handler that resumes after its read passes the gate or fails; one that resumes
\* after its write acknowledges it, in one step with its receipt, or gives up.
LEMMA HandlerRefines ==
  ASSUME TypeOK, IndInv, RefInv, NEW c \in Calls, Handler(c)
  PROVE  G!Next
  <1>1. calls[c] \in MadeCall
    BY DEF TypeOK, NoCall, Handler, ReadReturns, ReadFails, WriteUpstreamError,
           WriteLocalCoherence, WriteOk
  <1>2. calls[c].key \in Keys /\ calls[c].plan \in Plans /\ calls[c].token \in Plans
    BY <1>1 DEF MadeCall
  <1> DEFINE k == calls[c].key
             t == calls[c].token
  <1>3. CASE ReadReturns(c)
    <2>1. keys[k] \in KeyRow(Calls) /\ KeyLive(keys[k], now)
      BY <1>2, <1>3 DEF TypeOK, ReadReturns, InFlight, IndInv, InFlightInv
    <2>2. calls[c].pc = "readback" /\ PassGate(c, calls[c], keys[k]) /\ UNCHANGED <<now, confs>>
      BY <1>3 DEF ReadReturns
    <2>3. Handed(k, keys[k])
      BY DEF Handed
    <2> QED BY <1>1, <2>1, <2>2, <2>3, GateRefines
  <1>4. CASE ReadFails(c)
    <2> DEFINE code == "INTERNAL"
    <2>1. /\ code # "ok" /\ code # "replay" /\ wire' = wire
          /\ calls' = [calls EXCEPT ![c] = Done(calls[c], code)]
      BY <1>4 DEF ReadFails, Answer
    <2>2. AbstractCalls[c].st = "waiting" /\ wire[c] = "none"
      BY <1>4, Waiting DEF ReadFails
    <2>3. AbstractLedger' = AbstractLedger /\ AbstractSpent' = AbstractSpent
      BY <1>4 DEF ReadFails, AbstractLedger, AbstractSpent
    <2> HIDE DEF code
    <2>4. AbstractCalls' = [AbstractCalls EXCEPT ![c] = G!At("refused")]
      <3> DEFINE st == IF code = "ok" THEN "done"
                       ELSE IF code = "replay" THEN "replayed"
                       ELSE IF wire[c] # "none" THEN "unsure" ELSE "refused"
      <3>1. AbstractCalls' = [AbstractCalls EXCEPT ![c] = G!At(st)]
        BY <1>1, <2>1, Ended
      <3>2. st = "refused"
        BY <2>1, <2>2
      <3> QED BY <3>1, <3>2
    <2>5. G!Refuse(c)
      BY <2>1, <2>2, <2>3, <2>4 DEF G!Refuse
    <2> QED BY <2>5 DEF G!Next
  <1>5. ASSUME NEW code, code # "ok", code # "replay", calls[c].pc = "writing",
               calls' = Answer(c, code), wire' = wire, AbstractLedger' = AbstractLedger,
               AbstractSpent' \in {AbstractSpent, AbstractSpent \cup {t}}
        PROVE  G!Next
    <2>1. calls' = [calls EXCEPT ![c] = Done(calls[c], code)]
      BY <1>5 DEF Answer
    <2>2. AbstractCalls[c].st = "writing" /\ AbstractCalls[c].token = t /\ wire[c] # "none"
      BY <1>5, InWrite DEF RefInv
    <2>3. AbstractCalls' = [AbstractCalls EXCEPT ![c] = G!At("unsure")]
      <3> DEFINE st == IF code = "ok" THEN "done"
                       ELSE IF code = "replay" THEN "replayed"
                       ELSE IF wire[c] # "none" THEN "unsure" ELSE "refused"
      <3>1. AbstractCalls' = [AbstractCalls EXCEPT ![c] = G!At(st)]
        BY <1>1, <1>5, <2>1, Ended
      <3>2. st = "unsure"
        BY <1>5, <2>2
      <3> QED BY <3>1, <3>2
    <2>4. G!GiveUp(c)
      BY <1>5, <2>2, <2>3 DEF G!GiveUp
    <2> QED BY <2>4 DEF G!Next
  <1>6. CASE WriteUpstreamError(c)
    <2>1. /\ calls[c].pc = "writing" /\ calls' = Answer(c, "UPSTREAM_ERROR") /\ wire' = wire
          /\ now' = now /\ confs' = confs
      BY <1>6 DEF WriteUpstreamError
    <2>2. AbstractLedger' = AbstractLedger
      <3>1. CASE keys' = keys
        BY <2>1, <3>1 DEF AbstractLedger
      <3>2. CASE IsIncident
        <4> DEFINE row == ClearApplyStarted(keys[k])
        <4>1. keys' = [keys EXCEPT ![k] = row]
          BY <1>6, <3>2 DEF WriteUpstreamError
        <4>2. keys[k].receipt = None
          BY <2>1, <3>2 DEF IndInv, ClaimInv, Writers
        <4>3. row.receipt = None
          BY <1>2, <4>2 DEF ClearApplyStarted, TypeOK, KeyRow
        <4> HIDE DEF row
        <4> QED BY <1>2, <2>1, <4>1, <4>2, <4>3, SameLedger
      <3> QED BY <1>6, <3>1, <3>2 DEF WriteUpstreamError
    <2>3. AbstractSpent' = AbstractSpent
      BY <2>1 DEF AbstractSpent
    <2> QED BY <1>5, <2>1, <2>2, <2>3
  <1>7. CASE WriteLocalCoherence(c)
    <2>1. /\ calls[c].pc = "writing" /\ calls' = Answer(c, "LOCAL_COHERENCE_FAILED") /\ wire' = wire
          /\ now' = now /\ confs' = confs /\ keys' = keys
      BY <1>7 DEF WriteLocalCoherence
    <2>2. AbstractLedger' = AbstractLedger /\ AbstractSpent' = AbstractSpent
      BY <2>1 DEF AbstractSpent, AbstractLedger
    <2> QED BY <1>5, <2>1, <2>2
  <1>8. ASSUME NEW done \in 0 .. 3, WriteOk(c, done)
        PROVE  G!Next
    <2>1. calls[c].pc = "writing" /\ wire[c] = "applied" /\ wire' = wire /\ now' = now
      BY <1>8 DEF WriteOk
    <2>2. AbstractCalls[c].st = "writing" /\ AbstractCalls[c].key = k /\ AbstractCalls[c].token = t
      BY <2>1, InWrite DEF RefInv
    <2>3. CASE confs' = confs /\ keys' = keys /\ calls' = Answer(c, "CONFIRMATION_INVALID")
      <3>1. AbstractLedger' = AbstractLedger /\ AbstractSpent' = AbstractSpent
        BY <2>1, <2>3 DEF AbstractSpent, AbstractLedger
      <3> QED BY <1>5, <2>1, <2>3, <3>1
    <2>4. confs' = [confs EXCEPT ![t] = ConsumeRow(confs[t])] => AbstractSpent' = AbstractSpent \cup {t}
      <3> SUFFICES ASSUME confs' = [confs EXCEPT ![t] = ConsumeRow(confs[t])]
                   PROVE  AbstractSpent' = AbstractSpent \cup {t}
        OBVIOUS
      <3>1. ConsumeRow(confs[t]).consumed
        BY <1>2 DEF ConsumeRow, TypeOK, ConfRow
      <3>2. confs'[t].consumed /\ \A q \in Plans : q # t => confs'[q] = confs[q]
        BY <1>2, <3>1 DEF TypeOK
      <3> QED BY <1>2, <3>2 DEF AbstractSpent
    <2>5. CASE done # 3 /\ calls' = Answer(c, "INTERNAL") /\ keys' = keys
               /\ (confs' = confs \/ confs' = [confs EXCEPT ![t] = ConsumeRow(confs[t])])
      <3>1. AbstractLedger' = AbstractLedger
        BY <2>1, <2>5 DEF AbstractLedger
      <3>2. AbstractSpent' \in {AbstractSpent, AbstractSpent \cup {t}}
        BY <2>4, <2>5 DEF AbstractSpent
      <3> QED BY <1>5, <2>1, <2>5, <3>1, <3>2
    <2>6. CASE /\ done = 3
               /\ ConsumeVerdict(confs[t], calls[c].actor, HashOf(c), now) = "ok"
               /\ calls' = Answer(c, "ok")
               /\ confs' = [confs EXCEPT ![t] = ConsumeRow(confs[t])]
               /\ keys' = [keys EXCEPT ![k] = SaveReceipt(keys[k], c)]
      <3>1. t \notin AbstractSpent
        BY <2>6 DEF AbstractSpent, ConsumeVerdict, BindingVerdict
      <3>2. AbstractCalls' = [AbstractCalls EXCEPT ![c] = G!At("done")]
        <4> DEFINE code == "ok"
        <4>1. calls' = [calls EXCEPT ![c] = Done(calls[c], code)]
          BY <2>6 DEF Answer
        <4> HIDE DEF code
        <4> DEFINE st == IF code = "ok" THEN "done"
                         ELSE IF code = "replay" THEN "replayed"
                         ELSE IF wire[c] # "none" THEN "unsure" ELSE "refused"
        <4>2. AbstractCalls' = [AbstractCalls EXCEPT ![c] = G!At(st)]
          BY <1>1, <2>1, <4>1, Ended
        <4>3. st = "done"
          BY DEF code
        <4> QED BY <4>2, <4>3
      <3>3. AbstractLedger' = [AbstractLedger EXCEPT ![k] = c]
        <4>1. KeyLive(keys[k], now)
          BY <2>1 DEF IndInv, InFlightInv, InFlight
        <4>2. KeyLive(SaveReceipt(keys[k], c), now) /\ SaveReceipt(keys[k], c).receipt = c
          BY <1>2, <4>1 DEF SaveReceipt, KeyLive, TypeOK, KeyRow
        <4>3. keys'[k] = SaveReceipt(keys[k], c) /\ \A j \in Keys : j # k => keys'[j] = keys[j]
          BY <1>2, <2>6 DEF TypeOK
        <4> QED BY <1>2, <2>1, <4>2, <4>3 DEF AbstractLedger
      <3>4. G!Acknowledge(c)
        BY <2>1, <2>2, <2>4, <2>6, <3>1, <3>2, <3>3 DEF G!Acknowledge
      <3> QED BY <3>4 DEF G!Next
    <2> QED BY <1>8, <2>3, <2>5, <2>6 DEF WriteOk
  <1> QED BY <1>3, <1>4, <1>6, <1>7, <1>8 DEF Handler

\* ServiceNow serves a read without the abstract state noticing, and a write.
LEMMA SnowRefines ==
  ASSUME TypeOK, NEW c \in Calls, Snow(c)
  PROVE  G!Next \/ UNCHANGED G!vars
  <1>1. AbstractLedger' = AbstractLedger /\ AbstractSpent' = AbstractSpent
    BY DEF Snow, SnowRead, SnowApplies, SnowRejects, AbstractLedger, AbstractSpent
  <1>2. CASE SnowRead(c)
    <2>1. calls[c] \in MadeCall /\ calls[c].pc = "reading" /\ wire' = wire
      BY <1>2 DEF SnowRead, TypeOK, NoCall
    <2>2. calls'[c].pc = "readback" /\ \A d \in Calls : d # c => calls'[d] = calls[d]
      BY <1>2, <2>1 DEF SnowRead, TypeOK, MadeCall
    <2>3. \A d \in Calls : AbstractCall(d)' = AbstractCall(d)
      BY <2>1, <2>2 DEF AbstractCall
    <2>4. AbstractCalls' = AbstractCalls
      BY <2>3 DEF AbstractCalls
    <2> QED BY <1>1, <2>1, <2>4 DEF G!vars
  <1>3. ASSUME NEW end \in {"applied", "rejected"}, wire[c] = "posted",
               wire' = [wire EXCEPT ![c] = end], calls' = calls
        PROVE  G!Next
    <2>1. \A d \in Calls : wire'[d] = "none" <=> wire[d] = "none"
      BY <1>3 DEF TypeOK
    <2>2. AbstractCalls' = AbstractCalls
      BY <1>3, <2>1 DEF AbstractCalls, AbstractCall
    <2>3. G!Serve(c, end)
      BY <1>1, <1>3, <2>2 DEF G!Serve
    <2> QED BY <2>3 DEF G!Next
  <1> QED BY <1>2, <1>3 DEF Snow, SnowApplies, SnowRejects

\* The clock forgets the receipts whose reservation it ends.
LEMMA TickRefines ==
  ASSUME TypeOK, Tick
  PROVE  G!Next
  <1> DEFINE K == {k \in Keys : ~KeyLive(keys[k], now')}
  <1>1. now' = now + 1 /\ now \in Nat /\ UNCHANGED <<confs, keys, calls, wire>>
    BY DEF Tick, TypeOK
  <1>2. AbstractCalls' = AbstractCalls /\ AbstractSpent' = AbstractSpent
    BY <1>1 DEF AbstractCalls, AbstractCall, AbstractSpent
  <1>3. \A k \in Keys : KeyLive(keys[k], now') => KeyLive(keys[k], now)
    BY <1>1 DEF KeyLive, TypeOK, KeyRow
  <1>4. AbstractLedger' = [k \in Keys |-> IF k \in K THEN None ELSE AbstractLedger[k]]
    BY <1>1, <1>3 DEF AbstractLedger
  <1>5. G!Forget(K)
    BY <1>1, <1>2, <1>4 DEF G!Forget
  <1>6. K \in SUBSET Keys
    OBVIOUS
  <1> QED BY <1>5, <1>6 DEF G!Next

\* A crash loses the calls in flight.
LEMMA CrashRefines ==
  ASSUME TypeOK, Crash
  PROVE  G!Next
  <1>1. AbstractLedger' = AbstractLedger /\ AbstractSpent' = AbstractSpent /\ wire' = wire
    BY DEF Crash, AbstractLedger, AbstractSpent
  <1>2. \A c \in Calls : /\ c \in InFlight => calls'[c].pc = "dropped"
                         /\ c \notin InFlight => calls'[c] = calls[c]
    <2>1. \A c \in InFlight : calls[c] \in MadeCall
      BY DEF InFlight, TypeOK, NoCall
    <2> QED BY <2>1 DEF Crash, MadeCall
  <1>3. \A c \in Calls : AbstractCalls'[c] = IF c \in InFlight THEN G!At("lost") ELSE AbstractCalls[c]
    BY <1>1, <1>2 DEF AbstractCalls, AbstractCall, G!At
  <1>4. AbstractCalls' = [c \in Calls |-> IF c \in InFlight THEN G!At("lost") ELSE AbstractCalls[c]]
    BY <1>3 DEF AbstractCalls
  <1>5. \A c \in InFlight : AbstractCalls[c].st \in {"waiting", "writing"}
    BY DEF InFlight, AbstractCalls, AbstractCall
  <1>6. G!Lose(InFlight) /\ InFlight \in SUBSET Calls
    BY <1>1, <1>4, <1>5 DEF G!Lose, InFlight
  <1> QED BY <1>6 DEF G!Next

\* Every step of the system is one abstract step or none.
LEMMA StepRefines ==
  ASSUME TypeOK, IndInv, RefInv, Window > 0, [Next]_vars
  PROVE  [G!Next]_(G!vars)
  <1>1. ASSUME NEW p \in Plans, NEW h \in Hashes, NEW a \in Actors, PlanChange(p, h, a)
        PROVE  UNCHANGED G!vars
    BY <1>1, PlanRefines DEF RefInv
  <1>2. ASSUME NEW c \in Calls, NEW p \in Plans, NEW tok \in Plans, NEW k \in Keys,
               NEW a \in Actors, NEW ok \in BOOLEAN, Apply(c, p, tok, k, a, ok)
        PROVE  G!Next \/ UNCHANGED G!vars
    BY <1>2, ApplyRefines
  <1>3. ASSUME NEW c \in Calls, Handler(c) \/ Snow(c)
        PROVE  G!Next \/ UNCHANGED G!vars
    BY <1>3, HandlerRefines, SnowRefines
  <1>4. CASE ForeignUpdate \/ UNCHANGED vars
    BY <1>4 DEF ForeignUpdate, vars, G!vars, AbstractCalls, AbstractCall, AbstractLedger, AbstractSpent
  <1>5. CASE Tick \/ Crash
    BY <1>5, TickRefines, CrashRefines
  <1> QED BY <1>1, <1>2, <1>3, <1>4, <1>5 DEF Next

\* change_write.rs keeps the promise of GovernedWrite for every tool and every number of
\* plans, keys and calls, when no call outlives its reservation: a refused call wrote
\* nothing, a replay reports a stored receipt, a receipt and an "ok" stand for an applied
\* write, each confirmation is acknowledged once, and Incident writes under one key
\* exclude each other.
THEOREM Implements ==
  ASSUME FlightsFit, Window > 0
  PROVE  Spec => Governed
  <1>1. TypeOK /\ IndInv /\ RefInv /\ [Next]_vars => [G!Next]_(G!vars)
    BY StepRefines
  <1> QED BY <1>1, InitRefines, IndCorrect, TypeCorrect, RefCorrect, PTL DEF Spec, Governed, G!Spec
=============================================================================
