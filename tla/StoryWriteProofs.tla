--------------------------- MODULE StoryWriteProofs ---------------------------
(***************************************************************************)
(* Proofs about StoryWrite for every number of plans and calls and every   *)
(* load: the type invariant, that UPSTREAM_ERROR is never the answer to a  *)
(* write that was carried out, that the clients who wait for each answer   *)
(* get one record or one change per plan, and that receipts are true.      *)
(***************************************************************************)
EXTENDS StoryWrite, FiniteSetTheorems, TLAPS

USE StoreAssumption, StoryAssumption

-----------------------------------------------------------------------------
(* What the store operators return. *)

\* plan_store.rs: put, mark_consumed and mark_expired.
LEMMA PlanRowTypes ==
  ASSUME NEW row \in PlanRow, NEW h \in Hashes, NEW tok \in Nat, NEW t \in Nat
  PROVE  /\ PutPlan(h, tok, t) \in PlanRow
         /\ MarkPlanConsumed(row) \in PlanRow /\ MarkPlanExpired(row) \in PlanRow
  BY DEF PlanRow, PutPlan, MarkPlanConsumed, MarkPlanExpired

\* A stored plan keeps its operation, its token and its expiry.
LEMMA PlanMarks ==
  ASSUME NEW row \in PlanRow, NEW new \in {MarkPlanConsumed(row), MarkPlanExpired(row)}
  PROVE  /\ new.hash = row.hash /\ new.token = row.token /\ new.expires = row.expires
         /\ row.state # "absent" => new.state # "absent"
  BY DEF PlanRow, MarkPlanConsumed, MarkPlanExpired

\* confirmation.rs: issue and consume.
LEMMA ConfRowTypes ==
  ASSUME NEW row \in ConfRow, NEW h \in Hashes, NEW a \in Actors, NEW t \in Nat
  PROVE  IssueConfirmation(h, a, t) \in ConfRow /\ ConsumeRow(row) \in ConfRow
  <1>1. t + PlanTTL \in Nat
    OBVIOUS
  <1>2. IssueConfirmation(h, a, t) \in ConfRow
    BY <1>1, Zenon DEF ConfRow, IssueConfirmation
  <1>3. ConsumeRow(row) \in ConfRow
    BY Zenon DEF ConfRow, ConsumeRow
  <1> QED BY <1>2, <1>3

\* idempotency.rs: check_and_record, the mark and the receipt.
LEMMA KeyRowTypes ==
  ASSUME NEW row \in KeyRow(Calls), NEW h \in Hashes \cup {None}, NEW c \in Calls, NEW t \in Nat
  PROVE  /\ CheckAndRecord(row, h, t) \in KeyRow(Calls)
         /\ MarkApplyStarted(row) \in KeyRow(Calls)
         /\ SaveReceipt(row, c) \in KeyRow(Calls)
  <1>1. CheckAndRecord(row, h, t) \in KeyRow(Calls)
    BY DEF KeyRow, CheckAndRecord
  <1>2. MarkApplyStarted(row) \in KeyRow(Calls) /\ SaveReceipt(row, c) \in KeyRow(Calls)
    BY DEF KeyRow, MarkApplyStarted, SaveReceipt
  <1> QED BY <1>1, <1>2

-----------------------------------------------------------------------------
(* Type correctness. *)

AuditRows == (Calls \cup Plans) \X
  {"plan", "confirmation_issue", "confirmation_consume", "denied", "error", "applied_success", "replay"}
CallRows == [Calls -> {NoCall} \cup MadeCall]

\* The answers of a call and the rows audited with them (audited_story_error).
LEMMA AnswerTypes ==
  ASSUME TypeOK, NEW c \in Calls, NEW x \in MadeCall, NEW code \in Codes
  PROVE  /\ Answered(x, code) \in MadeCall
         /\ [calls EXCEPT ![c] = Answered(x, code)] \in CallRows
         /\ audit \cup AuditOf(c, code) \in SUBSET AuditRows
  <1>1. Answered(x, code) \in MadeCall
    BY DEF Answered, MadeCall
  <1>2. AuditOf(c, code) \in SUBSET AuditRows
    BY DEF AuditOf, AuditRows
  <1> QED BY <1>1, <1>2 DEF TypeOK, CallRows, AuditRows

\* The record the pending lookup finds.
LEMMA RecordFound ==
  ASSUME TypeOK, NEW c \in Calls, Recovery(c) = "Recovered"
  PROVE  /\ RecoveredRecord(c) \in Calls \cup Foreign \cup {None}
         /\ tool = "create" => \E s \in CreateMatches(c) : s.by = RecoveredRecord(c)
  <1>1. CASE tool = "create"
    <2>1. Cardinality(CreateMatches(c)) = 1
      BY <1>1 DEF Recovery
    <2>0. Cardinality({}) = 0
      BY FS_EmptySet
    <2>2. CreateMatches(c) # {}
      BY <2>0, <2>1
    <2>3. (CHOOSE s \in CreateMatches(c) : TRUE) \in CreateMatches(c)
      BY <2>2
    <2>4. CreateMatches(c) \subseteq Story
      BY DEF CreateMatches, TypeOK
    <2> QED BY <1>1, <2>3, <2>4 DEF RecoveredRecord, Story
  <1>2. CASE tool # "create"
    BY <1>2 DEF RecoveredRecord
  <1> QED BY <1>1, <1>2

\* From the plan's expiry to the guard.
LEMMA ProceedTypes ==
  ASSUME TypeOK, NEW c \in Calls, NEW x \in MadeCall, NEW limited \in BOOLEAN, Proceed(c, x, limited)
  PROVE  /\ calls' \in CallRows /\ keys' \in [Plans -> KeyRow(Calls)]
         /\ plans' \in [Plans -> PlanRow] /\ audit' \in SUBSET AuditRows
  <1>1. x.plan \in Plans /\ x.key \in Plans
    BY DEF MadeCall
  <1>2. plans[x.plan] \in PlanRow /\ keys[x.key] \in KeyRow(Calls) /\ now \in Nat
    BY <1>1 DEF TypeOK
  <1>3. plans[x.plan].hash \in Hashes \cup {None}
    BY <1>2 DEF PlanRow
  <1>4. keys' \in [Plans -> KeyRow(Calls)]
    <2>1. CheckAndRecord(keys[x.key], plans[x.plan].hash, now) \in KeyRow(Calls)
      BY <1>2, <1>3, KeyRowTypes
    <2> QED BY <2>1 DEF Proceed, TypeOK
  <1>5. plans' \in [Plans -> PlanRow]
    <2>1. MarkPlanExpired(plans[x.plan]) \in PlanRow
      BY <1>2 DEF PlanRow, MarkPlanExpired
    <2> QED BY <2>1 DEF Proceed, TypeOK
  <1>6. \/ calls' = [calls EXCEPT ![c] = [x EXCEPT !.pc = "checking"]] /\ audit' = audit
        \/ \E code \in Codes : /\ calls' = [calls EXCEPT ![c] = Answered(x, code)]
                               /\ audit' = audit \cup AuditOf(c, code)
    <2>1. \A code : code \in {"PLAN_EXPIRED", "RATE_LIMITED", "IDEMPOTENCY_CONFLICT", "replay",
                              "CONFIRMATION_INVALID"} => code \in Codes
      BY DEF Codes
    <2> QED BY <2>1 DEF Proceed
  <1>7. [x EXCEPT !.pc = "checking"] \in MadeCall
    BY DEF MadeCall
  <1>8. CASE calls' = [calls EXCEPT ![c] = [x EXCEPT !.pc = "checking"]] /\ audit' = audit
    BY <1>4, <1>5, <1>7, <1>8 DEF CallRows, TypeOK, AuditRows
  <1>9. CASE \E code \in Codes : /\ calls' = [calls EXCEPT ![c] = Answered(x, code)]
                                 /\ audit' = audit \cup AuditOf(c, code)
    <2>1. PICK code \in Codes : /\ calls' = [calls EXCEPT ![c] = Answered(x, code)]
                                /\ audit' = audit \cup AuditOf(c, code)
      BY <1>9
    <2>2. calls' \in CallRows /\ audit' \in SUBSET AuditRows
      BY <2>1, AnswerTypes
    <2> QED BY <1>4, <1>5, <2>2
  <1> QED BY <1>6, <1>8, <1>9

-----------------------------------------------------------------------------
(* What the steps of a call look like. *)

\* A receipt is saved together with what it stands on: the confirmation was consumed
\* and that was audited, and a new record r is there or is the call's own, which was served.
Backs(c, r) ==
  LET x == calls[c]
  IN /\ keys' = [keys EXCEPT ![x.key] = SaveReceipt(@, c)]
     /\ \/ x.spent
        \/ /\ confs' = [confs EXCEPT ![x.token] = ConsumeRow(@)]
           /\ <<c, "confirmation_consume">> \in audit'
     /\ tool = "create" => \/ r = c /\ wire[c] = "applied"
                           \/ \E s \in stories : s.by = r /\ s.sig = SigOf[HashOf(c)]

\* A call that found its effect is answered (WriteOk, ResolveRecovered, RecoverRecovered).
Finishes(c) ==
  LET x == calls[c]
  IN /\ x.pc \in {"resolving", "writing", "recovering"}
     /\ \E r \in Calls \cup Foreign \cup {None}, code \in Codes \ {"UPSTREAM_ERROR"} :
          /\ calls' = [calls EXCEPT ![c] = Answered([x EXCEPT !.record = r], code)]
          /\ keys' = keys \/ Backs(c, r)
     /\ plans' \in {plans, [plans EXCEPT ![x.plan] = MarkPlanConsumed(@)]}
     /\ \/ confs' = confs
        \/ confs[x.token].hash # None /\ confs' = [confs EXCEPT ![x.token] = ConsumeRow(@)]
     /\ \E rows \in SUBSET AuditRows : audit' = audit \cup rows
     /\ UNCHANGED <<now, wire, stories, target>>

\* A call is answered without an effect.
Stops(c) ==
  /\ c \in InFlight
  /\ \E code \in Codes :
       /\ calls' = Answer(c, code)
       /\ audit' = audit \cup AuditOf(c, code)
       /\ code = "UPSTREAM_ERROR" => calls[c].pc = "recovering" /\ Recovery(c) = "Proceed"
  /\ UNCHANGED <<now, plans, confs, keys, wire, stories, target>>

\* A call sends its write.
Sends(c) ==
  LET x == calls[c]
  IN /\ x.pc = "checking"
     /\ tool = "update" => target.ver = plans[x.plan].token
     /\ x.spent \/ confs[x.token].hash # None
     /\ calls' = [calls EXCEPT ![c] = [x EXCEPT !.pc = "writing"]]
     /\ keys' = [keys EXCEPT ![x.key] = MarkApplyStarted(@)]
     /\ wire' = [wire EXCEPT ![c] = "posted"]
     /\ UNCHANGED <<now, plans, confs, stories, target, audit>>

\* A call that is consumed with verdict "ok" has a confirmation.
LEMMA KnownToken ==
  ASSUME NEW row, NEW a, NEW h, NEW t,
         ConsumeVerdict(row, a, h, t) = "ok" \/ ConfirmationVerdict(row, a, h, t) = "ok"
  PROVE  row.hash # None
  BY DEF ConsumeVerdict, ConfirmationVerdict, BindingVerdict

\* The write is there.
LEMMA WriteOkShape ==
  ASSUME TypeOK, NEW c \in Calls, NEW done \in 0 .. 4, WriteOk(c, done)
  PROVE  Finishes(c)
  <1> DEFINE x == calls[c]
             ok == x.spent \/ ConsumeVerdict(confs[x.token], x.actor, HashOf(c), now) = "ok"
             code == CASE ~ok -> "CONFIRMATION_INVALID" [] ok /\ done = 4 -> "ok" [] OTHER -> "INTERNAL"
             r == IF tool = "create" THEN c ELSE None
             rows == (IF done >= 2 /\ ~x.spent THEN {<<c, "confirmation_consume">>} ELSE {})
                     \cup (IF done >= 3 THEN {<<c, "applied_success">>} ELSE {})
                     \cup (IF ok THEN {} ELSE {<<c, "denied">>})
  <1>1. code \in Codes \ {"UPSTREAM_ERROR"} /\ r \in Calls \cup Foreign \cup {None}
    BY DEF Codes
  <1>2. rows \in SUBSET AuditRows
    BY DEF AuditRows
  <1>3. /\ x.pc = "writing" /\ wire[c] = "applied" /\ (~ok => done = 0)
        /\ calls' = [calls EXCEPT ![c] = Answered([x EXCEPT !.record = r], code)]
        /\ UNCHANGED <<now, wire, stories, target>>
        /\ plans' = IF done = 4 THEN [plans EXCEPT ![x.plan] = MarkPlanConsumed(@)] ELSE plans
    BY DEF WriteOk
  <1>4. confs' = IF done >= 1 /\ ~x.spent THEN [confs EXCEPT ![x.token] = ConsumeRow(@)] ELSE confs
    BY DEF WriteOk
  <1>5. keys' = IF done = 4 THEN [keys EXCEPT ![x.key] = SaveReceipt(@, c)] ELSE keys
    BY DEF WriteOk
  <1>6. audit' = audit \cup rows
    BY DEF WriteOk
  <1>7. done >= 1 /\ ~x.spent => confs[x.token].hash # None
    <2>1. done >= 1 => ok
      BY <1>3
    <2> QED BY <2>1, KnownToken
  <1>8. keys' = keys \/ Backs(c, r)
    <2>1. CASE done = 4
      <3>1. <<c, "confirmation_consume">> \in audit' \/ x.spent
        BY <1>6, <2>1
      <3>2. tool = "create" => r = c /\ wire[c] = "applied"
        BY <1>3
      <3> QED BY <1>4, <1>5, <2>1, <3>1, <3>2 DEF Backs
    <2> QED BY <1>5, <2>1
  <1> HIDE DEF ok, code, r, rows
  <1> QED BY <1>1, <1>2, <1>3, <1>4, <1>6, <1>7, <1>8 DEF Finishes

\* The pending lookup found the record.
LEMMA ResolveShape ==
  ASSUME TypeOK, NEW c \in Calls, NEW done \in 0 .. 4, ResolveRecovered(c, done)
  PROVE  Finishes(c)
  <1> DEFINE x == calls[c]
             ok == x.spent \/ ConsumeVerdict(confs[x.token], x.actor, HashOf(c), now) = "ok"
             code == IF done = 4 THEN "recovered" ELSE "INTERNAL"
             r == RecoveredRecord(c)
             rows == (IF done >= 2 /\ ~x.spent THEN {<<c, "confirmation_consume">>} ELSE {})
                     \cup (IF done = 4 THEN {<<c, "replay">>} ELSE {})
  <1>1. /\ r \in Calls \cup Foreign \cup {None}
        /\ tool = "create" => \E s \in CreateMatches(c) : s.by = r
    BY RecordFound DEF ResolveRecovered
  <1>2. code \in Codes \ {"UPSTREAM_ERROR"} /\ rows \in SUBSET AuditRows
    BY DEF Codes, AuditRows
  <1>3. /\ x.pc = "resolving" /\ (~ok => done = 0)
        /\ calls' = [calls EXCEPT ![c] = Answered([x EXCEPT !.record = r], code)]
        /\ UNCHANGED <<now, wire, stories, target>>
        /\ plans' = IF done >= 3 THEN [plans EXCEPT ![x.plan] = MarkPlanConsumed(@)] ELSE plans
    BY DEF ResolveRecovered
  <1>4. confs' = IF done >= 1 /\ ~x.spent THEN [confs EXCEPT ![x.token] = ConsumeRow(@)] ELSE confs
    BY DEF ResolveRecovered
  <1>5. keys' = IF done >= 3 THEN [keys EXCEPT ![x.key] = SaveReceipt(@, c)] ELSE keys
    BY DEF ResolveRecovered
  <1>6. audit' = audit \cup rows
    BY DEF ResolveRecovered
  <1>7. done >= 1 /\ ~x.spent => confs[x.token].hash # None
    <2>1. done >= 1 => ok
      BY <1>3
    <2> QED BY <2>1, KnownToken
  <1>8. keys' = keys \/ Backs(c, r)
    <2>1. CASE done >= 3
      <3>1. <<c, "confirmation_consume">> \in audit' \/ x.spent
        BY <1>6, <2>1
      <3>2. tool = "create" => \E s \in stories : s.by = r /\ s.sig = SigOf[HashOf(c)]
        BY <1>1 DEF CreateMatches
      <3> QED BY <1>4, <1>5, <2>1, <3>1, <3>2 DEF Backs
    <2> QED BY <1>5, <2>1
  <1> HIDE DEF ok, code, r, rows
  <1> QED BY <1>1, <1>2, <1>3, <1>4, <1>6, <1>7, <1>8 DEF Finishes

\* The lookup after a failed write found it.
LEMMA RecoverShape ==
  ASSUME TypeOK, NEW c \in Calls, NEW done \in 0 .. 3, RecoverRecovered(c, done)
  PROVE  Finishes(c)
  <1> DEFINE x == calls[c]
             ok == x.spent \/ ConsumeVerdict(confs[x.token], x.actor, HashOf(c), now) = "ok"
             code == CASE ~ok -> "CONFIRMATION_INVALID" [] ok /\ done = 3 -> "recovered"
                       [] OTHER -> "INTERNAL"
             r == RecoveredRecord(c)
             rows == (IF done >= 2 /\ ~x.spent THEN {<<c, "confirmation_consume">>} ELSE {})
                     \cup (IF ok THEN {} ELSE {<<c, "denied">>})
  <1>1. /\ r \in Calls \cup Foreign \cup {None}
        /\ tool = "create" => \E s \in CreateMatches(c) : s.by = r
    BY RecordFound DEF RecoverRecovered
  <1>2. code \in Codes \ {"UPSTREAM_ERROR"} /\ rows \in SUBSET AuditRows
    BY DEF Codes, AuditRows
  <1>3. /\ x.pc = "recovering" /\ (~ok => done = 0)
        /\ calls' = [calls EXCEPT ![c] = Answered([x EXCEPT !.record = r], code)]
        /\ UNCHANGED <<now, wire, stories, target>>
        /\ plans' = IF done = 3 THEN [plans EXCEPT ![x.plan] = MarkPlanConsumed(@)] ELSE plans
    BY DEF RecoverRecovered
  <1>4. confs' = IF done >= 1 /\ ~x.spent THEN [confs EXCEPT ![x.token] = ConsumeRow(@)] ELSE confs
    BY DEF RecoverRecovered
  <1>5. keys' = IF done = 3 THEN [keys EXCEPT ![x.key] = SaveReceipt(@, c)] ELSE keys
    BY DEF RecoverRecovered
  <1>6. audit' = audit \cup rows
    BY DEF RecoverRecovered
  <1>7. done >= 1 /\ ~x.spent => confs[x.token].hash # None
    <2>1. done >= 1 => ok
      BY <1>3
    <2> QED BY <2>1, KnownToken
  <1>8. keys' = keys \/ Backs(c, r)
    <2>1. CASE done = 3
      <3>1. <<c, "confirmation_consume">> \in audit' \/ x.spent
        BY <1>6, <2>1
      <3>2. tool = "create" => \E s \in stories : s.by = r /\ s.sig = SigOf[HashOf(c)]
        BY <1>1 DEF CreateMatches
      <3> QED BY <1>4, <1>5, <2>1, <3>1, <3>2 DEF Backs
    <2> QED BY <1>5, <2>1
  <1> HIDE DEF ok, code, r, rows
  <1> QED BY <1>1, <1>2, <1>3, <1>4, <1>6, <1>7, <1>8 DEF Finishes

\* A lookup, a check or a failed write ends the call, or the checks pass.
LEMMA StopShape ==
  ASSUME TypeOK, NEW c \in Calls, NEW code \in Codes,
         ResolveStops(c, code) \/ CheckStops(c, code) \/ RecoverStops(c, code)
  PROVE  Stops(c)
  <1>1. c \in InFlight
    BY DEF ResolveStops, CheckStops, RecoverStops, InFlight
  <1>2. code = "UPSTREAM_ERROR" => calls[c].pc = "recovering" /\ Recovery(c) = "Proceed"
    BY DEF ResolveStops, CheckStops, RecoverStops
  <1>3. /\ calls' = Answer(c, code) /\ audit' = audit \cup AuditOf(c, code)
        /\ UNCHANGED <<now, plans, confs, keys, wire, stories, target>>
    BY DEF ResolveStops, CheckStops, RecoverStops
  <1> QED BY <1>1, <1>2, <1>3 DEF Stops

LEMMA CheckShape ==
  ASSUME TypeOK, NEW c \in Calls, CheckPasses(c)
  PROVE  Stops(c) \/ Sends(c)
  <1> DEFINE x == calls[c]
             ok == x.spent \/ ConfirmationVerdict(confs[x.token], x.actor, HashOf(c), now) = "ok"
  <1>1. ok => x.spent \/ confs[x.token].hash # None
    BY KnownToken
  <1>2. CASE ok
    <2>1. calls' = [calls EXCEPT ![c] = [x EXCEPT !.pc = "writing"]]
      BY <1>2 DEF CheckPasses
    <2> QED BY <1>1, <1>2, <2>1 DEF CheckPasses, Sends
  <1>3. CASE ~ok
    <2>1. /\ calls' = Answer(c, "CONFIRMATION_INVALID")
          /\ audit' = audit \cup AuditOf(c, "CONFIRMATION_INVALID")
          /\ UNCHANGED <<now, plans, confs, keys, wire, stories, target>>
      BY <1>3 DEF CheckPasses
    <2>2. c \in InFlight /\ "CONFIRMATION_INVALID" \in Codes
      BY DEF CheckPasses, InFlight, Codes
    <2> QED BY <2>1, <2>2 DEF Stops
  <1> QED BY <1>2, <1>3

\* Every step has one of these shapes.
Steps ==
  \/ \E p \in Plans, h \in Hashes, a \in Actors : PlanStory(p, h, a)
  \/ \E c \in Calls, p, tok, k \in Plans, a \in Actors, lockedOut, limited \in BOOLEAN :
       Apply(c, p, tok, k, a, lockedOut, limited)
  \/ \E c \in Calls : \/ Finishes(c) \/ Stops(c) \/ Sends(c) \/ WriteFails(c)
                      \/ \E limited \in BOOLEAN : ResolveProceeds(c, limited)
                      \/ SnowApplies(c) \/ SnowRejects(c)
  \/ \E f \in Foreign, g \in Sigs : ForeignCreate(f, g)
  \/ ForeignUpdate \/ Tick \/ Crash

LEMMA StepShape ==
  ASSUME TypeOK, Next
  PROVE  Steps /\ UNCHANGED <<tool, load>>
  <1>1. ASSUME NEW c \in Calls, NEW done \in 0 .. 4, ResolveRecovered(c, done) \/ WriteOk(c, done)
        PROVE  Finishes(c)
    BY <1>1, ResolveShape, WriteOkShape
  <1>2. ASSUME NEW c \in Calls, NEW done \in 0 .. 3, RecoverRecovered(c, done)
        PROVE  Finishes(c)
    BY <1>2, RecoverShape
  <1>3. ASSUME NEW c \in Calls, NEW code \in Codes,
               ResolveStops(c, code) \/ CheckStops(c, code) \/ RecoverStops(c, code)
        PROVE  Stops(c)
    BY <1>3, StopShape
  <1>4. ASSUME NEW c \in Calls, CheckPasses(c)
        PROVE  Stops(c) \/ Sends(c)
    BY <1>4, CheckShape
  <1> QED BY <1>1, <1>2, <1>3, <1>4 DEF Next, Steps

\* Empty stores have their types.
LEMMA InitType == Init => TypeOK
  <1> SUFFICES ASSUME Init PROVE TypeOK
    OBVIOUS
  <1>1. NoPlanRow \in PlanRow /\ NoConfRow \in ConfRow /\ NoKeyRow \in KeyRow(Calls)
    BY DEF NoPlanRow, PlanRow, NoConfRow, ConfRow, NoKeyRow, KeyRow
  <1> QED BY <1>1 DEF Init, TypeOK

\* The arguments of a new call.
NewCall(p, tok, k, a) ==
  [NoCall EXCEPT !.pc = "resolving", !.plan = p, !.token = tok, !.key = k,
     !.actor = a, !.expired = PlanExpired(plans[p], now)]

LEMMA NewCallRow ==
  ASSUME NEW p \in Plans, NEW tok \in Plans, NEW k \in Plans, NEW a \in Actors
  PROVE  /\ NewCall(p, tok, k, a) \in MadeCall
         /\ NewCall(p, tok, k, a).plan = p /\ NewCall(p, tok, k, a).token = tok
         /\ NewCall(p, tok, k, a).key = k /\ NewCall(p, tok, k, a).pc = "resolving"
         /\ NewCall(p, tok, k, a).out = None /\ ~NewCall(p, tok, k, a).spent
  <1>1. PlanExpired(plans[p], now) \in BOOLEAN
    BY DEF PlanExpired
  <1> QED BY <1>1 DEF NewCall, NoCall, MadeCall

\* What Apply does with it.
LEMMA ApplyShape ==
  ASSUME TypeOK, NEW c \in Calls, NEW p \in Plans, NEW tok \in Plans, NEW k \in Plans, NEW a \in Actors,
         NEW lockedOut \in BOOLEAN, NEW limited \in BOOLEAN, Apply(c, p, tok, k, a, lockedOut, limited)
  PROVE  LET x == NewCall(p, tok, k, a)
             v == EntryVerdict(x, lockedOut)
             pending == KeyLive(keys[k], now) /\ confs[tok].hash # None
         IN /\ calls[c].pc = "idle"
            /\ Cardinality(InFlight) < load.atOnce
            /\ v \in (Codes \ {"UPSTREAM_ERROR"}) \cup {None}
            /\ \/ /\ v # None
                  /\ calls' = [calls EXCEPT ![c] = Answered(x, v)]
                  /\ audit' = audit \cup AuditOf(c, v)
                  /\ UNCHANGED <<plans, keys>>
               \/ /\ v = None /\ pending
                  /\ calls' = [calls EXCEPT ![c] = [x EXCEPT !.spent = confs[tok].consumed]]
                  /\ UNCHANGED <<plans, keys, audit>>
               \/ v = None /\ ~pending /\ Proceed(c, x, limited)
            /\ UNCHANGED <<now, confs, wire, stories, target>>
  <1>1. EntryVerdict(NewCall(p, tok, k, a), lockedOut) \in (Codes \ {"UPSTREAM_ERROR"}) \cup {None}
    BY DEF EntryVerdict, Codes
  <1> QED BY <1>1 DEF Apply, NewCall

\* A plan is live enough to go on: it is stored, and a live reservation is its operation's.
LEMMA EntryPassed ==
  ASSUME TypeOK, NEW x, NEW lockedOut \in BOOLEAN, EntryVerdict(x, lockedOut) = None
  PROVE  /\ plans[x.plan].state # "absent"
         /\ KeyLive(keys[x.key], now) => keys[x.key].hash = plans[x.plan].hash
  BY DEF EntryVerdict, Codes

\* A stored plan is for an operation; a call under way, and one whose write went out,
\* has a stored plan.
StoredInv ==
  /\ \A p \in Plans : plans[p].state # "absent" => plans[p].hash \in Hashes
  /\ \A c \in Calls : c \in InFlight \/ wire[c] # "none" =>
       calls[c].pc # "idle" /\ plans[calls[c].plan].state # "absent"

\* Every shape keeps the types.
LEMMA StepType ==
  ASSUME TypeOK, StoredInv, [Next]_vars
  PROVE  TypeOK'
  <1>0. /\ calls \in CallRows /\ audit \in SUBSET AuditRows /\ now \in Nat /\ stories \subseteq Story
        /\ plans \in [Plans -> PlanRow] /\ confs \in [Plans -> ConfRow]
        /\ keys \in [Plans -> KeyRow(Calls)] /\ target \in [ver: Nat, val: Hashes \cup {None}]
        /\ wire \in [Calls -> {"none", "posted", "applied", "rejected"}]
    BY DEF TypeOK, CallRows, AuditRows
  <1>1. CASE UNCHANGED vars
    BY <1>1 DEF vars, TypeOK
  <1>2. CASE Next
    <2>1. Steps /\ UNCHANGED <<tool, load>>
      BY <1>2, StepShape
    <2>2. ASSUME /\ now' \in Nat /\ plans' \in [Plans -> PlanRow] /\ confs' \in [Plans -> ConfRow]
                 /\ keys' \in [Plans -> KeyRow(Calls)] /\ calls' \in CallRows
                 /\ wire' \in [Calls -> {"none", "posted", "applied", "rejected"}]
                 /\ stories' \subseteq Story /\ target' \in [ver: Nat, val: Hashes \cup {None}]
                 /\ audit' \in SUBSET AuditRows
          PROVE  TypeOK'
      BY <2>1, <2>2 DEF TypeOK, CallRows, AuditRows
    <2>3. ASSUME NEW p \in Plans, NEW h \in Hashes, NEW a \in Actors, PlanStory(p, h, a)
          PROVE  TypeOK'
      <3>1. target.ver \in Nat /\ keys[p] \in KeyRow(Calls) /\ plans[p] \in PlanRow
        BY <1>0
      <3>2. CheckAndRecord(keys[p], h, now) \in KeyRow(Calls)
        BY <1>0, <3>1 DEF KeyRow, CheckAndRecord
      <3>3. PutPlan(h, target.ver, now) \in PlanRow
        BY <1>0, <3>1, PlanRowTypes
      <3>4. IssueConfirmation(h, a, now) \in ConfRow
        <4>1. now + PlanTTL \in Nat
          BY <1>0
        <4> QED BY <4>1, Zenon DEF IssueConfirmation, ConfRow
      <3>5. /\ plans' \in [Plans -> PlanRow] /\ confs' \in [Plans -> ConfRow]
            /\ keys' \in [Plans -> KeyRow(Calls)]
        BY <1>0, <2>3, <3>2, <3>3, <3>4 DEF PlanStory
      <3>6. audit' \in SUBSET AuditRows
        BY <1>0, <2>3 DEF PlanStory, AuditRows
      <3> QED BY <1>0, <2>2, <2>3, <3>5, <3>6 DEF PlanStory
    <2>4. ASSUME NEW c \in Calls, NEW p \in Plans, NEW tok \in Plans, NEW k \in Plans, NEW a \in Actors,
                 NEW lockedOut \in BOOLEAN, NEW limited \in BOOLEAN,
                 Apply(c, p, tok, k, a, lockedOut, limited)
          PROVE  TypeOK'
      <3> DEFINE x == NewCall(p, tok, k, a)
                 v == EntryVerdict(x, lockedOut)
      <3>1. x \in MadeCall
        BY NewCallRow
      <3>2. /\ v \in Codes \cup {None}
            /\ \/ /\ v # None
                  /\ calls' = [calls EXCEPT ![c] = Answered(x, v)]
                  /\ audit' = audit \cup AuditOf(c, v)
                  /\ UNCHANGED <<plans, keys>>
               \/ /\ calls' = [calls EXCEPT ![c] = [x EXCEPT !.spent = confs[tok].consumed]]
                  /\ UNCHANGED <<plans, keys, audit>>
               \/ Proceed(c, x, limited)
            /\ UNCHANGED <<now, confs, wire, stories, target>>
        BY <2>4, ApplyShape
      <3> HIDE DEF x, v
      <3>3. CASE /\ v # None
                 /\ calls' = [calls EXCEPT ![c] = Answered(x, v)]
                 /\ audit' = audit \cup AuditOf(c, v)
                 /\ UNCHANGED <<plans, keys>>
        <4>1. calls' \in CallRows /\ audit' \in SUBSET AuditRows
          BY <3>1, <3>2, <3>3, AnswerTypes
        <4> QED BY <1>0, <2>2, <3>2, <3>3, <4>1
      <3>4. CASE /\ calls' = [calls EXCEPT ![c] = [x EXCEPT !.spent = confs[tok].consumed]]
                 /\ UNCHANGED <<plans, keys, audit>>
        <4>1. confs[tok].consumed \in BOOLEAN
          BY <1>0 DEF ConfRow
        <4>2. [x EXCEPT !.spent = confs[tok].consumed] \in MadeCall
          BY <3>1, <4>1 DEF MadeCall
        <4>3. calls' \in CallRows
          BY <1>0, <3>4, <4>2 DEF CallRows
        <4> QED BY <1>0, <2>2, <3>2, <3>4, <4>3
      <3>5. CASE Proceed(c, x, limited)
        BY <1>0, <2>2, <3>1, <3>2, <3>5, ProceedTypes
      <3> QED BY <3>2, <3>3, <3>4, <3>5
    <2>5. ASSUME NEW c \in Calls, Finishes(c)
          PROVE  TypeOK'
      <3>1. calls[c] \in MadeCall
        BY <1>0, <2>5 DEF Finishes, CallRows, NoCall
      <3>2. calls[c].plan \in Plans /\ calls[c].token \in Plans /\ calls[c].key \in Plans
        BY <3>1 DEF MadeCall
      <3>3. \A row \in KeyRow(Calls) : SaveReceipt(row, c) \in KeyRow(Calls)
        BY DEF KeyRow, SaveReceipt
      <3>4. \A row \in PlanRow : MarkPlanConsumed(row) \in PlanRow
        BY DEF PlanRow, MarkPlanConsumed
      <3>5. ConsumeRow(confs[calls[c].token]) \in ConfRow
        <4>1. confs[calls[c].token] \in ConfRow
          BY <1>0, <3>2
        <4> QED BY <4>1, Zenon DEF ConfRow, ConsumeRow
      <3>6. keys' \in [Plans -> KeyRow(Calls)]
        BY <1>0, <2>5, <3>2, <3>3 DEF Finishes, Backs
      <3>7. plans' \in [Plans -> PlanRow] /\ confs' \in [Plans -> ConfRow]
        BY <1>0, <2>5, <3>2, <3>4, <3>5 DEF Finishes
      <3>8. calls' \in CallRows
        <4>1. PICK r \in Calls \cup Foreign \cup {None}, code \in Codes :
                calls' = [calls EXCEPT ![c] = Answered([calls[c] EXCEPT !.record = r], code)]
          BY <2>5 DEF Finishes
        <4>2. [calls[c] EXCEPT !.record = r] \in MadeCall
          BY <3>1 DEF MadeCall
        <4> QED BY <4>1, <4>2, AnswerTypes
      <3>9. audit' \in SUBSET AuditRows
        BY <1>0, <2>5 DEF Finishes
      <3> QED BY <1>0, <2>2, <2>5, <3>6, <3>7, <3>8, <3>9 DEF Finishes
    <2>6. ASSUME NEW c \in Calls, Stops(c)
          PROVE  TypeOK'
      <3>1. calls[c] \in MadeCall
        BY <1>0, <2>6 DEF Stops, InFlight, CallRows, NoCall
      <3>2. calls' \in CallRows /\ audit' \in SUBSET AuditRows
        <4>1. PICK code \in Codes : /\ calls' = [calls EXCEPT ![c] = Answered(calls[c], code)]
                                    /\ audit' = audit \cup AuditOf(c, code)
          BY <2>6 DEF Stops, Answer
        <4> QED BY <3>1, <4>1, AnswerTypes
      <3> QED BY <1>0, <2>2, <2>6, <3>2 DEF Stops
    <2>7. ASSUME NEW c \in Calls, Sends(c)
          PROVE  TypeOK'
      <3>1. calls[c] \in MadeCall
        BY <1>0, <2>7 DEF Sends, CallRows, NoCall
      <3>2. [calls[c] EXCEPT !.pc = "writing"] \in MadeCall /\ calls[c].key \in Plans
        BY <3>1 DEF MadeCall
      <3>3. \A row \in KeyRow(Calls) : MarkApplyStarted(row) \in KeyRow(Calls)
        BY DEF KeyRow, MarkApplyStarted
      <3>4. calls' \in CallRows /\ keys' \in [Plans -> KeyRow(Calls)]
        BY <1>0, <2>7, <3>2, <3>3 DEF Sends, CallRows
      <3> QED BY <1>0, <2>2, <2>7, <3>4 DEF Sends
    <2>8. ASSUME NEW c \in Calls, WriteFails(c)
          PROVE  TypeOK'
      <3>1. calls[c] \in MadeCall
        BY <1>0, <2>8 DEF WriteFails, CallRows, NoCall
      <3>2. calls' \in CallRows
        BY <1>0, <2>8, <3>1 DEF WriteFails, CallRows, MadeCall
      <3> QED BY <1>0, <2>2, <2>8, <3>2 DEF WriteFails
    <2>9. ASSUME NEW c \in Calls, NEW limited \in BOOLEAN, ResolveProceeds(c, limited)
          PROVE  TypeOK'
      <3>1. calls[c] \in MadeCall
        BY <1>0, <2>9 DEF ResolveProceeds, CallRows, NoCall
      <3> QED BY <1>0, <2>2, <2>9, <3>1, ProceedTypes DEF ResolveProceeds
    <2>10. ASSUME NEW c \in Calls, SnowApplies(c) \/ SnowRejects(c)
           PROVE  TypeOK'
      <3>1. stories' \subseteq Story /\ target' \in [ver: Nat, val: Hashes \cup {None}]
        <4>1. calls[c] \in MadeCall /\ plans[calls[c].plan].state # "absent"
          BY <1>0, <2>10 DEF SnowApplies, SnowRejects, StoredInv, CallRows, NoCall
        <4>2. HashOf(c) \in Hashes
          BY <4>1 DEF StoredInv, HashOf, MadeCall
        <4>3. SigOf[HashOf(c)] \in Sigs
          BY <4>2 DEF Sigs
        <4> QED BY <1>0, <2>10, <4>2, <4>3 DEF SnowApplies, SnowRejects, Story
      <3> QED BY <1>0, <2>2, <2>10, <3>1 DEF SnowApplies, SnowRejects
    <2>11. ASSUME NEW f \in Foreign, NEW g \in Sigs, ForeignCreate(f, g)
           PROVE  TypeOK'
      BY <1>0, <2>2, <2>11 DEF ForeignCreate, Story
    <2>12. CASE ForeignUpdate
      BY <1>0, <2>2, <2>12 DEF ForeignUpdate
    <2>13. CASE Tick
      BY <1>0, <2>2, <2>13 DEF Tick
    <2>14. CASE Crash
      <3>1. \A c \in InFlight : calls[c] \in MadeCall
        BY <1>0 DEF InFlight, CallRows, NoCall
      <3>2. calls' \in CallRows
        BY <1>0, <2>14, <3>1 DEF Crash, CallRows, MadeCall
      <3> QED BY <1>0, <2>2, <2>14, <3>2 DEF Crash
    <2> QED BY <2>1, <2>3, <2>4, <2>5, <2>6, <2>7, <2>8, <2>9, <2>10, <2>11, <2>12, <2>13, <2>14 DEF Steps
  <1> QED BY <1>1, <1>2

-----------------------------------------------------------------------------
(* What every step leaves alone. *)

\* What has no plan yet has no confirmation, and, unless a call named it, no reservation.
NewInv ==
  \A p \in Plans : plans[p].state = "absent" =>
    confs[p] = NoConfRow /\ (Fresh(p) => keys[p] = NoKeyRow)

\* The arguments of calls; answered calls.
CallsKept ==
  \A c \in Calls : calls[c].pc # "idle" =>
    /\ calls'[c].pc # "idle"
    /\ calls'[c].plan = calls[c].plan /\ calls'[c].token = calls[c].token
    /\ calls'[c].key = calls[c].key /\ calls'[c].spent = calls[c].spent
    /\ c \notin InFlight => calls'[c] = calls[c]

\* Stored plans; a new one comes with all its rows.
PlansKept ==
  \A p \in Plans :
    /\ plans[p].state # "absent" =>
         /\ plans'[p].state # "absent" /\ plans'[p].hash = plans[p].hash
         /\ plans'[p].token = plans[p].token /\ plans'[p].expires = plans[p].expires
    /\ plans[p].state = "absent" /\ plans'[p].state # "absent" =>
         \E h \in Hashes, a \in Actors : PlanStory(p, h, a)

\* Consumed confirmations, and the absence of one that a call named.
ConfsKept ==
  \A p \in Plans :
    /\ confs[p].consumed => confs'[p].consumed
    /\ confs[p].hash = None /\ ~Fresh(p) => confs'[p].hash = None
    /\ plans'[p].state = "absent" => confs'[p] = confs[p]

\* A reservation until it expires; and those that no call named.
RowsKept ==
  \A k \in Plans :
    /\ \/ keys'[k].hash = keys[k].hash /\ keys'[k].expires = keys[k].expires
       \/ /\ ~KeyLive(keys[k], now)
          /\ keys'[k].hash \in Hashes /\ keys'[k].receipt = None /\ keys'[k].expires = now + Window
    /\ keys'[k] # keys[k] => plans'[k].state # "absent" \/ \E c \in Calls : calls'[c].key = k

\* The clock, the records, the target's version and the audit log grow.
Grows ==
  now <= now' /\ stories \subseteq stories' /\ target.ver <= target'.ver /\ audit \subseteq audit'

Kept == CallsKept /\ PlansKept /\ ConfsKept /\ RowsKept /\ Grows

\* A step that changes only one call.
LEMMA OneKept ==
  ASSUME TypeOK, NEW c \in Calls, NEW y,
         calls' = [calls EXCEPT ![c] = y],
         c \in InFlight \/ calls[c].pc = "idle",
         calls[c].pc # "idle" => /\ y.pc # "idle" /\ y.plan = calls[c].plan /\ y.token = calls[c].token
                                 /\ y.key = calls[c].key /\ y.spent = calls[c].spent
  PROVE  CallsKept /\ calls'[c] = y
  <1>1. \A d \in Calls : d # c => calls'[d] = calls[d]
    BY DEF TypeOK
  <1>2. calls'[c] = y
    BY DEF TypeOK
  <1> QED BY <1>1, <1>2 DEF CallsKept, InFlight

\* A step that changes only one plan, and a row of the stores that stays.
LEMMA TablesKept ==
  ASSUME TypeOK
  PROVE  /\ calls' = calls => CallsKept
         /\ plans' = plans => PlansKept
         /\ \A p \in Plans : \A row :
              /\ plans' = [plans EXCEPT ![p] = row]
              /\ plans[p].state # "absent" /\ row.state # "absent"
              /\ row.hash = plans[p].hash /\ row.token = plans[p].token /\ row.expires = plans[p].expires
              => PlansKept
         /\ confs' = confs => ConfsKept
         /\ keys' = keys => RowsKept
  BY DEF TypeOK, CallsKept, PlansKept, ConfsKept, RowsKept, InFlight

\* A mark or a receipt leaves the reservation as it is.
LEMMA RowMarks ==
  ASSUME NEW row \in KeyRow(Calls), NEW c \in Calls
  PROVE  /\ MarkApplyStarted(row).hash = row.hash /\ MarkApplyStarted(row).expires = row.expires
         /\ MarkApplyStarted(row).receipt = row.receipt
         /\ SaveReceipt(row, c).hash = row.hash /\ SaveReceipt(row, c).expires = row.expires
         /\ SaveReceipt(row, c).receipt = c
  BY DEF KeyRow, MarkApplyStarted, SaveReceipt

\* The way to the guard: the reservation is there for the operation or the call is answered.
LEMMA ProceedKept ==
  ASSUME TypeOK, NewInv, NEW c \in Calls, NEW x \in MadeCall, NEW limited \in BOOLEAN, Proceed(c, x, limited),
         UNCHANGED <<now, confs, wire, stories, target>>,
         plans[x.plan].state # "absent", plans[x.plan].hash \in Hashes,
         c \in InFlight \/ calls[c].pc = "idle",
         calls[c].pc # "idle" => /\ x.plan = calls[c].plan /\ x.token = calls[c].token
                                 /\ x.key = calls[c].key /\ x.spent = calls[c].spent
  PROVE  Kept
  <1>1. x.plan \in Plans /\ x.key \in Plans /\ now \in Nat
    BY DEF MadeCall, TypeOK
  <1>2. ASSUME NEW y, calls' = [calls EXCEPT ![c] = y],
               y.pc # "idle", y.plan = x.plan, y.token = x.token, y.key = x.key, y.spent = x.spent
        PROVE  CallsKept /\ calls'[c].key = x.key
    <2>1. calls[c].pc # "idle" =>
            /\ y.pc # "idle" /\ y.plan = calls[c].plan /\ y.token = calls[c].token
            /\ y.key = calls[c].key /\ y.spent = calls[c].spent
      BY <1>2
    <2>2. CallsKept /\ calls'[c] = y
      BY <1>2, <2>1, OneKept
    <2> QED BY <1>2, <2>2
  <1>3. CallsKept /\ calls'[c].key = x.key
    <2>1. CASE calls' = [calls EXCEPT ![c] = [x EXCEPT !.pc = "checking"]]
      <3> DEFINE y == [x EXCEPT !.pc = "checking"]
      <3>1. y.pc # "idle" /\ y.plan = x.plan /\ y.token = x.token /\ y.key = x.key /\ y.spent = x.spent
        BY DEF MadeCall
      <3>2. calls' = [calls EXCEPT ![c] = y]
        BY <2>1
      <3> HIDE DEF y
      <3> QED BY <1>2, <3>1, <3>2
    <2>2. ASSUME NEW code, calls' = [calls EXCEPT ![c] = Answered(x, code)]
          PROVE  CallsKept /\ calls'[c].key = x.key
      <3> DEFINE y == Answered(x, code)
      <3>1. y.pc # "idle" /\ y.plan = x.plan /\ y.token = x.token /\ y.key = x.key /\ y.spent = x.spent
        BY DEF Answered, MadeCall
      <3>2. calls' = [calls EXCEPT ![c] = y]
        BY <2>2
      <3> HIDE DEF y
      <3> QED BY <1>2, <3>1, <3>2
    <2> QED BY <2>1, <2>2 DEF Proceed
  <1>4. PlansKept
    <2>1. plans' = plans \/ plans' = [plans EXCEPT ![x.plan] = MarkPlanExpired(@)]
      BY DEF Proceed
    <2>2. plans[x.plan] \in PlanRow
      BY <1>1 DEF TypeOK
    <2>3. LET row == MarkPlanExpired(plans[x.plan])
          IN /\ row.state # "absent" /\ row.hash = plans[x.plan].hash
             /\ row.token = plans[x.plan].token /\ row.expires = plans[x.plan].expires
      BY <2>2, PlanMarks
    <2> QED BY <1>1, <2>1, <2>3, TablesKept
  <1>5. ConfsKept
    BY TablesKept
  <1>6. RowsKept
    <2>1. keys' = keys \/ keys' = [keys EXCEPT ![x.key] = CheckAndRecord(@, plans[x.plan].hash, now)]
      BY DEF Proceed
    <2>2. CASE keys' = [keys EXCEPT ![x.key] = CheckAndRecord(@, plans[x.plan].hash, now)]
      <3>1. /\ keys'[x.key] = CheckAndRecord(keys[x.key], plans[x.plan].hash, now)
            /\ \A k \in Plans : k # x.key => keys'[k] = keys[k]
        BY <1>1, <2>2 DEF TypeOK
      <3>2. \/ keys'[x.key] = keys[x.key]
            \/ /\ ~KeyLive(keys[x.key], now)
               /\ keys'[x.key].hash \in Hashes /\ keys'[x.key].receipt = None
               /\ keys'[x.key].expires = now + Window
        BY <3>1 DEF CheckAndRecord
      <3> QED BY <1>3, <3>1, <3>2 DEF RowsKept
    <2> QED BY <2>1, <2>2, TablesKept
  <1>7. Grows
    BY <1>1 DEF Proceed, Grows, TypeOK
  <1> QED BY <1>3, <1>4, <1>5, <1>6, <1>7 DEF Kept

\* An answer keeps the call's arguments.
LEMMA AnswerRow ==
  ASSUME NEW x \in MadeCall, NEW code
  PROVE  /\ Answered(x, code).pc = "done" /\ Answered(x, code).out = code
         /\ Answered(x, code).plan = x.plan /\ Answered(x, code).token = x.token
         /\ Answered(x, code).key = x.key /\ Answered(x, code).spent = x.spent
         /\ Answered(x, code).record = x.record
  BY DEF Answered, MadeCall

\* So does the record it reports.
LEMMA RecordRow ==
  ASSUME NEW x \in MadeCall, NEW r \in Calls \cup Foreign \cup {None}
  PROVE  LET z == [x EXCEPT !.record = r]
         IN  /\ z \in MadeCall /\ z.plan = x.plan /\ z.token = x.token /\ z.key = x.key
             /\ z.spent = x.spent /\ z.record = r
  BY DEF MadeCall

\* Every shape leaves that alone.
LEMMA StepKept ==
  ASSUME TypeOK, StoredInv, NewInv, [Next]_vars
  PROVE  Kept
  <1>0. /\ plans \in [Plans -> PlanRow] /\ confs \in [Plans -> ConfRow] /\ now \in Nat
        /\ keys \in [Plans -> KeyRow(Calls)] /\ target.ver \in Nat
        /\ \A c \in Calls : calls[c].pc # "idle" => calls[c] \in MadeCall
    BY DEF TypeOK, NoCall
  <1>1. CASE UNCHANGED vars
    BY <1>0, <1>1, TablesKept DEF vars, Kept, Grows
  <1>2. CASE Next
    <2>1. Steps
      BY <1>2, StepShape
    <2>2. ASSUME NEW p \in Plans, NEW h \in Hashes, NEW a \in Actors, PlanStory(p, h, a)
          PROVE  Kept
      <3>1. CallsKept
        BY <2>2, TablesKept DEF PlanStory
      <3>2. PlansKept
        <4>1. plans[p].state = "absent" /\ \A q \in Plans : q # p => plans'[q] = plans[q]
          BY <1>0, <2>2 DEF PlanStory
        <4> QED BY <2>2, <4>1 DEF PlansKept
      <3>3. plans'[p].state # "absent"
        BY <1>0, <2>2 DEF PlanStory, PutPlan
      <3>4. ConfsKept
        <4>1. confs[p] = NoConfRow /\ Fresh(p) /\ \A q \in Plans : q # p => confs'[q] = confs[q]
          BY <1>0, <2>2 DEF PlanStory, NewInv
        <4> QED BY <3>3, <4>1 DEF ConfsKept, NoConfRow
      <3>5. RowsKept
        <4>1. /\ keys'[p] = CheckAndRecord(keys[p], h, now)
              /\ \A q \in Plans : q # p => keys'[q] = keys[q]
          BY <1>0, <2>2 DEF PlanStory
        <4>2. \/ keys'[p] = keys[p]
              \/ /\ ~KeyLive(keys[p], now)
                 /\ keys'[p].hash \in Hashes /\ keys'[p].receipt = None /\ keys'[p].expires = now + Window
          BY <4>1 DEF CheckAndRecord
        <4> QED BY <3>3, <4>1, <4>2 DEF RowsKept
      <3>6. Grows
        BY <1>0, <2>2 DEF PlanStory, Grows
      <3> QED BY <3>1, <3>2, <3>4, <3>5, <3>6 DEF Kept
    <2>3. ASSUME NEW c \in Calls, NEW p \in Plans, NEW tok \in Plans, NEW k \in Plans, NEW a \in Actors,
                 NEW lockedOut \in BOOLEAN, NEW limited \in BOOLEAN,
                 Apply(c, p, tok, k, a, lockedOut, limited)
          PROVE  Kept
      <3> DEFINE x == NewCall(p, tok, k, a)
                 v == EntryVerdict(x, lockedOut)
      <3>1. x \in MadeCall
        BY NewCallRow
      <3>2. /\ calls[c].pc = "idle"
            /\ \/ /\ calls' = [calls EXCEPT ![c] = Answered(x, v)]
                  /\ audit' = audit \cup AuditOf(c, v)
                  /\ UNCHANGED <<plans, keys>>
               \/ /\ calls' = [calls EXCEPT ![c] = [x EXCEPT !.spent = confs[tok].consumed]]
                  /\ UNCHANGED <<plans, keys, audit>>
               \/ v = None /\ Proceed(c, x, limited)
            /\ UNCHANGED <<now, confs, wire, stories, target>>
        BY <2>3, ApplyShape
      <3>3. v = None => plans[x.plan].state # "absent" /\ plans[x.plan].hash \in Hashes
        <4>1. v = None => plans[x.plan].state # "absent"
          BY EntryPassed
        <4> HIDE DEF x, v
        <4> QED BY <3>1, <4>1 DEF StoredInv, MadeCall
      <3> HIDE DEF x, v
      <3>4. CASE \/ /\ calls' = [calls EXCEPT ![c] = Answered(x, v)]
                    /\ audit' = audit \cup AuditOf(c, v)
                    /\ UNCHANGED <<plans, keys>>
                 \/ /\ calls' = [calls EXCEPT ![c] = [x EXCEPT !.spent = confs[tok].consumed]]
                    /\ UNCHANGED <<plans, keys, audit>>
        <4>1. CallsKept
          BY <3>2, <3>4, OneKept
        <4>2. Grows
          BY <1>0, <3>2, <3>4 DEF Grows
        <4> QED BY <3>2, <3>4, <4>1, <4>2, TablesKept DEF Kept
      <3>5. CASE v = None /\ Proceed(c, x, limited)
        BY <3>1, <3>2, <3>3, <3>5, ProceedKept
      <3> QED BY <3>2, <3>4, <3>5
    <2>4. ASSUME NEW c \in Calls, Finishes(c)
          PROVE  Kept
      <3>1. /\ calls[c] \in MadeCall /\ c \in InFlight
            /\ calls[c].plan \in Plans /\ calls[c].token \in Plans /\ calls[c].key \in Plans
        BY <1>0, <2>4 DEF Finishes, InFlight, MadeCall
      <3>2. PICK r \in Calls \cup Foreign \cup {None}, code \in Codes \ {"UPSTREAM_ERROR"} :
              /\ calls' = [calls EXCEPT ![c] = Answered([calls[c] EXCEPT !.record = r], code)]
              /\ keys' = keys \/ Backs(c, r)
        BY <2>4 DEF Finishes
      <3>3. CallsKept /\ calls'[c].key = calls[c].key
        <4> DEFINE z == [calls[c] EXCEPT !.record = r]
                   y == Answered(z, code)
        <4>0. /\ z \in MadeCall /\ z.plan = calls[c].plan /\ z.token = calls[c].token
              /\ z.key = calls[c].key /\ z.spent = calls[c].spent
          BY <3>1, RecordRow
        <4>2. calls' = [calls EXCEPT ![c] = y]
          BY <3>2
        <4> HIDE DEF z
        <4>1. /\ y.pc # "idle" /\ y.plan = calls[c].plan /\ y.token = calls[c].token
              /\ y.key = calls[c].key /\ y.spent = calls[c].spent
          BY <4>0, AnswerRow
        <4> HIDE DEF y
        <4> QED BY <3>1, <4>1, <4>2, OneKept
      <3>4. plans[calls[c].plan].state # "absent"
        BY <3>1 DEF StoredInv
      <3>5. PlansKept
        <4>1. plans' = plans \/ plans' = [plans EXCEPT ![calls[c].plan] = MarkPlanConsumed(@)]
          BY <2>4 DEF Finishes
        <4>2. plans[calls[c].plan] \in PlanRow
          BY <1>0, <3>1
        <4>3. LET row == MarkPlanConsumed(plans[calls[c].plan])
              IN /\ row.state # "absent" /\ row.hash = plans[calls[c].plan].hash
                 /\ row.token = plans[calls[c].plan].token /\ row.expires = plans[calls[c].plan].expires
          BY <3>4, <4>2, PlanMarks
        <4> QED BY <3>1, <3>4, <4>1, <4>3, TablesKept
      <3>6. ConfsKept
        <4>1. CASE confs' = confs
          BY <4>1, TablesKept
        <4>2. CASE /\ confs[calls[c].token].hash # None
                   /\ confs' = [confs EXCEPT ![calls[c].token] = ConsumeRow(@)]
          <5>1. plans[calls[c].token].state # "absent"
            BY <3>1, <4>2 DEF NewInv, NoConfRow
          <5>2. plans'[calls[c].token].state # "absent"
            BY <3>1, <3>5, <5>1 DEF PlansKept
          <5>3. /\ confs'[calls[c].token].consumed
                /\ \A q \in Plans : q # calls[c].token => confs'[q] = confs[q]
            BY <1>0, <3>1, <4>2 DEF ConsumeRow, ConfRow
          <5> QED BY <4>2, <5>2, <5>3 DEF ConfsKept
        <4> QED BY <2>4, <4>1, <4>2 DEF Finishes
      <3>7. RowsKept
        <4>1. CASE keys' = [keys EXCEPT ![calls[c].key] = SaveReceipt(@, c)]
          <5>1. /\ keys'[calls[c].key].hash = keys[calls[c].key].hash
                /\ keys'[calls[c].key].expires = keys[calls[c].key].expires
                /\ \A q \in Plans : q # calls[c].key => keys'[q] = keys[q]
            BY <1>0, <3>1, <4>1, RowMarks
          <5> QED BY <3>3, <5>1 DEF RowsKept
        <4> QED BY <3>2, <4>1, TablesKept DEF Backs
      <3>8. Grows
        BY <1>0, <2>4 DEF Finishes, Grows
      <3> QED BY <3>3, <3>5, <3>6, <3>7, <3>8 DEF Kept
    <2>5. ASSUME NEW c \in Calls, Stops(c)
          PROVE  Kept
      <3>1. calls[c] \in MadeCall
        BY <1>0, <2>5 DEF Stops, InFlight
      <3>2. CallsKept
        <4>1. PICK code \in Codes : calls' = [calls EXCEPT ![c] = Answered(calls[c], code)]
          BY <2>5 DEF Stops, Answer
        <4> DEFINE y == Answered(calls[c], code)
        <4>2. /\ y.pc # "idle" /\ y.plan = calls[c].plan /\ y.token = calls[c].token
              /\ y.key = calls[c].key /\ y.spent = calls[c].spent
          BY <3>1, AnswerRow
        <4>3. calls' = [calls EXCEPT ![c] = y] /\ c \in InFlight
          BY <2>5, <4>1 DEF Stops
        <4> HIDE DEF y
        <4> QED BY <4>2, <4>3, OneKept
      <3> QED BY <1>0, <2>5, <3>2, TablesKept DEF Stops, Kept, Grows
    <2>6. ASSUME NEW c \in Calls, Sends(c) \/ WriteFails(c)
          PROVE  Kept
      <3>1. calls[c] \in MadeCall /\ c \in InFlight /\ calls[c].key \in Plans
        BY <1>0, <2>6 DEF Sends, WriteFails, InFlight, MadeCall
      <3>2. CallsKept /\ calls'[c].key = calls[c].key
        <4>1. PICK pc \in {"writing", "recovering"} : calls' = [calls EXCEPT ![c] = [calls[c] EXCEPT !.pc = pc]]
          BY <2>6 DEF Sends, WriteFails
        <4> DEFINE y == [calls[c] EXCEPT !.pc = pc]
        <4>2. /\ y.pc # "idle" /\ y.plan = calls[c].plan /\ y.token = calls[c].token
              /\ y.key = calls[c].key /\ y.spent = calls[c].spent
          BY <3>1 DEF MadeCall
        <4>3. calls' = [calls EXCEPT ![c] = y]
          BY <4>1
        <4> HIDE DEF y
        <4> QED BY <3>1, <4>2, <4>3, OneKept
      <3>3. RowsKept
        <4>1. CASE keys' = [keys EXCEPT ![calls[c].key] = MarkApplyStarted(@)]
          <5>1. /\ keys'[calls[c].key].hash = keys[calls[c].key].hash
                /\ keys'[calls[c].key].expires = keys[calls[c].key].expires
                /\ \A q \in Plans : q # calls[c].key => keys'[q] = keys[q]
            BY <1>0, <3>1, <4>1, RowMarks
          <5> QED BY <3>2, <5>1 DEF RowsKept
        <4> QED BY <2>6, <4>1, TablesKept DEF Sends, WriteFails
      <3> QED BY <1>0, <2>6, <3>2, <3>3, TablesKept DEF Sends, WriteFails, Kept, Grows
    <2>7. ASSUME NEW c \in Calls, NEW limited \in BOOLEAN, ResolveProceeds(c, limited)
          PROVE  Kept
      <3>1. calls[c] \in MadeCall /\ c \in InFlight /\ calls[c].plan \in Plans
        BY <1>0, <2>7 DEF ResolveProceeds, InFlight, MadeCall
      <3>2. plans[calls[c].plan].state # "absent" /\ plans[calls[c].plan].hash \in Hashes
        BY <3>1 DEF StoredInv
      <3> QED BY <2>7, <3>1, <3>2, ProceedKept DEF ResolveProceeds
    <2>8. ASSUME NEW c \in Calls, SnowApplies(c) \/ SnowRejects(c)
          PROVE  Kept
      BY <1>0, <2>8, TablesKept DEF SnowApplies, SnowRejects, Kept, Grows
    <2>9. ASSUME NEW f \in Foreign, NEW g \in Sigs, ForeignCreate(f, g)
          PROVE  Kept
      BY <1>0, <2>9, TablesKept DEF ForeignCreate, Kept, Grows
    <2>10. CASE ForeignUpdate \/ Tick
      BY <1>0, <2>10, TablesKept DEF ForeignUpdate, Tick, Kept, Grows
    <2>11. CASE Crash
      <3>1. \A c \in Calls : /\ c \in InFlight => calls'[c] = [calls[c] EXCEPT !.pc = "dropped"]
                             /\ c \notin InFlight => calls'[c] = calls[c]
        BY <2>11 DEF Crash, TypeOK
      <3>2. CallsKept
        <4>1. ASSUME NEW c \in InFlight, NEW y, y = [calls[c] EXCEPT !.pc = "dropped"]
              PROVE  /\ y.pc = "dropped" /\ y.plan = calls[c].plan /\ y.token = calls[c].token
                     /\ y.key = calls[c].key /\ y.spent = calls[c].spent
          BY <1>0, <4>1 DEF MadeCall, InFlight
        <4>2. \A c \in InFlight :
                /\ calls'[c].pc = "dropped" /\ calls'[c].plan = calls[c].plan /\ calls'[c].token = calls[c].token
                /\ calls'[c].key = calls[c].key /\ calls'[c].spent = calls[c].spent
          BY <3>1, <4>1 DEF InFlight
        <4> QED BY <3>1, <4>2 DEF CallsKept
      <3> QED BY <1>0, <2>11, <3>2, TablesKept DEF Crash, Kept, Grows
    <2> QED BY <2>1, <2>2, <2>3, <2>4, <2>5, <2>6, <2>7, <2>8, <2>9, <2>10, <2>11 DEF Steps
  <1> QED BY <1>1, <1>2

-----------------------------------------------------------------------------
(* The type invariant. *)

TypeInv == TypeOK /\ StoredInv /\ NewInv

\* Who may be under way, and whose write may be out, after a step.
LEMMA NewFlights ==
  ASSUME TypeInv, [Next]_vars, NEW c \in Calls, c \in InFlight' \/ wire'[c] # "none"
  PROVE  /\ calls'[c].pc # "idle"
         /\ \/ c \in InFlight \/ wire[c] # "none"
            \/ /\ calls[c].pc = "idle" /\ plans[calls'[c].plan].state # "absent"
               /\ calls'[c].plan \in Plans
  <1>0. /\ calls \in [Calls -> {NoCall} \cup MadeCall]
        /\ wire \in [Calls -> {"none", "posted", "applied", "rejected"}]
    BY DEF TypeInv, TypeOK
  <1>1. CallsKept
    BY StepKept DEF TypeInv, Kept
  <1>2. CASE calls[c].pc # "idle"
    <2>1. calls'[c].pc # "idle" /\ (c \notin InFlight => calls'[c] = calls[c])
      BY <1>1, <1>2 DEF CallsKept
    <2>2. c \in InFlight \/ wire[c] # "none"
      <3>1. CASE c \in InFlight'
        BY <2>1, <3>1 DEF InFlight
      <3>2. CASE wire'[c] # "none" /\ wire'[c] # wire[c]
        <4>1. Steps
          BY <3>2, StepShape DEF vars, TypeInv
        <4>2. ASSUME NEW d \in Calls, Sends(d)
              PROVE  c \in InFlight
          BY <1>0, <3>2, <4>2 DEF Sends, InFlight
        <4>3. ASSUME NEW d \in Calls, SnowApplies(d) \/ SnowRejects(d)
              PROVE  wire[c] # "none"
          BY <1>0, <3>2, <4>3 DEF SnowApplies, SnowRejects
        <4>4. ASSUME \/ \E p \in Plans, h \in Hashes, a \in Actors : PlanStory(p, h, a)
                     \/ \E d \in Calls : Finishes(d) \/ Stops(d) \/ WriteFails(d)
                     \/ \E d \in Calls, limited \in BOOLEAN : ResolveProceeds(d, limited)
              PROVE  wire' = wire
          BY <4>4 DEF PlanStory, Finishes, Stops, WriteFails, ResolveProceeds
        <4>6. ASSUME NEW d \in Calls, NEW p \in Plans, NEW tok \in Plans, NEW k \in Plans, NEW a \in Actors,
                     NEW lockedOut \in BOOLEAN, NEW limited \in BOOLEAN,
                     Apply(d, p, tok, k, a, lockedOut, limited)
              PROVE  wire' = wire
          BY <4>6 DEF Apply
        <4>5. ASSUME \/ \E f \in Foreign, g \in Sigs : ForeignCreate(f, g)
                     \/ ForeignUpdate \/ Tick \/ Crash
              PROVE  wire' = wire
          BY <4>5 DEF ForeignCreate, ForeignUpdate, Tick, Crash
        <4> QED BY <3>2, <4>1, <4>2, <4>3, <4>4, <4>5, <4>6 DEF Steps
      <3> QED BY <3>1, <3>2
    <2> QED BY <2>1, <2>2
  <1>3. CASE calls[c].pc = "idle"
    <2>1. c \notin InFlight /\ wire[c] = "none"
      BY <1>0, <1>3 DEF InFlight, TypeInv, StoredInv
    <2>2. calls' # calls \/ wire' # wire
      BY <2>1 DEF InFlight
    <2>3. Steps
      BY <2>2, StepShape DEF vars, TypeInv
    <2>4. PICK d \in Calls, p \in Plans, tok \in Plans, k \in Plans, a \in Actors,
               lockedOut \in BOOLEAN, limited \in BOOLEAN :
            Apply(d, p, tok, k, a, lockedOut, limited)
      <3>1. ASSUME NEW d \in Calls, NEW y, calls' = [calls EXCEPT ![d] = y], calls[d].pc # "idle"
            PROVE  calls'[c] = calls[c]
        BY <1>0, <1>3, <3>1
      <3>2. ASSUME NEW d \in Calls, NEW limited \in BOOLEAN, ResolveProceeds(d, limited)
            PROVE  calls'[c] = calls[c] /\ wire' = wire
        BY <1>0, <1>3, <3>2 DEF ResolveProceeds, Proceed
      <3>3. ASSUME NEW d \in Calls, Finishes(d) \/ Stops(d)
            PROVE  calls'[c] = calls[c] /\ wire' = wire
        BY <1>0, <1>3, <3>3 DEF Finishes, Stops, Answer, InFlight
      <3>4. ASSUME NEW d \in Calls, Sends(d) \/ WriteFails(d) \/ SnowApplies(d) \/ SnowRejects(d)
            PROVE  calls'[c] = calls[c] /\ wire'[c] = wire[c]
        BY <1>0, <1>3, <2>1, <3>4 DEF Sends, WriteFails, SnowApplies, SnowRejects
      <3>5. ASSUME \/ \E p \in Plans, h \in Hashes, a \in Actors : PlanStory(p, h, a)
                   \/ \E f \in Foreign, g \in Sigs : ForeignCreate(f, g)
                   \/ ForeignUpdate \/ Tick \/ Crash
            PROVE  calls'[c] = calls[c] /\ wire'[c] = wire[c]
        BY <1>0, <2>1, <3>5 DEF PlanStory, ForeignCreate, ForeignUpdate, Tick, Crash
      <3>6. calls'[c] # calls[c] \/ wire'[c] # wire[c]
        BY <2>1 DEF InFlight
      <3> QED BY <2>3, <3>2, <3>3, <3>4, <3>5, <3>6 DEF Steps
    <2> DEFINE x == NewCall(p, tok, k, a)
               v == EntryVerdict(x, lockedOut)
    <2>5. /\ wire' = wire
          /\ \/ v # None /\ calls' = [calls EXCEPT ![d] = Answered(x, v)]
             \/ v = None /\ calls' = [calls EXCEPT ![d] = [x EXCEPT !.spent = confs[tok].consumed]]
             \/ v = None /\ Proceed(d, x, limited)
      BY <2>4, ApplyShape DEF TypeInv
    <2>6. x \in MadeCall
      BY NewCallRow
    <2>7. v = None => plans[x.plan].state # "absent"
      BY EntryPassed DEF TypeInv
    <2> HIDE DEF x, v
    <2>8. c = d /\ c \in InFlight'
      <3>1. calls'[c] # calls[c]
        BY <2>1, <2>5 DEF InFlight
      <3> QED BY <1>0, <2>1, <2>5, <3>1 DEF Proceed
    <2>9. v = None /\ calls'[c].plan = x.plan /\ x.plan \in Plans
      <3>1. Answered(x, v).pc = "done"
        BY <2>6 DEF Answered, MadeCall
      <3>2. v = None
        BY <1>0, <2>5, <2>8, <3>1 DEF InFlight
      <3>3. \/ calls' = [calls EXCEPT ![d] = [x EXCEPT !.spent = confs[tok].consumed]]
            \/ calls' = [calls EXCEPT ![d] = [x EXCEPT !.pc = "checking"]]
            \/ \E code : calls' = [calls EXCEPT ![d] = Answered(x, code)]
        BY <2>5, <3>2 DEF Proceed
      <3>4. \/ calls'[c] = [x EXCEPT !.spent = confs[tok].consumed]
            \/ calls'[c] = [x EXCEPT !.pc = "checking"]
            \/ \E code : calls'[c] = Answered(x, code)
        BY <1>0, <2>8, <3>3
      <3> QED BY <2>6, <3>2, <3>4, AnswerRow DEF MadeCall
    <2> QED BY <1>3, <2>7, <2>8, <2>9 DEF InFlight
  <1> QED BY <1>2, <1>3

\* It is inductive.
LEMMA TypeStep ==
  ASSUME TypeInv, [Next]_vars
  PROVE  TypeInv'
  <1>1. TypeOK' /\ Kept
    BY StepType, StepKept DEF TypeInv
  <1>2. ASSUME NEW p \in Plans, plans'[p].state # "absent"
        PROVE  plans'[p].hash \in Hashes
    <2>1. CASE plans[p].state # "absent"
      BY <1>1, <2>1 DEF Kept, PlansKept, TypeInv, StoredInv
    <2>2. CASE plans[p].state = "absent"
      <3>1. PICK h \in Hashes, a \in Actors : PlanStory(p, h, a)
        BY <1>1, <1>2, <2>2 DEF Kept, PlansKept
      <3>2. plans'[p] = PutPlan(h, target.ver, now)
        BY <3>1 DEF PlanStory, TypeInv, TypeOK
      <3> QED BY <3>2 DEF PutPlan
    <2> QED BY <2>1, <2>2
  <1>3. ASSUME NEW c \in Calls, c \in InFlight' \/ wire'[c] # "none"
        PROVE  calls'[c].pc # "idle" /\ plans'[calls'[c].plan].state # "absent"
    <2>1. calls'[c].pc # "idle"
      BY <1>3, NewFlights
    <2>2. CASE c \in InFlight \/ wire[c] # "none"
      <3>1. calls[c].pc # "idle" /\ plans[calls[c].plan].state # "absent"
        BY <2>2 DEF TypeInv, StoredInv
      <3>2. calls'[c].plan = calls[c].plan /\ calls[c].plan \in Plans
        BY <1>1, <3>1 DEF Kept, CallsKept, TypeInv, TypeOK, NoCall, MadeCall
      <3> QED BY <1>1, <2>1, <3>1, <3>2 DEF Kept, PlansKept
    <2>3. CASE /\ plans[calls'[c].plan].state # "absent"
               /\ calls'[c].plan \in Plans
      BY <1>1, <2>1, <2>3 DEF Kept, PlansKept
    <2> QED BY <1>3, <2>2, <2>3, NewFlights
  <1>4. ASSUME NEW p \in Plans, plans'[p].state = "absent"
        PROVE  confs'[p] = NoConfRow /\ (Fresh(p)' => keys'[p] = NoKeyRow)
    <2>1. plans[p].state = "absent"
      BY <1>1, <1>4 DEF Kept, PlansKept
    <2>2. confs'[p] = NoConfRow
      BY <1>1, <1>4, <2>1 DEF Kept, ConfsKept, TypeInv, NewInv
    <2>3. ASSUME Fresh(p)'
          PROVE  keys'[p] = NoKeyRow
      <3>1. \A c \in Calls : calls[c].pc = "idle" => calls[c] = NoCall
        BY DEF TypeInv, TypeOK, MadeCall
      <3>2. Fresh(p)
        BY <1>1, <2>3, <3>1 DEF Fresh, Kept, CallsKept, NoCall
      <3>3. keys'[p] = keys[p]
        BY <1>1, <1>4, <2>3 DEF Kept, RowsKept, Fresh
      <3> QED BY <2>1, <3>2, <3>3 DEF TypeInv, NewInv
    <2> QED BY <2>2, <2>3
  <1>5. StoredInv'
    BY <1>2, <1>3 DEF StoredInv
  <1>6. NewInv'
    BY <1>4 DEF NewInv
  <1> QED BY <1>1, <1>5, <1>6 DEF TypeInv

LEMMA TypeInvInit == Init => TypeInv
  <1>1. Init => StoredInv /\ NewInv
    BY DEF Init, StoredInv, NewInv, InFlight, NoPlanRow, NoCall
  <1> QED BY <1>1, InitType DEF TypeInv

LEMMA TypeHolds == Spec => []TypeInv
  <1> QED BY TypeInvInit, TypeStep, PTL DEF Spec

\* Every reachable state has the declared types.
THEOREM TypeCorrect == Spec => []TypeOK
  <1>1. TypeInv => TypeOK
    BY DEF TypeInv
  <1> QED BY <1>1, TypeHolds, PTL

-----------------------------------------------------------------------------
(* The moves of one call. *)

\* A call sends its write when its checks pass and has an answer when it is done; what it
\* took for consumed is.
CallInv ==
  \A c \in Calls :
    /\ calls[c].pc \in {"idle", "resolving", "checking"} => wire[c] = "none"
    /\ calls[c].out # None => calls[c].pc = "done"
    /\ calls[c].spent => confs[calls[c].token].consumed

Begins(c) ==
  /\ calls[c].pc = "idle" /\ calls'[c].pc \in {"resolving", "checking", "done"}
  /\ calls'[c].out # None => calls'[c].pc = "done" /\ calls'[c].out # "UPSTREAM_ERROR"
  /\ calls'[c].spent => confs[calls'[c].token].consumed
  /\ wire'[c] = wire[c] /\ confs' = confs

Ends(c) ==
  /\ c \in InFlight /\ calls'[c].pc \in {"done", "dropped"} /\ wire'[c] = wire[c]
  /\ calls'[c].out # None => calls'[c].pc = "done"
  /\ calls'[c].out = "UPSTREAM_ERROR" => calls[c].pc = "recovering" /\ Recovery(c) = "Proceed"

GoesOn(c) ==
  /\ calls'[c].out = calls[c].out
  /\ \/ /\ calls[c].pc = "resolving" /\ calls'[c].pc = "checking" /\ wire'[c] = wire[c]
        /\ Recovery(c) = "Proceed"
     \/ /\ calls[c].pc = "checking" /\ calls'[c].pc = "writing" /\ wire'[c] = "posted"
        /\ calls[c].spent \/ confs[calls[c].token].hash # None
        /\ tool = "update" => target.ver = plans[calls[c].plan].token
     \/ calls[c].pc = "writing" /\ calls'[c].pc = "recovering" /\ wire'[c] = wire[c]

Served(c) ==
  /\ wire[c] = "posted" /\ wire'[c] \in {"applied", "rejected"} /\ calls'[c] = calls[c]
  /\ wire'[c] = "applied" => load.late \/ calls[c].pc = "writing"

Moves(c) ==
  (calls'[c] = calls[c] /\ wire'[c] = wire[c]) \/ Begins(c) \/ Ends(c) \/ GoesOn(c) \/ Served(c)

\* The way to the guard ends the call, or goes on.
LEMMA ProceedMoves ==
  ASSUME NEW c \in Calls, NEW x \in MadeCall, NEW limited \in BOOLEAN, Proceed(c, x, limited),
         TypeOK
  PROVE  /\ \A d \in Calls : d # c => calls'[d] = calls[d]
         /\ calls'[c].token = x.token /\ calls'[c].plan = x.plan /\ calls'[c].spent = x.spent
         /\ \/ calls'[c].pc = "checking" /\ calls'[c].out = x.out
            \/ calls'[c].pc = "done" /\ calls'[c].out # "UPSTREAM_ERROR"
  <1>1. CASE calls' = [calls EXCEPT ![c] = [x EXCEPT !.pc = "checking"]]
    BY <1>1 DEF MadeCall, TypeOK
  <1>2. ASSUME NEW code \in {"PLAN_EXPIRED", "RATE_LIMITED", "IDEMPOTENCY_CONFLICT", "replay",
                             "CONFIRMATION_INVALID"},
               calls' = [calls EXCEPT ![c] = Answered(x, code)]
        PROVE  /\ \A d \in Calls : d # c => calls'[d] = calls[d]
               /\ calls'[c].token = x.token /\ calls'[c].plan = x.plan /\ calls'[c].spent = x.spent
               /\ calls'[c].pc = "done" /\ calls'[c].out # "UPSTREAM_ERROR"
    <2>1. calls'[c] = Answered(x, code) /\ \A d \in Calls : d # c => calls'[d] = calls[d]
      BY <1>2 DEF TypeOK
    <2> QED BY <2>1, AnswerRow
  <1>3. \/ calls' = [calls EXCEPT ![c] = [x EXCEPT !.pc = "checking"]]
        \/ \E code \in {"PLAN_EXPIRED", "RATE_LIMITED", "IDEMPOTENCY_CONFLICT", "replay",
                        "CONFIRMATION_INVALID"} : calls' = [calls EXCEPT ![c] = Answered(x, code)]
    BY DEF Proceed
  <1> QED BY <1>1, <1>2, <1>3

\* Every step moves every call in one of these ways.
LEMMA StepMoves ==
  ASSUME TypeInv, CallInv, [Next]_vars, NEW c \in Calls
  PROVE  Moves(c)
  <1>0. /\ calls \in [Calls -> {NoCall} \cup MadeCall] /\ TypeOK
        /\ wire \in [Calls -> {"none", "posted", "applied", "rejected"}]
        /\ \A d \in Calls : calls[d].pc # "idle" => calls[d] \in MadeCall
        /\ \A d \in InFlight : calls[d] \in MadeCall /\ calls[d].out = None
    BY DEF TypeInv, TypeOK, NoCall, InFlight, CallInv
  <1>3. None # "UPSTREAM_ERROR"
    BY DEF Codes
  <1>1. CASE UNCHANGED vars
    BY <1>1 DEF vars, Moves
  <1>2. CASE Next
    <2>1. Steps
      BY <1>2, StepShape DEF TypeInv
    <2>2. ASSUME \/ \E p \in Plans, h \in Hashes, a \in Actors : PlanStory(p, h, a)
                 \/ \E f \in Foreign, g \in Sigs : ForeignCreate(f, g)
                 \/ ForeignUpdate \/ Tick
          PROVE  Moves(c)
      BY <2>2 DEF PlanStory, ForeignCreate, ForeignUpdate, Tick, Moves
    <2>3. ASSUME NEW d \in Calls, NEW p \in Plans, NEW tok \in Plans, NEW k \in Plans, NEW a \in Actors,
                 NEW lockedOut \in BOOLEAN, NEW limited \in BOOLEAN,
                 Apply(d, p, tok, k, a, lockedOut, limited)
          PROVE  Moves(c)
      <3> DEFINE x == NewCall(p, tok, k, a)
                 v == EntryVerdict(x, lockedOut)
      <3>1. /\ calls[d].pc = "idle" /\ v # "UPSTREAM_ERROR"
            /\ \/ v # None /\ calls' = [calls EXCEPT ![d] = Answered(x, v)]
               \/ v = None /\ calls' = [calls EXCEPT ![d] = [x EXCEPT !.spent = confs[tok].consumed]]
               \/ v = None /\ Proceed(d, x, limited)
            /\ UNCHANGED <<now, confs, wire, stories, target>>
        BY <1>0, <1>3, <2>3, ApplyShape
      <3>2. x \in MadeCall /\ x.token = tok /\ ~x.spent
        BY NewCallRow
      <3>3. v = None => plans[x.plan].state # "absent"
        BY <1>0, EntryPassed
      <3>4. x.pc = "resolving" /\ x.out = None
        BY NewCallRow
      <3> HIDE DEF x, v
      <3>5. CASE v # None /\ calls' = [calls EXCEPT ![d] = Answered(x, v)]
        <4>1. calls'[d] = Answered(x, v) /\ \A e \in Calls : e # d => calls'[e] = calls[e]
          BY <1>0, <3>5
        <4>2. calls'[d].pc = "done" /\ calls'[d].out = v /\ ~calls'[d].spent
          BY <3>2, <4>1, AnswerRow
        <4> QED BY <3>1, <4>1, <4>2 DEF Moves, Begins
      <3>6. CASE v = None /\ calls' = [calls EXCEPT ![d] = [x EXCEPT !.spent = confs[tok].consumed]]
        <4>1. /\ calls'[d] = [x EXCEPT !.spent = confs[tok].consumed]
              /\ \A e \in Calls : e # d => calls'[e] = calls[e]
          BY <1>0, <3>6
        <4>2. /\ calls'[d].pc = "resolving" /\ calls'[d].out = None /\ calls'[d].token = tok
              /\ calls'[d].spent = confs[tok].consumed /\ calls'[d].plan = x.plan
          BY <3>2, <3>4, <4>1 DEF MadeCall
        <4> QED BY <3>1, <3>3, <3>6, <4>1, <4>2 DEF Moves, Begins
      <3>7. CASE v = None /\ Proceed(d, x, limited)
        <4>1. /\ \A e \in Calls : e # d => calls'[e] = calls[e]
              /\ calls'[d].plan = x.plan /\ ~calls'[d].spent
              /\ \/ calls'[d].pc = "checking" /\ calls'[d].out = x.out
                 \/ calls'[d].pc = "done" /\ calls'[d].out # "UPSTREAM_ERROR"
          BY <1>0, <3>2, <3>7, ProceedMoves
        <4> QED BY <3>1, <3>3, <3>4, <3>7, <4>1 DEF Moves, Begins
      <3> QED BY <3>1, <3>5, <3>6, <3>7
    <2>4. ASSUME NEW d \in Calls, Finishes(d)
          PROVE  Moves(c)
      <3>1. calls[d] \in MadeCall /\ d \in InFlight
        BY <1>0, <2>4 DEF Finishes, InFlight
      <3>2. PICK r \in Calls \cup Foreign \cup {None}, code \in Codes \ {"UPSTREAM_ERROR"} :
              calls' = [calls EXCEPT ![d] = Answered([calls[d] EXCEPT !.record = r], code)]
        BY <2>4 DEF Finishes
      <3>3. [calls[d] EXCEPT !.record = r] \in MadeCall
        BY <3>1, RecordRow
      <3>4. /\ calls'[d] = Answered([calls[d] EXCEPT !.record = r], code)
            /\ \A e \in Calls : e # d => calls'[e] = calls[e]
        BY <1>0, <3>2
      <3>5. calls'[d].pc = "done" /\ calls'[d].out = code
        BY <3>3, <3>4, AnswerRow
      <3> QED BY <2>4, <3>1, <3>4, <3>5 DEF Finishes, Moves, Ends
    <2>5. ASSUME NEW d \in Calls, Stops(d)
          PROVE  Moves(c)
      <3>1. calls[d] \in MadeCall /\ d \in InFlight
        BY <1>0, <2>5 DEF Stops
      <3>2. PICK code \in Codes :
              /\ calls' = [calls EXCEPT ![d] = Answered(calls[d], code)]
              /\ code = "UPSTREAM_ERROR" => calls[d].pc = "recovering" /\ Recovery(d) = "Proceed"
        BY <2>5 DEF Stops, Answer
      <3>3. calls'[d] = Answered(calls[d], code) /\ \A e \in Calls : e # d => calls'[e] = calls[e]
        BY <1>0, <3>2
      <3>4. calls'[d].pc = "done" /\ calls'[d].out = code
        BY <3>1, <3>3, AnswerRow
      <3> QED BY <2>5, <3>1, <3>2, <3>3, <3>4 DEF Stops, Moves, Ends
    <2>6. ASSUME NEW d \in Calls, Sends(d)
          PROVE  Moves(c)
      <3>1. calls[d] \in MadeCall
        BY <1>0, <2>6 DEF Sends
      <3>2. calls'[d].pc = "writing" /\ calls'[d].out = calls[d].out
        BY <1>0, <2>6, <3>1 DEF Sends, MadeCall
      <3>3. wire'[d] = "posted" /\ \A e \in Calls : e # d => calls'[e] = calls[e] /\ wire'[e] = wire[e]
        BY <1>0, <2>6 DEF Sends
      <3> QED BY <2>6, <3>2, <3>3 DEF Sends, Moves, GoesOn
    <2>7. ASSUME NEW d \in Calls, WriteFails(d)
          PROVE  Moves(c)
      <3>1. calls[d] \in MadeCall
        BY <1>0, <2>7 DEF WriteFails
      <3>2. calls'[d].pc = "recovering" /\ calls'[d].out = calls[d].out
        BY <1>0, <2>7, <3>1 DEF WriteFails, MadeCall
      <3>3. \A e \in Calls : e # d => calls'[e] = calls[e]
        BY <1>0, <2>7 DEF WriteFails
      <3> QED BY <2>7, <3>2, <3>3 DEF WriteFails, Moves, GoesOn
    <2>8. ASSUME NEW d \in Calls, NEW limited \in BOOLEAN, ResolveProceeds(d, limited)
          PROVE  Moves(c)
      <3>1. calls[d] \in MadeCall /\ d \in InFlight
        BY <1>0, <2>8 DEF ResolveProceeds, InFlight
      <3>2. /\ \A e \in Calls : e # d => calls'[e] = calls[e]
            /\ \/ calls'[d].pc = "checking" /\ calls'[d].out = calls[d].out
               \/ calls'[d].pc = "done" /\ calls'[d].out # "UPSTREAM_ERROR"
        BY <1>0, <2>8, <3>1, ProceedMoves DEF ResolveProceeds
      <3> QED BY <2>8, <3>1, <3>2 DEF ResolveProceeds, Moves, GoesOn, Ends
    <2>9. ASSUME NEW d \in Calls, SnowApplies(d) \/ SnowRejects(d)
          PROVE  Moves(c)
      BY <1>0, <2>9 DEF SnowApplies, SnowRejects, Moves, Served
    <2>10. CASE Crash
      <3>1. /\ c \in InFlight => calls'[c] = [calls[c] EXCEPT !.pc = "dropped"]
            /\ c \notin InFlight => calls'[c] = calls[c]
            /\ wire' = wire
        BY <1>0, <2>10 DEF Crash
      <3>2. c \in InFlight => calls'[c].pc = "dropped" /\ calls'[c].out = None
        BY <1>0, <3>1 DEF MadeCall
      <3> QED BY <1>3, <3>1, <3>2 DEF Moves, Ends
    <2> QED BY <2>1, <2>2, <2>3, <2>4, <2>5, <2>6, <2>7, <2>8, <2>9, <2>10 DEF Steps
  <1> QED BY <1>1, <1>2

-----------------------------------------------------------------------------
(* UPSTREAM_ERROR is never the answer to a write that was carried out. *)

\* A stored plan was made in the past, for the target as it was then.
PlanInv ==
  \A p \in Plans : plans[p].state # "absent" =>
    plans[p].expires <= now + PlanTTL /\ plans[p].token <= target.ver

\* A served write can be found by the lookup.
EffectInv ==
  \A c \in Calls : wire[c] = "applied" =>
    /\ tool = "create" => \E s \in CreateMatches(c) : s.by = c
    /\ tool = "update" => target.ver > plans[calls[c].plan].token

FindInv == TypeInv /\ CallInv /\ PlanInv /\ EffectInv /\ IsFiniteSet(stories)

\* A write is served in one way.
LEMMA ServedBy ==
  ASSUME TypeInv, [Next]_vars, NEW c \in Calls, wire'[c] = "applied", wire[c] # "applied"
  PROVE  SnowApplies(c)
  <1>0. wire \in [Calls -> {"none", "posted", "applied", "rejected"}]
    BY DEF TypeInv, TypeOK
  <1>1. Steps
    BY StepShape DEF TypeInv, vars
  <1>2. ASSUME NEW d \in Calls, Sends(d) \/ SnowApplies(d) \/ SnowRejects(d)
        PROVE  SnowApplies(c)
    BY <1>0, <1>2 DEF Sends, SnowApplies, SnowRejects
  <1>3. ASSUME \/ \E p \in Plans, h \in Hashes, a \in Actors : PlanStory(p, h, a)
               \/ \E d \in Calls : Finishes(d) \/ Stops(d) \/ WriteFails(d)
               \/ \E d \in Calls, limited \in BOOLEAN : ResolveProceeds(d, limited)
        PROVE  wire' = wire
    BY <1>3 DEF PlanStory, Finishes, Stops, WriteFails, ResolveProceeds
  <1>4. ASSUME NEW d \in Calls, NEW p \in Plans, NEW tok \in Plans, NEW k \in Plans, NEW a \in Actors,
               NEW lockedOut \in BOOLEAN, NEW limited \in BOOLEAN,
               Apply(d, p, tok, k, a, lockedOut, limited)
        PROVE  wire' = wire
    BY <1>4 DEF Apply
  <1>5. ASSUME \/ \E f \in Foreign, g \in Sigs : ForeignCreate(f, g)
               \/ ForeignUpdate \/ Tick \/ Crash
        PROVE  wire' = wire
    BY <1>5 DEF ForeignCreate, ForeignUpdate, Tick, Crash
  <1> QED BY <1>1, <1>2, <1>3, <1>4, <1>5 DEF Steps

\* Records are created one at a time.
LEMMA StoriesFinite ==
  ASSUME TypeInv, [Next]_vars, IsFiniteSet(stories)
  PROVE  IsFiniteSet(stories')
  <1>1. \A s : IsFiniteSet(stories \cup {s})
    BY FS_AddElement
  <1>2. CASE UNCHANGED vars
    BY <1>2 DEF vars
  <1>3. CASE Next
    <2>1. Steps
      BY <1>3, StepShape DEF TypeInv
    <2>2. ASSUME NEW c \in Calls, SnowApplies(c) \/ SnowRejects(c)
          PROVE  IsFiniteSet(stories')
      BY <1>1, <2>2 DEF SnowApplies, SnowRejects
    <2>3. ASSUME NEW f \in Foreign, NEW g \in Sigs, ForeignCreate(f, g)
          PROVE  IsFiniteSet(stories')
      BY <1>1, <2>3 DEF ForeignCreate
    <2>4. ASSUME \/ \E p \in Plans, h \in Hashes, a \in Actors : PlanStory(p, h, a)
                 \/ \E d \in Calls : Finishes(d) \/ Stops(d) \/ Sends(d) \/ WriteFails(d)
                 \/ \E d \in Calls, limited \in BOOLEAN : ResolveProceeds(d, limited)
          PROVE  stories' = stories
      BY <2>4 DEF PlanStory, Finishes, Stops, Sends, WriteFails, ResolveProceeds
    <2>5. ASSUME NEW d \in Calls, NEW p \in Plans, NEW tok \in Plans, NEW k \in Plans, NEW a \in Actors,
                 NEW lockedOut \in BOOLEAN, NEW limited \in BOOLEAN,
                 Apply(d, p, tok, k, a, lockedOut, limited)
          PROVE  stories' = stories
      BY <2>5 DEF Apply
    <2>6. ASSUME ForeignUpdate \/ Tick \/ Crash
          PROVE  stories' = stories
      BY <2>6 DEF ForeignUpdate, Tick, Crash
    <2> QED BY <2>1, <2>2, <2>3, <2>4, <2>5, <2>6 DEF Steps
  <1> QED BY <1>2, <1>3

\* The call's arguments have their types.
LEMMA CallRow ==
  ASSUME TypeOK, NEW c \in Calls, calls[c].pc # "idle"
  PROVE  /\ calls[c] \in MadeCall /\ calls[c].plan \in Plans /\ calls[c].token \in Plans
         /\ calls[c].key \in Plans
  BY DEF TypeOK, NoCall, MadeCall

\* What the lookup compares, of a call with a stored plan, stays.
LEMMA PlanOfCall ==
  ASSUME TypeInv, Kept, NEW c \in Calls, calls[c].pc # "idle", plans[calls[c].plan].state # "absent"
  PROVE  /\ plans'[calls'[c].plan].hash = plans[calls[c].plan].hash
         /\ plans'[calls'[c].plan].token = plans[calls[c].plan].token
         /\ plans'[calls'[c].plan].expires = plans[calls[c].plan].expires
         /\ HashOf(c)' = HashOf(c) /\ HashOf(c) \in Hashes
         /\ CreateMatches(c) \subseteq CreateMatches(c)'
  <1>1. calls'[c].plan = calls[c].plan /\ calls[c].plan \in Plans
    BY CallRow DEF Kept, CallsKept, TypeInv
  <1>2. LET p == calls[c].plan
        IN /\ plans'[p].hash = plans[p].hash /\ plans'[p].token = plans[p].token
           /\ plans'[p].expires = plans[p].expires /\ plans[p].hash \in Hashes
    BY <1>1 DEF Kept, PlansKept, TypeInv, StoredInv
  <1>3. HashOf(c)' = HashOf(c)
    BY <1>1, <1>2 DEF HashOf
  <1>4. CreateMatches(c) \subseteq CreateMatches(c)'
    BY <1>1, <1>2, <1>3 DEF CreateMatches, Kept, Grows
  <1> QED BY <1>1, <1>2, <1>3, <1>4 DEF HashOf

LEMMA FindStep ==
  ASSUME FindInv, [Next]_vars
  PROVE  FindInv'
  <1>0. TypeInv' /\ Kept /\ IsFiniteSet(stories') /\ tool' = tool
    BY TypeStep, StepKept, StoriesFinite, StepShape DEF FindInv, TypeInv, vars
  <1>1. CallInv'
    <2> SUFFICES ASSUME NEW c \in Calls
                 PROVE  /\ calls'[c].pc \in {"idle", "resolving", "checking"} => wire'[c] = "none"
                        /\ calls'[c].out # None => calls'[c].pc = "done"
                        /\ calls'[c].spent => confs'[calls'[c].token].consumed
      BY DEF CallInv
    <2>1. Moves(c)
      BY StepMoves DEF FindInv
    <2>2. CallInv
      BY DEF FindInv
    <2>3. calls'[c].pc \in {"idle", "resolving", "checking"} => wire'[c] = "none"
      BY <2>1, <2>2 DEF Moves, Begins, Ends, GoesOn, Served, CallInv
    <2>4. calls'[c].out # None => calls'[c].pc = "done"
      BY <2>1, <2>2 DEF Moves, Begins, Ends, GoesOn, Served, CallInv, InFlight
    <2>5. calls'[c].spent => confs'[calls'[c].token].consumed
      <3>1. CASE calls[c].pc # "idle"
        <4>1. calls'[c].token = calls[c].token /\ calls'[c].spent = calls[c].spent /\ calls[c].token \in Plans
          BY <1>0, <3>1, CallRow DEF Kept, CallsKept, FindInv, TypeInv
        <4> QED BY <1>0, <2>2, <4>1 DEF Kept, ConfsKept, CallInv
      <3>2. CASE calls[c].pc = "idle"
        <4>1. calls[c] = NoCall
          BY <3>2 DEF FindInv, TypeInv, TypeOK, MadeCall
        <4>2. ~calls[c].spent
          BY <4>1 DEF NoCall
        <4>3. calls'[c] = calls[c] \/ Begins(c)
          BY <2>1, <3>2, <2>2 DEF Moves, Ends, GoesOn, Served, InFlight
        <4> QED BY <4>2, <4>3 DEF Begins
      <3> QED BY <3>1, <3>2
    <2> QED BY <2>3, <2>4, <2>5
  <1>2. PlanInv'
    <2> SUFFICES ASSUME NEW p \in Plans, plans'[p].state # "absent"
                 PROVE  plans'[p].expires <= now' + PlanTTL /\ plans'[p].token <= target'.ver
      BY DEF PlanInv
    <2>0. /\ now \in Nat /\ now' \in Nat /\ target.ver \in Nat /\ target'.ver \in Nat /\ PlanTTL \in Nat
          /\ plans[p] \in PlanRow /\ plans'[p] \in PlanRow /\ now <= now' /\ target.ver <= target'.ver
      BY <1>0 DEF FindInv, TypeInv, TypeOK, Kept, Grows
    <2>1. CASE plans[p].state # "absent"
      BY <1>0, <2>0, <2>1 DEF FindInv, PlanInv, Kept, PlansKept, PlanRow
    <2>2. CASE plans[p].state = "absent"
      <3>1. PICK h \in Hashes, a \in Actors : PlanStory(p, h, a)
        BY <1>0, <2>2 DEF Kept, PlansKept
      <3>2. plans'[p] = PutPlan(h, target.ver, now)
        BY <3>1 DEF PlanStory, FindInv, TypeInv, TypeOK
      <3> QED BY <2>0, <3>2 DEF PutPlan
    <2> QED BY <2>1, <2>2
  <1>3. EffectInv'
    <2> SUFFICES ASSUME NEW c \in Calls, wire'[c] = "applied"
                 PROVE  /\ tool = "create" => \E s \in CreateMatches(c)' : s.by = c
                        /\ tool = "update" => target'.ver > plans'[calls'[c].plan].token
      BY <1>0 DEF EffectInv
    <2>1. wire[c] # "none" /\ (wire[c] # "applied" => SnowApplies(c))
      BY ServedBy DEF SnowApplies, FindInv
    <2>2. calls[c].pc # "idle" /\ plans[calls[c].plan].state # "absent" /\ calls[c].plan \in Plans
      BY <2>1, CallRow DEF FindInv, TypeInv, StoredInv
    <2> DEFINE row == plans[calls[c].plan]
    <2>3. /\ row \in PlanRow /\ row.expires <= now + PlanTTL /\ row.token <= target.ver
          /\ now \in Nat /\ PlanTTL \in Nat /\ Skew \in Nat \ {0} /\ target.ver \in Nat /\ target'.ver \in Nat
      BY <1>0, <2>2 DEF FindInv, TypeInv, TypeOK, PlanInv
    <2>4. row.expires \in Nat /\ row.token \in Nat
      BY <2>3 DEF PlanRow
    <2>5. /\ CreateMatches(c) \subseteq CreateMatches(c)' /\ HashOf(c)' = HashOf(c)
          /\ plans'[calls'[c].plan].token = row.token /\ plans'[calls'[c].plan].expires = row.expires
      BY <1>0, <2>2, PlanOfCall DEF FindInv
    <2>6. CASE wire[c] = "applied"
      <3>1. target.ver <= target'.ver
        BY <1>0 DEF Kept, Grows
      <3>2. tool = "update" => target.ver > row.token
        BY <2>6 DEF FindInv, EffectInv
      <3>3. tool = "create" => \E s \in CreateMatches(c) : s.by = c
        BY <2>6 DEF FindInv, EffectInv
      <3> HIDE DEF row
      <3> QED BY <2>3, <2>4, <2>5, <3>1, <3>2, <3>3
    <2>7. CASE SnowApplies(c)
      <3> DEFINE s == [by |-> c, sig |-> SigOf[HashOf(c)], at |-> now]
      <3>1. tool = "create" => s \in stories'
        BY <2>7 DEF SnowApplies
      <3>2. s.by = c /\ s.sig = SigOf[HashOf(c)] /\ s.at = now
        OBVIOUS
      <3>3. now + PlanTTL + Skew > row.expires
        <4> HIDE DEF row
        <4> QED BY <2>3, <2>4
      <3>4. tool = "update" => target'.ver = target.ver + 1
        BY <2>7 DEF SnowApplies
      <3> HIDE DEF s, row
      <3>5. tool = "create" => s \in CreateMatches(c)'
        BY <2>5, <3>1, <3>2, <3>3 DEF CreateMatches
      <3> QED BY <2>3, <2>4, <2>5, <3>2, <3>4, <3>5
    <2> QED BY <2>1, <2>6, <2>7
  <1> QED BY <1>0, <1>1, <1>2, <1>3 DEF FindInv

LEMMA FindInit == Init => FindInv
  <1> SUFFICES ASSUME Init PROVE FindInv
    OBVIOUS
  <1>1. IsFiniteSet({})
    BY FS_EmptySet
  <1>2. CallInv /\ PlanInv /\ EffectInv
    BY DEF Init, CallInv, PlanInv, EffectInv, NoCall, NoPlanRow
  <1> QED BY <1>1, <1>2, TypeInvInit DEF FindInv, Init

LEMMA FindHolds == Spec => []FindInv
  <1> QED BY FindInit, FindStep, PTL DEF Spec

\* What was served is not taken for missing.
LEMMA FoundAgain ==
  ASSUME FindInv, NEW c \in Calls, wire[c] = "applied"
  PROVE  Recovery(c) # "Proceed"
  <1>0. tool \in {"create", "update"}
    BY DEF FindInv, TypeInv, TypeOK
  <1>1. CASE tool = "create"
    <2>1. CreateMatches(c) # {}
      BY <1>1 DEF FindInv, EffectInv
    <2>2. IsFiniteSet(CreateMatches(c))
      BY FS_Subset DEF FindInv, CreateMatches
    <2>3. Cardinality(CreateMatches(c)) # 0
      BY <2>1, <2>2, FS_EmptySet
    <2> QED BY <1>1, <2>3 DEF Recovery
  <1>2. CASE tool = "update"
    <2>1. target.ver > plans[calls[c].plan].token
      BY <1>2 DEF FindInv, EffectInv
    <2>2. calls[c].plan \in Plans
      BY CallRow DEF FindInv, TypeInv, StoredInv
    <2>3. target.ver \in Nat /\ plans[calls[c].plan].token \in Nat
      BY <2>2 DEF FindInv, TypeInv, TypeOK, PlanRow
    <2>4. target.ver # plans[calls[c].plan].token
      BY <2>1, <2>3
    <2> QED BY <1>2, <2>4 DEF Recovery
  <1> QED BY <1>0, <1>1, <1>2

\* The caller is told to try again only when nothing was written.
THEOREM ErrorsTrue == Spec => []ErrorMeansUnwritten
  <1>1. Init => ErrorMeansUnwritten
    BY DEF Init, ErrorMeansUnwritten
  <1>2. FindInv /\ ErrorMeansUnwritten /\ [Next]_vars => ErrorMeansUnwritten'
    <2> SUFFICES ASSUME FindInv, ErrorMeansUnwritten, [Next]_vars, ~load'.late, NEW c \in Calls,
                        calls'[c].out = "UPSTREAM_ERROR", wire'[c] = "applied"
                 PROVE  FALSE
      BY DEF ErrorMeansUnwritten
    <2>0. load' = load /\ None # "UPSTREAM_ERROR"
      BY StepShape DEF FindInv, TypeInv, vars, Codes
    <2>1. Moves(c) /\ CallInv
      BY StepMoves DEF FindInv
    <2>2. wire[c] = "applied" => ~(calls[c].out = "UPSTREAM_ERROR") /\ Recovery(c) # "Proceed"
      BY <2>0, FoundAgain DEF ErrorMeansUnwritten
    <2> QED BY <2>0, <2>1, <2>2 DEF Moves, Begins, Ends, GoesOn, Served, CallInv
  <1> QED BY <1>1, <1>2, FindHolds, PTL DEF Spec

-----------------------------------------------------------------------------
(* Clients who wait for each answer: one plan, one write. *)

\* A call begins in one way, and alone.
LEMMA Beginner ==
  ASSUME TypeInv, [Next]_vars, NEW c \in Calls, Begins(c)
  PROVE  /\ \E p, tok, k \in Plans, a \in Actors, lockedOut, limited \in BOOLEAN :
              Apply(c, p, tok, k, a, lockedOut, limited)
         /\ \A d \in Calls : d # c => calls'[d] = calls[d]
  <1>0. /\ calls \in [Calls -> {NoCall} \cup MadeCall] /\ TypeOK
        /\ calls[c].pc = "idle" /\ calls'[c] # calls[c]
    BY DEF TypeInv, TypeOK, Begins
  <1>1. Steps
    BY <1>0, StepShape DEF vars
  <1>2. ASSUME NEW d \in Calls, Finishes(d) \/ Stops(d) \/ Sends(d) \/ WriteFails(d)
        PROVE  calls'[c] = calls[c]
    BY <1>0, <1>2 DEF Finishes, Stops, Answer, InFlight, Sends, WriteFails
  <1>3. ASSUME NEW d \in Calls, NEW limited \in BOOLEAN, ResolveProceeds(d, limited)
        PROVE  calls'[c] = calls[c]
    BY <1>0, <1>3 DEF ResolveProceeds, Proceed
  <1>4. ASSUME \/ \E d \in Calls : SnowApplies(d) \/ SnowRejects(d)
               \/ \E p \in Plans, h \in Hashes, a \in Actors : PlanStory(p, h, a)
               \/ \E f \in Foreign, g \in Sigs : ForeignCreate(f, g)
               \/ ForeignUpdate \/ Tick
        PROVE  calls' = calls
    BY <1>4 DEF SnowApplies, SnowRejects, PlanStory, ForeignCreate, ForeignUpdate, Tick
  <1>5. ASSUME Crash
        PROVE  calls'[c] = calls[c]
    BY <1>0, <1>5 DEF Crash, InFlight
  <1>6. ASSUME NEW d \in Calls, NEW p \in Plans, NEW tok \in Plans, NEW k \in Plans, NEW a \in Actors,
               NEW lockedOut \in BOOLEAN, NEW limited \in BOOLEAN,
               Apply(d, p, tok, k, a, lockedOut, limited)
        PROVE  \A e \in Calls : e # d => calls'[e] = calls[e]
    <2>1. \E y : calls' = [calls EXCEPT ![d] = y]
      <3>1. LET x == NewCall(p, tok, k, a)
                v == EntryVerdict(x, lockedOut)
            IN \/ calls' = [calls EXCEPT ![d] = Answered(x, v)]
               \/ calls' = [calls EXCEPT ![d] = [x EXCEPT !.spent = confs[tok].consumed]]
               \/ Proceed(d, x, limited)
        BY <1>0, <1>6, ApplyShape
      <3>2. ASSUME NEW x, Proceed(d, x, limited)
            PROVE  \E y : calls' = [calls EXCEPT ![d] = y]
        BY <3>2 DEF Proceed
      <3> QED BY <3>1, <3>2
    <2> QED BY <1>0, <2>1
  <1>7. PICK d \in Calls, p \in Plans, tok \in Plans, k \in Plans, a \in Actors,
             lockedOut \in BOOLEAN, limited \in BOOLEAN :
          Apply(d, p, tok, k, a, lockedOut, limited)
    BY <1>0, <1>1, <1>2, <1>3, <1>4, <1>5 DEF Steps
  <1>8. d = c
    BY <1>0, <1>6, <1>7
  <1> QED BY <1>6, <1>7, <1>8

\* Clients who wait have one call under way.
SoloInv ==
  IsFiniteSet(InFlight) /\ (load.atOnce = 1 => \A c, d \in InFlight : c = d)

LEMMA SoloStep ==
  ASSUME TypeInv, CallInv, SoloInv, [Next]_vars
  PROVE  SoloInv'
  <1>0. load' = load /\ load.atOnce \in Nat
    BY StepShape DEF TypeInv, TypeOK, vars
  <1>1. \A c \in Calls : c \in InFlight' /\ c \notin InFlight => Begins(c)
    <2>1. \A c \in Calls : Moves(c)
      BY StepMoves
    <2> QED BY <2>1 DEF Moves, Ends, GoesOn, Served, InFlight
  <1>2. CASE \E c \in Calls : Begins(c)
    <2>1. PICK c \in Calls : Begins(c)
      BY <1>2
    <2>2. PICK p \in Plans, tok \in Plans, k \in Plans, a \in Actors,
               lockedOut \in BOOLEAN, limited \in BOOLEAN :
            Apply(c, p, tok, k, a, lockedOut, limited)
      BY <2>1, Beginner
    <2>3. InFlight' \subseteq InFlight \cup {c}
      BY <2>1, Beginner DEF InFlight
    <2>4. Cardinality(InFlight) < load.atOnce
      BY <2>2 DEF Apply
    <2>5. IsFiniteSet(InFlight \cup {c})
      BY FS_AddElement DEF SoloInv
    <2>6. IsFiniteSet(InFlight')
      BY <2>3, <2>5, FS_Subset
    <2>7. load.atOnce = 1 => InFlight = {}
      <3>1. Cardinality(InFlight) \in Nat
        BY FS_CardinalityType DEF SoloInv
      <3>2. load.atOnce = 1 => Cardinality(InFlight) = 0
        BY <2>4, <3>1
      <3> QED BY <3>2, FS_EmptySet DEF SoloInv
    <2> QED BY <1>0, <2>3, <2>6, <2>7 DEF SoloInv
  <1>3. CASE ~\E c \in Calls : Begins(c)
    <2>1. InFlight' \subseteq InFlight
      BY <1>1, <1>3 DEF InFlight
    <2>2. IsFiniteSet(InFlight')
      BY <2>1, FS_Subset DEF SoloInv
    <2> QED BY <1>0, <2>1, <2>2 DEF SoloInv
  <1> QED BY <1>2, <1>3

\* The reservation made with a plan is there, and lives at least as long.
OwnKeyInv ==
  \A p \in Plans : plans[p].state # "absent" =>
    keys[p].hash # None /\ plans[p].expires <= keys[p].expires

LEMMA OwnKeyStep ==
  ASSUME PlanTTL <= Window, TypeInv, PlanInv, OwnKeyInv, [Next]_vars
  PROVE  OwnKeyInv'
  <1> SUFFICES ASSUME NEW p \in Plans, plans'[p].state # "absent"
               PROVE  keys'[p].hash # None /\ plans'[p].expires <= keys'[p].expires
    BY DEF OwnKeyInv
  <1>0. /\ Kept /\ now \in Nat /\ PlanTTL \in Nat /\ Window \in Nat /\ plans[p] \in PlanRow
        /\ keys[p] \in KeyRow(Calls) /\ plans[p].expires \in Nat /\ keys[p].expires \in Nat
    BY StepKept DEF TypeInv, TypeOK, PlanRow, KeyRow
  <1>1. CASE plans[p].state # "absent"
    <2>1. /\ plans'[p].expires = plans[p].expires /\ plans[p].expires <= now + PlanTTL
          /\ keys[p].hash # None /\ plans[p].expires <= keys[p].expires
      BY <1>0, <1>1 DEF Kept, PlansKept, PlanInv, OwnKeyInv
    <2>2. \/ keys'[p].hash = keys[p].hash /\ keys'[p].expires = keys[p].expires
          \/ keys'[p].hash \in Hashes /\ keys'[p].expires = now + Window
      BY <1>0 DEF Kept, RowsKept
    <2> QED BY <1>0, <2>1, <2>2
  <1>2. CASE plans[p].state = "absent"
    <2>1. PICK h \in Hashes, a \in Actors : PlanStory(p, h, a)
      BY <1>0, <1>2 DEF Kept, PlansKept
    <2>2. keys[p] = NoKeyRow
      BY <1>2, <2>1 DEF PlanStory, TypeInv, NewInv
    <2>3. keys'[p] = CheckAndRecord(keys[p], h, now) /\ plans'[p] = PutPlan(h, target.ver, now)
      BY <2>1 DEF PlanStory, TypeInv, TypeOK
    <2> QED BY <1>0, <2>2, <2>3 DEF CheckAndRecord, PutPlan, KeyLive, NoKeyRow
  <1> QED BY <1>1, <1>2

\* Two calls with the same plan and the plan's own key.
SamePlan(c, d) ==
  calls[c].plan = calls[d].plan /\ calls[c].key = calls[c].plan /\ calls[d].key = calls[d].plan

\* Once a call's write was served, no other call with its plan is about to write: one that
\* waits for the guard has no confirmation, or comes too late for the target.
OnceInv ==
  load.atOnce = 1 /\ ~load.late =>
    \A c, d \in Calls :
      c # d /\ wire[c] = "applied" /\ SamePlan(c, d) =>
        /\ wire[d] # "applied" /\ calls[d].pc # "writing"
        /\ tool = "create" /\ calls[d].pc = "checking" =>
             ~calls[d].spent /\ confs[calls[d].token].hash = None

\* A new call with its plan's own key goes past the lookup only without a confirmation.
LEMMA BeginsLate ==
  ASSUME TypeInv, OwnKeyInv, [Next]_vars, NEW c \in Calls, Begins(c), calls'[c].pc = "checking",
         calls'[c].key = calls'[c].plan
  PROVE  ~calls'[c].spent /\ confs[calls'[c].token].hash = None
  <1>1. PICK p \in Plans, tok \in Plans, k \in Plans, a \in Actors,
             lockedOut \in BOOLEAN, limited \in BOOLEAN :
          Apply(c, p, tok, k, a, lockedOut, limited)
    BY Beginner
  <1> DEFINE x == NewCall(p, tok, k, a)
             v == EntryVerdict(x, lockedOut)
  <1>2. \/ calls' = [calls EXCEPT ![c] = Answered(x, v)]
        \/ calls' = [calls EXCEPT ![c] = [x EXCEPT !.spent = confs[tok].consumed]]
        \/ /\ ~(KeyLive(keys[k], now) /\ confs[tok].hash # None)
           /\ v = None /\ Proceed(c, x, limited)
    BY <1>1, ApplyShape DEF TypeInv
  <1>3. /\ x \in MadeCall /\ x.plan = p /\ x.token = tok /\ x.key = k /\ ~x.spent
        /\ x.pc = "resolving"
    BY NewCallRow
  <1>4. x.expired <=> PlanExpired(plans[p], now)
    BY DEF NewCall, NoCall
  <1>5. v = None => plans[x.plan].state # "absent"
    BY EntryPassed DEF TypeInv
  <1> HIDE DEF x, v
  <1>6. /\ ~(KeyLive(keys[k], now) /\ confs[tok].hash # None)
        /\ v = None /\ Proceed(c, x, limited)
    <2>1. CASE calls' = [calls EXCEPT ![c] = Answered(x, v)]
      <3>1. calls'[c].pc = "done"
        BY <1>3, <2>1, AnswerRow DEF TypeInv, TypeOK
      <3> QED BY <3>1
    <2>2. CASE calls' = [calls EXCEPT ![c] = [x EXCEPT !.spent = confs[tok].consumed]]
      <3>1. calls'[c].pc = "resolving"
        BY <1>3, <2>2 DEF TypeInv, TypeOK, MadeCall
      <3> QED BY <3>1
    <2> QED BY <1>2, <2>1, <2>2
  <1>7. calls' = [calls EXCEPT ![c] = [x EXCEPT !.pc = "checking"]] /\ ~x.expired
    <2>1. ASSUME NEW code, calls' = [calls EXCEPT ![c] = Answered(x, code)]
          PROVE  FALSE
      <3>1. calls'[c].pc = "done"
        BY <1>3, <2>1, AnswerRow DEF TypeInv, TypeOK
      <3> QED BY <3>1
    <2>2. \/ calls' = [calls EXCEPT ![c] = [x EXCEPT !.pc = "checking"]] /\ ~x.expired
          \/ \E code : calls' = [calls EXCEPT ![c] = Answered(x, code)]
      <3>1. None # "PLAN_EXPIRED"
        BY DEF Codes
      <3>2. CASE x.expired
        BY <1>6, <3>1, <3>2 DEF Proceed
      <3>3. CASE ~x.expired
        BY <1>6, <3>3 DEF Proceed
      <3> QED BY <3>2, <3>3
    <2> QED BY <2>1, <2>2
  <1>8. /\ calls'[c].plan = p /\ calls'[c].token = tok /\ calls'[c].key = k /\ ~calls'[c].spent
    BY <1>3, <1>7 DEF TypeInv, TypeOK, MadeCall
  <1>9. KeyLive(keys[p], now)
    <2>1. plans[p].expires > now
      <3>1. plans[p].expires \in Nat /\ now \in Nat
        BY DEF TypeInv, TypeOK, PlanRow
      <3> QED BY <1>4, <1>7, <3>1 DEF PlanExpired
    <2>2. keys[p].hash # None /\ plans[p].expires <= keys[p].expires
      BY <1>3, <1>5, <1>6 DEF OwnKeyInv
    <2>3. plans[p].expires \in Nat /\ now \in Nat /\ keys[p].expires \in Nat
      BY DEF TypeInv, TypeOK, PlanRow, KeyRow
    <2> QED BY <2>1, <2>2, <2>3 DEF KeyLive
  <1> QED BY <1>6, <1>8, <1>9

\* The lookup answers two calls with one plan alike.
LEMMA SameLookup ==
  ASSUME NEW c \in Calls, NEW d \in Calls, calls[c].plan = calls[d].plan
  PROVE  (Recovery(c) = "Proceed") <=> (Recovery(d) = "Proceed")
  <1>1. CreateMatches(c) = CreateMatches(d) /\ HashOf(c) = HashOf(d)
    BY DEF CreateMatches, HashOf
  <1> QED BY <1>1 DEF Recovery

LEMMA OnceStep ==
  ASSUME FindInv, SoloInv, OwnKeyInv, OnceInv, [Next]_vars
  PROVE  OnceInv'
  <1> SUFFICES ASSUME load'.atOnce = 1, ~load'.late, NEW c \in Calls, NEW d \in Calls,
                      c # d, wire'[c] = "applied", SamePlan(c, d)'
               PROVE  /\ wire'[d] # "applied" /\ calls'[d].pc # "writing"
                      /\ tool' = "create" /\ calls'[d].pc = "checking" =>
                           ~calls'[d].spent /\ confs'[calls'[d].token].hash = None
    BY DEF OnceInv
  <1>0. /\ load' = load /\ tool' = tool /\ Kept /\ TypeOK /\ TypeInv /\ CallInv /\ Moves(c) /\ Moves(d)
        /\ tool \in {"create", "update"}
        /\ \A e \in Calls : calls[e].pc = "idle" => calls[e] = NoCall
    BY StepShape, StepKept, StepMoves DEF FindInv, TypeInv, TypeOK, vars, MadeCall
  <1>1. wire[c] # "none" /\ calls[c].pc # "idle" /\ calls[c].plan \in Plans
    <2>1. wire[c] # "none"
      BY <1>0, ServedBy DEF SnowApplies
    <2> QED BY <1>0, <2>1, CallRow DEF TypeInv, StoredInv
  <1>2. calls[d].pc # "idle" => SamePlan(c, d)
    BY <1>0, <1>1 DEF SamePlan, Kept, CallsKept
  <1>3. CASE wire[c] = "applied"
    <2>1. CASE calls[d].pc = "idle"
      <3>1. wire[d] = "none"
        BY <1>0, <2>1 DEF CallInv
      <3>2. CASE calls'[d] = calls[d]
        BY <1>0, <2>1, <3>1, <3>2 DEF Moves, Begins, Ends, GoesOn, Served, InFlight
      <3>3. CASE Begins(d)
        <4>1. calls'[d].pc = "checking" => ~calls'[d].spent /\ confs[calls'[d].token].hash = None
          BY <1>0, <3>3, BeginsLate DEF SamePlan
        <4> QED BY <3>1, <3>3, <4>1 DEF Begins
      <3> QED BY <1>0, <2>1, <3>1, <3>2, <3>3 DEF Moves, Ends, GoesOn, Served, InFlight
    <2>2. CASE calls[d].pc # "idle"
      <3>1. /\ wire[d] # "applied" /\ calls[d].pc # "writing"
            /\ tool = "create" /\ calls[d].pc = "checking" =>
                 ~calls[d].spent /\ confs[calls[d].token].hash = None
        BY <1>0, <1>2, <1>3, <2>2 DEF OnceInv
      <3>2. Recovery(d) # "Proceed"
        BY <1>2, <1>3, <2>2, FoundAgain, SameLookup DEF SamePlan
      <3>3. ~(calls[d].pc = "checking" /\ calls'[d].pc = "writing")
        <4>1. CASE tool = "create"
          BY <1>0, <3>1, <4>1 DEF Moves, Begins, Ends, GoesOn, Served
        <4>2. CASE tool = "update"
          <5>1. target.ver > plans[calls[c].plan].token
            BY <1>3, <4>2 DEF FindInv, EffectInv
          <5>2. target.ver \in Nat /\ plans[calls[c].plan].token \in Nat
            BY <1>0, <1>1 DEF TypeOK, PlanRow
          <5>3. target.ver # plans[calls[d].plan].token
            BY <1>2, <2>2, <5>1, <5>2 DEF SamePlan
          <5> QED BY <1>0, <4>2, <5>3 DEF Moves, Begins, Ends, GoesOn, Served
        <4> QED BY <1>0, <4>1, <4>2
      <3>4. CASE calls'[d] = calls[d] /\ wire'[d] = wire[d]
        <4>1. calls[d].token \in Plans /\ ~Fresh(calls[d].token)
          BY <1>0, <2>2, CallRow DEF Fresh
        <4>2. confs[calls[d].token].hash = None => confs'[calls[d].token].hash = None
          BY <1>0, <4>1 DEF Kept, ConfsKept
        <4> QED BY <1>0, <3>1, <3>4, <4>2
      <3>5. CASE Ends(d)
        BY <3>1, <3>5 DEF Ends
      <3>6. CASE GoesOn(d)
        BY <3>1, <3>2, <3>3, <3>6 DEF GoesOn
      <3>7. Served(d) => wire'[d] # "applied" /\ calls'[d] = calls[d]
        BY <1>0, <3>1 DEF Served
      <3>8. CASE Served(d)
        <4>1. calls[d].pc # "checking"
          BY <1>0, <3>8 DEF Served, CallInv
        <4> QED BY <3>1, <3>7, <3>8, <4>1
      <3> QED BY <1>0, <2>2, <3>4, <3>5, <3>6, <3>8 DEF Moves, Begins
    <2> QED BY <2>1, <2>2
  <1>4. CASE wire[c] # "applied"
    <2>1. SnowApplies(c)
      BY <1>0, <1>4, ServedBy
    <2>2. c \in InFlight /\ calls' = calls /\ wire'[d] = wire[d] /\ calls[c].pc = "writing"
      BY <1>0, <2>1 DEF SnowApplies, InFlight, TypeOK
    <2>3. d \notin InFlight
      BY <1>0, <2>2 DEF SoloInv
    <2>4. wire[d] # "applied"
      <3>1. SUFFICES ASSUME wire[d] = "applied" PROVE FALSE
        OBVIOUS
      <3>2. calls[d].pc # "idle" /\ SamePlan(d, c)
        BY <1>0, <1>2, <3>1 DEF CallInv, SamePlan
      <3> QED BY <1>0, <2>2, <3>1, <3>2 DEF OnceInv
    <2> QED BY <2>2, <2>3, <2>4 DEF InFlight
  <1> QED BY <1>3, <1>4

\* One plan under its own key is written once, by clients who wait for each answer, as
\* long as a reservation lives no shorter than a plan: the lookup finds what an earlier
\* attempt left, and the reservation makes every later attempt ask for it.
THEOREM WritesOnce ==
  ASSUME PlanTTL <= Window
  PROVE  Spec => []WrittenOnce
  <1> DEFINE IInv == FindInv /\ SoloInv /\ OwnKeyInv /\ OnceInv
  <1>1. Init => IInv
    <2>1. Init => SoloInv
      <3>1. Init => InFlight = {}
        BY DEF Init, InFlight, NoCall
      <3> QED BY <3>1, FS_EmptySet DEF SoloInv
    <2>2. Init => OwnKeyInv /\ OnceInv
      BY DEF Init, OwnKeyInv, OnceInv, NoPlanRow
    <2> QED BY <2>1, <2>2, FindInit
  <1>2. IInv /\ [Next]_vars => IInv'
    <2> SUFFICES ASSUME IInv, [Next]_vars PROVE IInv'
      OBVIOUS
    <2>1. FindInv' /\ OnceInv'
      BY FindStep, OnceStep
    <2>2. SoloInv' /\ OwnKeyInv'
      BY SoloStep, OwnKeyStep DEF FindInv
    <2> QED BY <2>1, <2>2
  <1>3. IInv => WrittenOnce
    BY DEF WrittenOnce, OnceInv, SamePlan
  <1> QED BY <1>1, <1>2, <1>3, PTL DEF Spec

-----------------------------------------------------------------------------
(* Receipts are true. *)

\* A call under way holds a live reservation of its own operation.
RowInv ==
  \A c \in InFlight : KeyLive(keys[calls[c].key], now) /\ keys[calls[c].key].hash = HashOf(c)

\* Only an answered call has left a receipt.
ReceiptInv == \A k \in Plans, c \in Calls : keys[k].receipt = c => calls[c].pc = "done"

\* Only time passing can end a reservation that calls under way use.
LEMMA TimePasses ==
  ASSUME TypeInv, [Next]_vars
  PROVE  now' = now \/ Tick
  <1>1. CASE UNCHANGED vars
    BY <1>1 DEF vars
  <1>2. CASE Next
    <2>1. Steps
      BY <1>2, StepShape DEF TypeInv
    <2>2. ASSUME NEW d \in Calls, NEW p \in Plans, NEW tok \in Plans, NEW k \in Plans, NEW a \in Actors,
                 NEW lockedOut \in BOOLEAN, NEW limited \in BOOLEAN,
                 Apply(d, p, tok, k, a, lockedOut, limited)
          PROVE  now' = now
      BY <2>2 DEF Apply
    <2>3. ASSUME NEW d \in Calls, Finishes(d) \/ Stops(d) \/ Sends(d) \/ WriteFails(d)
          PROVE  now' = now
      BY <2>3 DEF Finishes, Stops, Sends, WriteFails
    <2>4. ASSUME \/ \E d \in Calls : SnowApplies(d) \/ SnowRejects(d)
                 \/ \E d \in Calls, limited \in BOOLEAN : ResolveProceeds(d, limited)
                 \/ \E p \in Plans, h \in Hashes, a \in Actors : PlanStory(p, h, a)
                 \/ \E f \in Foreign, g \in Sigs : ForeignCreate(f, g)
                 \/ ForeignUpdate \/ Crash
          PROVE  now' = now
      BY <2>4 DEF SnowApplies, SnowRejects, ResolveProceeds, PlanStory, ForeignCreate, ForeignUpdate, Crash
    <2> QED BY <2>1, <2>2, <2>3, <2>4 DEF Steps
  <1> QED BY <1>1, <1>2

\* A new call that goes on has its reservation.
LEMMA BeginsReserved ==
  ASSUME Window > 0, TypeInv, [Next]_vars, NEW c \in Calls, Begins(c), calls'[c].pc # "done"
  PROVE  /\ calls'[c].key \in Plans /\ KeyLive(keys'[calls'[c].key], now)
         /\ keys'[calls'[c].key].hash = HashOf(c)'
  <1>1. PICK p \in Plans, tok \in Plans, k \in Plans, a \in Actors,
             lockedOut \in BOOLEAN, limited \in BOOLEAN :
          Apply(c, p, tok, k, a, lockedOut, limited)
    BY Beginner
  <1> DEFINE x == NewCall(p, tok, k, a)
             v == EntryVerdict(x, lockedOut)
  <1>2. \/ calls' = [calls EXCEPT ![c] = Answered(x, v)]
        \/ /\ v = None /\ KeyLive(keys[k], now) /\ UNCHANGED <<plans, keys>>
           /\ calls' = [calls EXCEPT ![c] = [x EXCEPT !.spent = confs[tok].consumed]]
        \/ v = None /\ Proceed(c, x, limited)
    BY <1>1, ApplyShape DEF TypeInv
  <1>3. x \in MadeCall /\ x.plan = p /\ x.key = k
    BY NewCallRow
  <1>4. v = None => /\ plans[x.plan].state # "absent"
                    /\ KeyLive(keys[x.key], now) => keys[x.key].hash = plans[x.plan].hash
    BY EntryPassed DEF TypeInv
  <1>5. /\ calls \in [Calls -> {NoCall} \cup MadeCall] /\ keys \in [Plans -> KeyRow(Calls)]
        /\ now \in Nat /\ Window \in Nat
    BY DEF TypeInv, TypeOK
  <1> HIDE DEF x, v
  <1>6. ASSUME NEW code, calls' = [calls EXCEPT ![c] = Answered(x, code)]
        PROVE  FALSE
    <2>1. calls'[c].pc = "done"
      BY <1>3, <1>5, <1>6, AnswerRow
    <2> QED BY <2>1
  <1>7. v = None /\ plans[p].hash \in Hashes /\ plans'[p].hash = plans[p].hash
    <2>1. v = None
      BY <1>2, <1>6
    <2>2. Kept
      BY StepKept DEF TypeInv
    <2> QED BY <1>3, <1>4, <2>1, <2>2 DEF Kept, PlansKept, TypeInv, StoredInv
  <1>8. calls'[c].plan = p /\ calls'[c].key = k
    <2>1. CASE calls' = [calls EXCEPT ![c] = [x EXCEPT !.spent = confs[tok].consumed]]
      BY <1>3, <1>5, <2>1 DEF MadeCall
    <2>2. CASE Proceed(c, x, limited)
      <3>1. \/ calls' = [calls EXCEPT ![c] = [x EXCEPT !.pc = "checking"]]
            \/ \E code : calls' = [calls EXCEPT ![c] = Answered(x, code)]
        BY <2>2 DEF Proceed
      <3> QED BY <1>3, <1>5, <1>6, <3>1 DEF MadeCall
    <2> QED BY <1>2, <1>6, <2>1, <2>2
  <1>9. KeyLive(keys'[k], now) /\ keys'[k].hash = plans[p].hash
    <2>1. CASE KeyLive(keys[k], now) /\ UNCHANGED <<plans, keys>>
      BY <1>3, <1>4, <1>7, <2>1
    <2>2. CASE Proceed(c, x, limited)
      <3>1. keys' = keys \/ keys' = [keys EXCEPT ![k] = CheckAndRecord(@, plans[p].hash, now)]
        BY <1>3, <2>2 DEF Proceed
      <3>2. CASE KeyLive(keys[k], now)
        <4>1. keys'[k] = keys[k]
          BY <1>5, <3>1, <3>2 DEF CheckAndRecord
        <4> QED BY <1>3, <1>4, <1>7, <3>2, <4>1
      <3>3. CASE ~KeyLive(keys[k], now) /\ (x.expired \/ limited)
        <4>1. None # "PLAN_EXPIRED" /\ None # "RATE_LIMITED"
          BY DEF Codes
        <4>2. \E code : calls' = [calls EXCEPT ![c] = Answered(x, code)]
          BY <2>2, <3>3, <4>1 DEF Proceed
        <4> QED BY <1>6, <4>2
      <3>4. CASE ~KeyLive(keys[k], now) /\ ~(x.expired \/ limited)
        <4>1. keys' = [keys EXCEPT ![k] = CheckAndRecord(@, plans[p].hash, now)]
          BY <1>3, <2>2, <3>4 DEF Proceed
        <4>2. keys'[k].hash = plans[p].hash /\ keys'[k].expires = now + Window
          BY <1>5, <3>4, <4>1 DEF CheckAndRecord
        <4> QED BY <1>5, <1>7, <4>2 DEF KeyLive
      <3> QED BY <3>2, <3>3, <3>4
    <2> QED BY <1>2, <1>6, <2>1, <2>2
  <1> QED BY <1>7, <1>8, <1>9 DEF HashOf

LEMMA RowStep ==
  ASSUME FlightsFit, Window > 0, FindInv, RowInv, [Next]_vars
  PROVE  RowInv'
  <1> SUFFICES ASSUME NEW c \in Calls, c \in InFlight'
               PROVE  /\ KeyLive(keys'[calls'[c].key], now')
                      /\ keys'[calls'[c].key].hash = HashOf(c)'
    BY DEF RowInv, InFlight
  <1>0. TypeInv /\ Kept /\ Moves(c)
    BY StepKept, StepMoves DEF FindInv, TypeInv
  <1>1. CASE c \in InFlight
    <2>1. /\ calls'[c].key = calls[c].key /\ calls[c].key \in Plans /\ calls[c].pc # "idle"
          /\ HashOf(c)' = HashOf(c) /\ HashOf(c) \in Hashes
      <3>1. calls[c].pc # "idle" /\ plans[calls[c].plan].state # "absent"
        BY <1>0, <1>1 DEF TypeInv, StoredInv
      <3> QED BY <1>0, <3>1, CallRow, PlanOfCall DEF Kept, CallsKept, TypeInv
    <2> DEFINE k == calls[c].key
    <2>2. KeyLive(keys[k], now) /\ keys[k].hash = HashOf(c)
      BY <1>1 DEF RowInv
    <2>3. keys'[k].hash = keys[k].hash /\ keys'[k].expires = keys[k].expires
      BY <1>0, <2>1, <2>2 DEF Kept, RowsKept
    <2>4. keys[k].expires > now'
      <3>1. CASE now' = now
        BY <2>2, <3>1 DEF KeyLive
      <3>2. CASE Tick
        BY <1>1, <3>2 DEF Tick
      <3> QED BY <1>0, <3>1, <3>2, TimePasses
    <2> QED BY <2>1, <2>2, <2>3, <2>4 DEF KeyLive
  <1>2. CASE c \notin InFlight
    <2>1. Begins(c) /\ calls'[c].pc # "done"
      BY <1>0, <1>2 DEF Moves, Ends, GoesOn, Served, InFlight
    <2>2. now' = now
      <3>1. calls' # calls
        BY <2>1 DEF Begins
      <3> QED BY <1>0, <3>1, TimePasses DEF Tick
    <2> QED BY <1>0, <2>1, <2>2, BeginsReserved
  <1> QED BY <1>1, <1>2

\* A receipt is saved by a call that found its effect.
LEMMA ReceiptSaved ==
  ASSUME TypeInv, [Next]_vars, NEW k \in Plans, NEW c \in Calls,
         keys'[k].receipt = c, keys[k].receipt # c
  PROVE  Finishes(c) /\ calls[c].key = k /\ keys' # keys
  <1>0. /\ keys \in [Plans -> KeyRow(Calls)] /\ calls \in [Calls -> {NoCall} \cup MadeCall]
        /\ TypeOK /\ None \notin Calls
    BY DEF TypeInv, TypeOK
  <1>1. Steps /\ keys' # keys
    BY StepShape DEF TypeInv, vars
  <1>2. ASSUME NEW d \in Calls, Finishes(d)
        PROVE  d = c /\ calls[c].key = k
    <2>1. calls[d].key \in Plans
      BY <1>0, <1>2, CallRow DEF Finishes
    <2>2. keys' = [keys EXCEPT ![calls[d].key] = SaveReceipt(@, d)]
      BY <1>1, <1>2 DEF Finishes, Backs
    <2>3. SaveReceipt(keys[calls[d].key], d).receipt = d
      BY <1>0, <2>1, RowMarks
    <2> QED BY <1>0, <2>1, <2>2, <2>3
  <1>3. ASSUME NEW d \in Calls, Sends(d)
        PROVE  FALSE
    <2>1. calls[d].key \in Plans
      BY <1>0, <1>3, CallRow DEF Sends
    <2>2. MarkApplyStarted(keys[calls[d].key]).receipt = keys[calls[d].key].receipt
      BY <1>0, <2>1, RowMarks
    <2> QED BY <1>0, <1>3, <2>1, <2>2 DEF Sends
  <1>4. ASSUME NEW j \in Plans, NEW h, keys' = [keys EXCEPT ![j] = CheckAndRecord(@, h, now)]
        PROVE  FALSE
    BY <1>0, <1>4 DEF CheckAndRecord
  <1>5. ASSUME NEW d \in Calls, NEW x \in MadeCall, NEW limited \in BOOLEAN, Proceed(d, x, limited)
        PROVE  FALSE
    <2>1. keys' = [keys EXCEPT ![x.key] = CheckAndRecord(@, plans[x.plan].hash, now)] /\ x.key \in Plans
      BY <1>1, <1>5 DEF Proceed, MadeCall
    <2> QED BY <1>4, <2>1
  <1>6. ASSUME NEW d \in Calls, NEW p \in Plans, NEW tok \in Plans, NEW j \in Plans, NEW a \in Actors,
               NEW lockedOut \in BOOLEAN, NEW limited \in BOOLEAN,
               Apply(d, p, tok, j, a, lockedOut, limited)
        PROVE  FALSE
    <2>1. Proceed(d, NewCall(p, tok, j, a), limited)
      BY <1>0, <1>1, <1>6, ApplyShape
    <2> QED BY <1>5, <2>1, NewCallRow
  <1>7. ASSUME NEW d \in Calls, NEW limited \in BOOLEAN, ResolveProceeds(d, limited)
        PROVE  FALSE
    BY <1>0, <1>5, <1>7, CallRow DEF ResolveProceeds
  <1>8. ASSUME NEW p \in Plans, NEW h \in Hashes, NEW a \in Actors, PlanStory(p, h, a)
        PROVE  FALSE
    BY <1>4, <1>8 DEF PlanStory
  <1>9. ASSUME \/ \E d \in Calls : Stops(d) \/ WriteFails(d) \/ SnowApplies(d) \/ SnowRejects(d)
               \/ \E f \in Foreign, g \in Sigs : ForeignCreate(f, g)
               \/ ForeignUpdate \/ Tick \/ Crash
        PROVE  FALSE
    BY <1>1, <1>9 DEF Stops, WriteFails, SnowApplies, SnowRejects, ForeignCreate, ForeignUpdate, Tick, Crash
  <1> QED BY <1>1, <1>2, <1>3, <1>6, <1>7, <1>8, <1>9 DEF Steps

LEMMA ReceiptStep ==
  ASSUME FindInv, RowInv, ReceiptInv, ReceiptBacked, [Next]_vars
  PROVE  ReceiptInv' /\ ReceiptBacked'
  <1> SUFFICES ASSUME NEW k \in Plans, NEW c \in Calls, keys'[k].receipt = c
               PROVE  /\ calls'[c].pc = "done"
                      /\ tool' = "create" =>
                           \E s \in stories' : s.by = calls'[c].record /\ s.sig = SigOf[keys'[k].hash]
                      /\ confs'[calls'[c].token].consumed
                      /\ calls'[c].spent \/ <<c, "confirmation_consume">> \in audit'
    BY DEF ReceiptInv, ReceiptBacked
  <1>0. TypeInv /\ TypeOK /\ Kept /\ tool' = tool /\ None \notin Calls
    BY StepKept, StepShape DEF FindInv, TypeInv, vars
  <1>1. CASE keys[k].receipt = c
    <2>1. calls[c].pc = "done" /\ c \notin InFlight
      BY <1>1 DEF ReceiptInv, InFlight
    <2>2. calls'[c] = calls[c] /\ calls[c].token \in Plans
      BY <1>0, <2>1, CallRow DEF Kept, CallsKept
    <2>3. keys'[k].hash = keys[k].hash
      BY <1>0 DEF Kept, RowsKept
    <2>4. stories \subseteq stories' /\ audit \subseteq audit'
      BY <1>0 DEF Kept, Grows
    <2>5. confs[calls[c].token].consumed => confs'[calls[c].token].consumed
      BY <1>0, <2>2 DEF Kept, ConfsKept
    <2> QED BY <1>0, <1>1, <2>1, <2>2, <2>3, <2>4, <2>5 DEF ReceiptBacked
  <1>2. CASE keys[k].receipt # c
    <2>1. Finishes(c) /\ calls[c].key = k /\ keys' # keys
      BY <1>0, <1>2, ReceiptSaved
    <2>2. c \in InFlight /\ calls[c] \in MadeCall /\ calls[c].token \in Plans
      BY <1>0, <2>1, CallRow DEF Finishes, InFlight
    <2>3. PICK r \in Calls \cup Foreign \cup {None}, code \in Codes \ {"UPSTREAM_ERROR"} :
            /\ calls' = [calls EXCEPT ![c] = Answered([calls[c] EXCEPT !.record = r], code)]
            /\ Backs(c, r)
      BY <2>1 DEF Finishes
    <2>4. /\ calls'[c].pc = "done" /\ calls'[c].record = r /\ calls'[c].token = calls[c].token
          /\ calls'[c].spent = calls[c].spent
      <3> DEFINE z == [calls[c] EXCEPT !.record = r]
      <3>1. /\ z \in MadeCall /\ z.token = calls[c].token /\ z.spent = calls[c].spent /\ z.record = r
        BY <2>2, RecordRow
      <3>2. calls'[c] = Answered(z, code)
        BY <1>0, <2>3 DEF TypeOK
      <3> HIDE DEF z
      <3> QED BY <3>1, <3>2, AnswerRow
    <2>5. keys'[k].hash = keys[k].hash /\ keys[k].hash = HashOf(c)
      <3>1. keys'[k] = SaveReceipt(keys[k], c) /\ keys[k] \in KeyRow(Calls)
        BY <1>0, <2>1, <2>3 DEF Backs, TypeOK
      <3>2. keys[k].hash = HashOf(c)
        BY <2>1, <2>2 DEF RowInv
      <3> QED BY <3>1, <3>2, RowMarks
    <2>6. tool = "create" => \E s \in stories' : s.by = r /\ s.sig = SigOf[keys'[k].hash]
      <3>1. stories \subseteq stories'
        BY <1>0 DEF Kept, Grows
      <3>2. tool = "create" => \E s \in stories : s.by = r /\ s.sig = SigOf[HashOf(c)]
        <4>1. tool = "create" /\ r = c /\ wire[c] = "applied" =>
                \E s \in stories : s.by = r /\ s.sig = SigOf[HashOf(c)]
          BY DEF FindInv, EffectInv, CreateMatches
        <4> QED BY <2>3, <4>1 DEF Backs
      <3> QED BY <2>5, <3>1, <3>2
    <2>7. confs'[calls[c].token].consumed
      <3>1. CASE calls[c].spent
        BY <1>0, <2>2, <3>1 DEF FindInv, CallInv, Kept, ConfsKept
      <3>2. CASE confs' = [confs EXCEPT ![calls[c].token] = ConsumeRow(@)]
        BY <1>0, <2>2, <3>2 DEF ConsumeRow, TypeOK, ConfRow
      <3> QED BY <2>3, <3>1, <3>2 DEF Backs
    <2>8. calls[c].spent \/ <<c, "confirmation_consume">> \in audit'
      BY <2>3 DEF Backs
    <2> QED BY <1>0, <2>4, <2>6, <2>7, <2>8
  <1> QED BY <1>1, <1>2

\* A stored receipt stands on a record that is there, of the reservation's operation, and
\* on a confirmation that was consumed and audited, when calls end before their
\* reservations expire.
THEOREM ReceiptsTrue ==
  ASSUME FlightsFit, Window > 0
  PROVE  Spec => []ReceiptBacked
  <1> DEFINE IInv == FindInv /\ RowInv /\ ReceiptInv /\ ReceiptBacked
  <1>1. Init => IInv
    <2>1. Init => RowInv /\ ReceiptInv /\ ReceiptBacked
      BY DEF Init, RowInv, ReceiptInv, ReceiptBacked, InFlight, NoCall, NoKeyRow
    <2> QED BY <2>1, FindInit
  <1>2. IInv /\ [Next]_vars => IInv'
    <2> SUFFICES ASSUME IInv, [Next]_vars PROVE IInv'
      OBVIOUS
    <2>1. FindInv' /\ RowInv'
      BY FindStep, RowStep
    <2>2. ReceiptInv' /\ ReceiptBacked'
      BY ReceiptStep
    <2> QED BY <2>1, <2>2
  <1>3. IInv => ReceiptBacked
    OBVIOUS
  <1> QED BY <1>1, <1>2, <1>3, PTL DEF Spec
===============================================================================
