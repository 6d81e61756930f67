----------------------------- MODULE SubmitWrite -----------------------------
(***************************************************************************)
(* The governed writes that end in one request to ServiceNow and share no  *)
(* code but the stores: work notes (work_note_write.rs), Knowledge drafts  *)
(* (knowledge_write.rs), catalog orders (catalog_write.rs), time card      *)
(* hours (timecard_write.rs) and Resource Plans (resource_plan_write.rs)   *)
(* of crates/snow_daemon/src.                                              *)
(*                                                                         *)
(* They differ in what stops a second request:                             *)
(*   order         the confirmation, consumed before the request           *)
(*   draft, plan_create                                                    *)
(*                 the started mark, with no wait between check and mark   *)
(*   note, plan_update, plan_decision                                      *)
(*                 the started mark, with a read between check and mark    *)
(*   hours         only the card's version, compared after a fresh read    *)
(*                                                                         *)
(* A call waits for its fresh read ("checking", "checked"), a note or      *)
(* hours call again for the lookups of its write ("locating"), for the     *)
(* request and its refetch ("writing"), and a decision for its allocation  *)
(* evidence ("proving"). Each stretch between two waits is one action.     *)
(***************************************************************************)
EXTENDS GovernedStores, FiniteSets

CONSTANTS Tools,    \* tools to consider
          Plans,    \* plan ids; a plan's confirmation token has the same id
          Keys,     \* idempotency keys
          OwnKey,   \* OwnKey[p]: the key minted by the server with plan p
          Calls,    \* apply requests
          MaxEdits, \* bound on the target's version
          MaxNow    \* bound on the clock

ASSUME SubmitAssumption ==
  /\ Tools \subseteq {"note", "draft", "order", "hours",
                     "plan_create", "plan_update", "plan_decision"}
  /\ OwnKey \in [Plans -> Keys]
  /\ {MaxEdits, MaxNow} \subseteq Nat
  /\ None \notin Calls \cup Plans \cup Keys \cup Nat

VARIABLES tool,                     \* the tool all the plans are for, never changed
          now, plans, confs, keys,  \* the clock and the tables
          calls,    \* apply calls: arguments, progress and answer
          wire,     \* each call's request as ServiceNow sees it
          target,   \* version of the card or Resource Plan an update is for
          audit     \* audit rows <<call or plan, status>>

vars == <<tool, now, plans, confs, keys, calls, wire, target, audit>>

Codes == {"PLAN_NOT_FOUND", "PLAN_NOT_PENDING", "PLAN_EXPIRED", "IDEMPOTENCY_CONFLICT",
          "IDEMPOTENCY_PENDING", "PENDING_RESOLUTION_REQUIRED", "CONFIRMATION_INVALID",
          "FIELD_REJECTED", "GUARD_FAILED", "RECORD_NOT_FOUND", "WORK_NOTES_REFUSED",
          "CONCURRENCY_TOKEN_INVALID",
          "CONCURRENCY_CONFLICT", "UPSTREAM_ERROR", "INTERNAL", "replay", "ok"}

ASSUME CodesAssumption == None \notin Codes

\* late: when the call came in, a request had gone out under its plan and the
\* plan's own key (for hours: and had been served).
\* seen: the version its fresh read brought back, None when there was no record.
NoCall == [pc |-> "idle", plan |-> None, token |-> None, key |-> None,
           actor |-> None, late |-> FALSE, seen |-> None, out |-> None]

MadeCall == [pc: {"checking", "checked", "locating", "writing", "proving", "done", "dropped"},
             plan: Plans, token: Plans, key: Keys, actor: Actors, late: BOOLEAN,
             seen: Nat \cup {None}, out: Codes \cup {None}]

InFlight == {c \in Calls : calls[c].pc \notin {"idle", "done", "dropped"}}
HashOf(c) == plans[calls[c].plan].hash

TypeOK ==
  /\ tool \in Tools
  /\ now \in Nat
  /\ plans \in [Plans -> PlanRow]
  /\ confs \in [Plans -> ConfRow]
  /\ keys \in [Keys -> KeyRow(Calls)]
  /\ calls \in [Calls -> {NoCall} \cup MadeCall]
  /\ wire \in [Calls -> {"none", "posted", "applied", "rejected"}]
  /\ target \in Nat
  /\ audit \subseteq (Calls \cup Plans) \X {"plan", "denied", "error", "consumed", "applied"}

Init ==
  /\ tool \in Tools
  /\ now = 0
  /\ plans = [p \in Plans |-> NoPlanRow]
  /\ confs = [p \in Plans |-> NoConfRow]
  /\ keys = [k \in Keys |-> NoKeyRow]
  /\ calls = [c \in Calls |-> NoCall]
  /\ wire = [c \in Calls |-> "none"]
  /\ target = 0
  /\ audit = {}

-----------------------------------------------------------------------------
(* The plan handlers, once the request is accepted. *)

\* The rows every plan handler makes; only a tool with a target keeps a token.
NewPlan(p, h, a) ==
  /\ plans[p].state = "absent"
  /\ plans' = [plans EXCEPT ![p] = PutPlan(h, target, now)]
  /\ confs' = [confs EXCEPT ![p] = IssueConfirmation(h, a, now)]
  /\ UNCHANGED <<tool, now, calls, wire, target>>

Reserve(k, h) == [keys EXCEPT ![k] = CheckAndRecord(@, h, now)]

\* handle_catalog_plan_request reserves no key and writes no audit row.
PlanOrder(p, h, a) ==
  /\ tool = "order"
  /\ NewPlan(p, h, a)
  /\ UNCHANGED <<keys, audit>>

\* handle_work_note_plan_add, handle_knowledge_plan_create_draft, handle_timecard_plan_set_hours and
\* handle_resource_plan_plan reserve the key they issue.
PlanReserved(p, h, a) ==
  /\ NewPlan(p, h, a)
  /\ CheckOutcome(keys[OwnKey[p]], h, now) = "NewKey"
  /\ keys' = Reserve(OwnKey[p], h)
  /\ audit' = audit \cup {<<p, "plan">>}

PlanNote(p, h, a) == tool = "note" /\ PlanReserved(p, h, a)
PlanDraft(p, h, a) == tool = "draft" /\ PlanReserved(p, h, a)
PlanHours(p, h, a) == tool = "hours" /\ PlanReserved(p, h, a)
PlanResourcePlan(p, h, a) ==
  tool \in {"plan_create", "plan_update", "plan_decision"} /\ PlanReserved(p, h, a)

-----------------------------------------------------------------------------
(* What the apply handlers share. *)

\* The audit row of an answer; the catalog handler writes none.
AuditOf(c, code) ==
  IF tool = "order" \/ code \in {"INTERNAL", "replay", "ok"} THEN {}
  ELSE {<<c, IF code \in {"PLAN_NOT_FOUND", "RECORD_NOT_FOUND", "PENDING_RESOLUTION_REQUIRED",
                           "UPSTREAM_ERROR"}
               THEN "error" ELSE "denied">>}

Answer(c, code) == [calls EXCEPT ![c].pc = "done", ![c].out = code]

\* An answer that changes nothing but the audit log.
Refuse(c, code) ==
  /\ calls' = Answer(c, code)
  /\ audit' = audit \cup AuditOf(c, code)
  /\ UNCHANGED <<tool, now, plans, confs, keys, wire, target>>

\* A live reservation that answers by itself: another operation, or a receipt
\* (replayed to a caller whose confirmation still binds, consumed or not).
StoredVerdict(p, tok, k, a) ==
  IF ~KeyLive(keys[k], now) THEN None
  ELSE IF keys[k].hash # plans[p].hash THEN "IDEMPOTENCY_CONFLICT"
  ELSE IF keys[k].receipt = None THEN None
  ELSE IF BindingVerdict(confs[tok], a, plans[p].hash, now) = "ok" THEN "replay"
  ELSE "CONFIRMATION_INVALID"

\* Variant with a fault: the started mark is not looked at.
StartedIgnored(k) == None

StartedVerdict(k) ==
  IF KeyLive(keys[k], now) /\ keys[k].started THEN "PENDING_RESOLUTION_REQUIRED" ELSE None

ExpiredVerdict(p) == IF PlanExpired(plans[p], now) THEN "PLAN_EXPIRED" ELSE None

\* The first verdict that is not None, or None.
First(a, b, c) == IF a # None THEN a ELSE IF b # None THEN b ELSE c

Confirmed(p, tok, a) == ConfirmationVerdict(confs[tok], a, plans[p].hash, now) = "ok"

Late(p, k) ==
  \E d \in Calls : /\ calls[d].plan = p /\ calls[d].key = k /\ k = OwnKey[p]
                   /\ IF tool = "hours" THEN wire[d] = "applied" ELSE wire[d] # "none"

NewCall(p, tok, k, a) ==
  [pc |-> "checking", plan |-> p, token |-> tok, key |-> k, actor |-> a,
   late |-> Late(p, k), seen |-> None, out |-> None]

\* A client has the ids of issued plans and keys only.
Sent(c, p, k) ==
  /\ calls[c].pc = "idle"
  /\ \A q \in Plans : OwnKey[q] = k => plans[q].state # "absent"

Finished(x, code) == [x EXCEPT !.pc = "done", !.out = code]
Post(c) == [wire EXCEPT ![c] = "posted"]
Started(c) == [keys EXCEPT ![calls[c].key] = MarkApplyStarted(@)]

\* An apply that ends before check_and_record.
RefusedAtEntry(c, x, v) ==
  /\ v # None
  /\ calls' = [calls EXCEPT ![c] = Finished(x, v)]
  /\ plans' = IF v = "PLAN_EXPIRED"
                THEN [plans EXCEPT ![x.plan] = MarkPlanExpired(@)] ELSE plans
  /\ audit' = audit \cup AuditOf(c, v)
  /\ UNCHANGED <<tool, now, confs, keys, wire, target>>
\* An apply that reserves its key and ends at the next check.
RefusedReserved(c, x, code) ==
  /\ calls' = [calls EXCEPT ![c] = Finished(x, code)]
  /\ keys' = Reserve(x.key, plans[x.plan].hash)
  /\ audit' = audit \cup AuditOf(c, code)
  /\ UNCHANGED <<tool, now, plans, confs, wire, target>>

\* An apply that reserves its key and goes on to its fresh read.
GoesToRead(c, x) ==
  /\ calls' = [calls EXCEPT ![c] = x]
  /\ keys' = Reserve(x.key, plans[x.plan].hash)
  /\ UNCHANGED <<tool, now, plans, confs, wire, target, audit>>

\* An apply that reserves and marks its key and sends its request, without a
\* wait: refused without a confirmation, or by a store that fails.
GoesToWrite(c, x) ==
  \/ ~Confirmed(x.plan, x.token, x.actor) /\ RefusedReserved(c, x, "CONFIRMATION_INVALID")
  \/ RefusedReserved(c, x, "INTERNAL")
  \/ /\ Confirmed(x.plan, x.token, x.actor)
     /\ calls' = [calls EXCEPT ![c] = [x EXCEPT !.pc = "writing"]]
     /\ keys' = [keys EXCEPT ![x.key] =
                   MarkApplyStarted(CheckAndRecord(@, plans[x.plan].hash, now))]
     /\ wire' = Post(c)
     /\ UNCHANGED <<tool, now, plans, confs, target, audit>>

-----------------------------------------------------------------------------
(* The apply handlers up to their first wait. *)

\* handle_knowledge_apply_create_draft
ApplyDraft(c, p, tok, k, a) ==
  LET x == NewCall(p, tok, k, a)
      v == IF plans[p].state = "absent" THEN "PLAN_NOT_FOUND"
           ELSE First(StoredVerdict(p, tok, k, a), StartedVerdict(k), ExpiredVerdict(p))
  IN /\ tool = "draft"
     /\ Sent(c, p, k)
     /\ \/ RefusedAtEntry(c, x, v)
        \/ v = None /\ GoesToWrite(c, x)

\* handle_work_note_apply_add: the confirmation is looked at here and not again.
ApplyNote(c, p, tok, k, a) ==
  LET x == NewCall(p, tok, k, a)
      v == IF plans[p].state = "absent" THEN "PLAN_NOT_FOUND"
           ELSE First(StoredVerdict(p, tok, k, a), StartedVerdict(k), ExpiredVerdict(p))
  IN /\ tool = "note"
     /\ Sent(c, p, k)
     /\ \/ RefusedAtEntry(c, x, v)
        \/ v = None /\ ~Confirmed(p, tok, a) /\ RefusedReserved(c, x, "CONFIRMATION_INVALID")
        \/ v = None /\ Confirmed(p, tok, a) /\ GoesToRead(c, x)

\* handle_timecard_apply_set_hours: the started mark is not asked for.
ApplyHours(c, p, tok, k, a) ==
  LET x == NewCall(p, tok, k, a)
      v == IF plans[p].state = "absent" THEN "PLAN_NOT_FOUND"
           ELSE First(StoredVerdict(p, tok, k, a), ExpiredVerdict(p), None)
  IN /\ tool = "hours"
     /\ Sent(c, p, k)
     /\ \/ RefusedAtEntry(c, x, v)
        \/ v = None /\ GoesToRead(c, x)

\* handle_resource_plan_apply: expiry first; a policy changed since the plan was
\* made may reject a field; only the update tools read the record.
ApplyResourcePlan(c, p, tok, k, a) ==
  LET x == NewCall(p, tok, k, a)
      v == IF plans[p].state = "absent" THEN "PLAN_NOT_FOUND"
           ELSE First(ExpiredVerdict(p), StoredVerdict(p, tok, k, a), StartedVerdict(k))
  IN /\ tool \in {"plan_create", "plan_update", "plan_decision"}
     /\ Sent(c, p, k)
     /\ \/ RefusedAtEntry(c, x, v)
        \/ v = None /\ RefusedReserved(c, x, "FIELD_REJECTED")
        \/ v = None /\ tool = "plan_create" /\ GoesToWrite(c, x)
        \/ v = None /\ tool # "plan_create" /\ GoesToRead(c, x)

\* handle_catalog_submit_request: the plan must be pending and the confirmation
\* good; a key that was ever used is turned away.
OrderVerdict(p, tok, k, a) ==
  LET hash == plans[p].hash IN
  IF plans[p].state = "absent" THEN "PLAN_NOT_FOUND"
  ELSE IF plans[p].state # "pending" THEN "PLAN_NOT_PENDING"
  ELSE IF plans[p].expires <= now THEN "PLAN_EXPIRED"
  ELSE IF ~Confirmed(p, tok, a) THEN "CONFIRMATION_INVALID"
  ELSE CASE CheckOutcome(keys[k], hash, now) = "Conflict" -> "IDEMPOTENCY_CONFLICT"
         [] CheckOutcome(keys[k], hash, now) = "Pending" -> "IDEMPOTENCY_PENDING"
         [] CheckOutcome(keys[k], hash, now) = "Replay" -> "replay"
         [] OTHER -> None

\* Variant with a fault: the confirmation is left for after the order.
OrderSentUnspent(c, x) ==
  /\ calls' = [calls EXCEPT ![c] = [x EXCEPT !.pc = "writing"]]
  /\ keys' = [keys EXCEPT ![x.key] =
                MarkApplyStarted(CheckAndRecord(@, plans[x.plan].hash, now))]
  /\ wire' = Post(c)
  /\ UNCHANGED <<tool, now, plans, confs, target, audit>>

\* The confirmation is spent before the order goes out.
OrderSent(c, x) ==
  /\ calls' = [calls EXCEPT ![c] = [x EXCEPT !.pc = "writing"]]
  /\ keys' = [keys EXCEPT ![x.key] =
                MarkApplyStarted(CheckAndRecord(@, plans[x.plan].hash, now))]
  /\ confs' = [confs EXCEPT ![x.token] = ConsumeRow(@)]
  /\ wire' = Post(c)
  /\ UNCHANGED <<tool, now, plans, target, audit>>

\* The store fails at consume, or at mark_apply_started after it.
OrderStoreFails(c, x) ==
  /\ keys' = Reserve(x.key, plans[x.plan].hash)
  /\ \/ /\ calls' = [calls EXCEPT ![c] = Finished(x, "CONFIRMATION_INVALID")]
        /\ UNCHANGED confs
     \/ /\ calls' = [calls EXCEPT ![c] = Finished(x, "INTERNAL")]
        /\ confs' = [confs EXCEPT ![x.token] = ConsumeRow(@)]
  /\ UNCHANGED <<tool, now, plans, wire, target, audit>>

ApplyOrder(c, p, tok, k, a) ==
  LET x == NewCall(p, tok, k, a)
      v == OrderVerdict(p, tok, k, a)
  IN /\ tool = "order"
     /\ Sent(c, p, k)
     /\ \/ RefusedAtEntry(c, x, v)
        \/ v = None /\ (OrderSent(c, x) \/ OrderStoreFails(c, x))

-----------------------------------------------------------------------------
(* The fresh read, and what follows it up to the request. *)

\* ServiceNow answers the read; the reply is acted on later.
SnowReads(c) ==
  /\ calls[c].pc = "checking"
  /\ \E s \in {target, None} :
       calls' = [calls EXCEPT ![c].pc = "checked", ![c].seen = s]
  /\ UNCHANGED <<tool, now, plans, confs, keys, wire, target, audit>>

\* No such record; one that takes no work notes; a card closed, moved or changed
\* since (GUARD_FAILED); a concurrency token the client did not repeat; another
\* version; a confirmation expired or consumed; a read or a store that failed.
CheckRefuses(c, code) ==
  LET x == calls[c] IN
  /\ x.pc = "checked"
  /\ code \in {"PLAN_NOT_FOUND", "GUARD_FAILED", "CONCURRENCY_TOKEN_INVALID",
               "CONCURRENCY_CONFLICT", "CONFIRMATION_INVALID", "RECORD_NOT_FOUND",
               "WORK_NOTES_REFUSED", "INTERNAL"}
  /\ code \in {"RECORD_NOT_FOUND", "WORK_NOTES_REFUSED"} => tool = "note"
  /\ code \in {"CONCURRENCY_TOKEN_INVALID", "CONCURRENCY_CONFLICT", "CONFIRMATION_INVALID"}
       => tool # "note"
  /\ code = "RECORD_NOT_FOUND" => x.seen = None
  /\ code = "PLAN_NOT_FOUND" => tool = "hours" /\ x.seen = None
  /\ code = "GUARD_FAILED" => tool = "hours" /\ x.seen # None
  /\ code = "CONCURRENCY_CONFLICT" => x.seen \notin {None, plans[x.plan].token}
  /\ code = "CONFIRMATION_INVALID" => ~Confirmed(x.plan, x.token, x.actor)
  /\ Refuse(c, code)

\* Variant with a fault: the version is compared for Resource Plans only.
SameVersionForPlans(x) ==
  IF tool \in {"note", "hours"} THEN x.seen # None ELSE x.seen \in {plans[x.plan].token, None}

\* A work note needs its record only; a Resource Plan that was not found goes on
\* to the write.
SameVersion(x) ==
  CASE tool = "note" -> x.seen # None
    [] tool = "hours" -> x.seen = plans[x.plan].token
    [] OTHER -> x.seen \in {plans[x.plan].token, None}

\* mark_apply_started, which succeeds whoever marked the key, then the request;
\* add_work_note_without_retry and set_timecard_hours look up their record first.
CheckPasses(c) ==
  LET x == calls[c] IN
  /\ x.pc = "checked"
  /\ SameVersion(x)
  /\ tool # "note" => Confirmed(x.plan, x.token, x.actor)
  /\ keys' = Started(c)
  /\ \/ /\ tool \in {"note", "hours"}
        /\ calls' = [calls EXCEPT ![c].pc = "locating", ![c].seen = None]
        /\ UNCHANGED wire
     \/ /\ tool \notin {"note", "hours"}
        /\ calls' = [calls EXCEPT ![c].pc = "writing", ![c].seen = None]
        /\ wire' = Post(c)
  /\ UNCHANGED <<tool, now, plans, confs, target, audit>>

\* The record as it is now, whatever its version, gets the note or the hours.
SendLocated(c) ==
  /\ calls[c].pc = "locating"
  /\ calls' = [calls EXCEPT ![c].pc = "writing"]
  /\ wire' = Post(c)
  /\ UNCHANGED <<tool, now, plans, confs, keys, target, audit>>

\* The record is gone, or the lookups failed: the mark stays.
LocateFails(c, code) ==
  /\ calls[c].pc = "locating"
  /\ code \in IF tool = "note" THEN {"RECORD_NOT_FOUND", "PENDING_RESOLUTION_REQUIRED"}
              ELSE {"UPSTREAM_ERROR"}
  /\ Refuse(c, code)

-----------------------------------------------------------------------------
(* The request at ServiceNow, and its outcome. *)

Updates == {"hours", "plan_update", "plan_decision"}

\* A request is served sooner or later, also for a caller that is gone.
SnowApplies(c) ==
  /\ wire[c] = "posted"
  /\ wire' = [wire EXCEPT ![c] = "applied"]
  /\ IF tool \in Updates THEN target < MaxEdits /\ target' = target + 1 ELSE UNCHANGED target
  /\ UNCHANGED <<tool, now, plans, confs, keys, calls, audit>>

SnowRejects(c) ==
  /\ wire[c] = "posted"
  /\ wire' = [wire EXCEPT ![c] = "rejected"]
  /\ UNCHANGED <<tool, now, plans, confs, keys, calls, target, audit>>

\* Variant with a fault: a failed write gives the reservation back.
WriteFailsCleared(c, code) ==
  /\ calls[c].pc = "writing"
  /\ keys' = [keys EXCEPT ![calls[c].key] = ClearApplyStarted(@)]
  /\ calls' = Answer(c, code)
  /\ audit' = audit \cup AuditOf(c, code)
  /\ UNCHANGED <<tool, now, plans, confs, wire, target>>

\* The request, its reply or the refetch after it failed, or the refetch found no
\* record to note any more; the mark stays.
WriteFails(c, code) ==
  /\ calls[c].pc = "writing"
  /\ code \in CASE tool = "note" -> {"PENDING_RESOLUTION_REQUIRED", "RECORD_NOT_FOUND"}
                [] tool = "draft" -> {"PENDING_RESOLUTION_REQUIRED"}
                [] tool = "order" -> {"INTERNAL"}
                [] OTHER -> {"UPSTREAM_ERROR"}
  /\ code = "RECORD_NOT_FOUND" => wire[c] = "applied"
  /\ Refuse(c, code)

\* Variant with a fault: the receipt before the audit row.
SettleReceiptFirst(c, done) ==
  LET x == calls[c] IN
  /\ calls' = Answer(c, IF done = 3 THEN "ok" ELSE "INTERNAL")
  /\ keys' = IF done >= 2 THEN [keys EXCEPT ![x.key] = SaveReceipt(@, c)] ELSE keys
  /\ audit' = IF done = 3 /\ tool # "order" THEN audit \cup {<<c, "applied">>} ELSE audit
  /\ UNCHANGED plans

\* The audit row of a note's consumption, the audit row of the success, the receipt
\* and the plan; done counts how many of the first three took effect, and a plan
\* that cannot be marked is not reported.
Settle(c, done) ==
  LET x == calls[c] IN
  /\ calls' = Answer(c, IF done = 3 THEN "ok" ELSE "INTERNAL")
  /\ audit' = audit \cup (IF done >= 1 /\ tool = "note" THEN {<<c, "consumed">>} ELSE {})
                    \cup (IF done >= 2 /\ tool # "order" THEN {<<c, "applied">>} ELSE {})
  /\ keys' = IF done = 3 THEN [keys EXCEPT ![x.key] = SaveReceipt(@, c)] ELSE keys
  /\ plans' \in {plans} \cup (IF done = 3 THEN {[plans EXCEPT ![x.plan] = MarkPlanConsumed(@)]}
                                        ELSE {})

\* An order was placed: its confirmation is spent already.
OrderOk(c, done) ==
  /\ tool = "order"
  /\ calls[c].pc = "writing"
  /\ wire[c] = "applied"
  /\ Settle(c, done)
  /\ UNCHANGED <<tool, now, confs, wire, target>>

\* The others spend the confirmation now; a decision then waits for its
\* allocation evidence.
WriteOk(c, done) ==
  LET x == calls[c] IN
  /\ tool # "order"
  /\ x.pc = "writing"
  /\ wire[c] = "applied"
  /\ \/ Refuse(c, "CONFIRMATION_INVALID")   \* consume refused, or its store failed
     \/ /\ ConsumeVerdict(confs[x.token], x.actor, HashOf(c), now) = "ok"
        /\ confs' = [confs EXCEPT ![x.token] = ConsumeRow(@)]
        /\ IF tool = "plan_decision"
             THEN calls' = [calls EXCEPT ![c].pc = "proving"] /\ UNCHANGED <<plans, keys, audit>>
             ELSE Settle(c, done)
        /\ UNCHANGED <<tool, now, wire, target>>

\* apply_decision_evidence: evidence that is missing makes the receipt partial.
Proved(c, done) ==
  /\ calls[c].pc = "proving"
  /\ Settle(c, done)
  /\ UNCHANGED <<tool, now, confs, wire, target>>

-----------------------------------------------------------------------------
(* Environment *)

ForeignEdit ==
  /\ tool \in Updates
  /\ target < MaxEdits
  /\ target' = target + 1
  /\ UNCHANGED <<tool, now, plans, confs, keys, calls, wire, audit>>

Tick ==
  /\ now < MaxNow
  /\ now' = now + 1
  /\ UNCHANGED <<tool, plans, confs, keys, calls, wire, target, audit>>

\* The daemon dies; the database survives.
Crash ==
  /\ InFlight # {}
  /\ calls' = [c \in Calls |-> IF c \in InFlight
                                 THEN [calls[c] EXCEPT !.pc = "dropped"] ELSE calls[c]]
  /\ UNCHANGED <<tool, now, plans, confs, keys, wire, target, audit>>

Next ==
  \/ \E p \in Plans, h \in Hashes, a \in Actors :
       PlanOrder(p, h, a) \/ PlanNote(p, h, a) \/ PlanDraft(p, h, a)
         \/ PlanHours(p, h, a) \/ PlanResourcePlan(p, h, a)
  \/ \E c \in Calls, p, tok \in Plans, k \in Keys, a \in Actors :
       \/ ApplyNote(c, p, tok, k, a)
       \/ ApplyDraft(c, p, tok, k, a)
       \/ ApplyHours(c, p, tok, k, a)
       \/ ApplyResourcePlan(c, p, tok, k, a)
       \/ ApplyOrder(c, p, tok, k, a)
  \/ \E c \in Calls :
       \/ SnowReads(c)
       \/ \E code \in Codes : CheckRefuses(c, code) \/ LocateFails(c, code) \/ WriteFails(c, code)
       \/ CheckPasses(c)
       \/ SendLocated(c)
       \/ SnowApplies(c)
       \/ SnowRejects(c)
       \/ \E done \in 0..3 : OrderOk(c, done) \/ WriteOk(c, done) \/ Proved(c, done)
  \/ ForeignEdit
  \/ Tick
  \/ Crash

Spec == Init /\ [][Next]_vars

-----------------------------------------------------------------------------
(* Properties *)

\* A stored receipt stands for a request ServiceNow served under a confirmation
\* that is spent and, for every tool but the catalog's, an audit row that says so,
\* over failing stores, lost replies, crashes and calls that share a key.
ReceiptBacked ==
  \A k \in Keys, c \in Calls : keys[k].receipt = c =>
    /\ wire[c] = "applied"
    /\ confs[calls[c].token].consumed
    /\ tool # "order" => <<c, "applied">> \in audit
    /\ tool = "note" => <<c, "consumed">> \in audit

\* One confirmation places one order, whatever keys and plans its calls name and
\* however they overlap, fail or crash: handle_catalog_submit_request spends the
\* token before it sends.
OrderedOnce ==
  tool = "order" =>
    \A c, d \in Calls :
      calls[c].token = calls[d].token /\ wire[c] # "none" /\ wire[d] # "none" => c = d

\* A call that arrives when a request has already gone out under its plan and the
\* plan's own key never sends another one (for hours: when that request has been
\* served), over lost replies, crashes and expiry; so retrying with the same
\* arguments is safe even where the answer was an error.  The plan dies before
\* its reservation does.
LateCallsRefused ==
  PlanTTL <= Window => \A c \in Calls : calls[c].late => wire[c] = "none"

\* A confirmation is acknowledged with one fresh success at most, even where two
\* requests went out under it together.
OneOkPerConfirmation ==
  \A c, d \in Calls :
    /\ calls[c].out = "ok" /\ calls[d].out = "ok"
    /\ calls[c].token = calls[d].token
    => c = d
=============================================================================
