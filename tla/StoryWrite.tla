------------------------------ MODULE StoryWrite ------------------------------
(***************************************************************************)
(* Governed Story and Scrum-task writes: handle_story_plan_impl,           *)
(* handle_story_apply_impl and the pending recovery of                     *)
(* crates/snow_daemon/src/story_write over the stores of GovernedStores.   *)
(*                                                                         *)
(* Unlike the other handlers this one never refuses a reservation because  *)
(* it was started.  It asks ServiceNow instead: before every write under a *)
(* reservation without a receipt, and again after a write that failed, it  *)
(* looks for the record the plan would make.  One match is taken for the   *)
(* plan's own ("Recovered"), none lets the write go on ("Proceed"), and    *)
(* anything else is left to the operator.                                  *)
(*                                                                         *)
(* An apply call waits for that lookup ("resolving"), for the guard and    *)
(* target reads ("checking"), for its write and refetch ("writing") and    *)
(* for the lookup after a failed write ("recovering").                     *)
(***************************************************************************)
EXTENDS GovernedStores, FiniteSets

CONSTANTS Tools,       \* tools to consider: "create", "update" (a Story or a task alike)
          SigOf,       \* SigOf[h]: what the lookup of a created record compares
          Skew,        \* CREATE_RECOVERY_CLOCK_SKEW_SECONDS
          Plans,       \* plan ids; a plan's token and key have the same id
          Calls,       \* apply requests
          Foreign,     \* records other people create
          MaxEdits,    \* bound on the target's sys_updated_on
          FlightsFit,  \* does every call end before its reservation expires?
          Loads        \* what clients and ServiceNow may do: apply calls under way
                       \* at once; whether a write nobody waits for may be
                       \* served; bounds on the calls, the plans and the clock

\* The answers of an apply call (INTERNAL is an unaudited internal error).
Codes == {"PLAN_NOT_FOUND", "RATE_LIMITED", "IDEMPOTENCY_CONFLICT", "CONFIRMATION_INVALID",
          "PENDING_RESOLUTION_REQUIRED", "PLAN_EXPIRED", "REFUSED", "CONCURRENCY_CONFLICT",
          "UPSTREAM_ERROR", "INTERNAL", "replay", "recovered", "ok"}

ASSUME StoryAssumption ==
  /\ Tools \subseteq {"create", "update"}
  /\ Skew \in Nat \ {0}
  /\ MaxEdits \in Nat
  /\ FlightsFit \in BOOLEAN
  /\ Loads \subseteq [atOnce: Nat, late: BOOLEAN, calls: Nat, plans: Nat, now: Nat]
  /\ None \notin Calls \cup Plans \cup Foreign \cup Codes
  /\ Calls \cap Foreign = {}

VARIABLES tool, load,               \* the tool of all plans and the load, never changed
          now, plans, confs, keys,  \* the clock and the tables
          calls,    \* apply calls: arguments, progress and answer
          wire,     \* each call's write as ServiceNow sees it
          stories,  \* records created since the start: author, signature, time
          target,   \* the record an update is for: its version and last change
          audit     \* audit rows <<call or plan, status>>

vars == <<tool, load, now, plans, confs, keys, calls, wire, stories, target, audit>>

Sigs == {SigOf[h] : h \in Hashes}
Story == [by: Calls \cup Foreign, sig: Sigs, at: Nat]

\* spent: the confirmation was consumed already when the call came in;
\* expired: the plan was.  record: the created record the answer reports.
NoCall == [pc |-> "idle", plan |-> None, token |-> None, key |-> None, actor |-> None,
           spent |-> FALSE, expired |-> FALSE, record |-> None, out |-> None]

MadeCall == [pc: {"resolving", "checking", "writing", "recovering", "done", "dropped"},
             plan: Plans, token: Plans, key: Plans, actor: Actors, spent: BOOLEAN,
             expired: BOOLEAN, record: Calls \cup Foreign \cup {None}, out: Codes \cup {None}]

InFlight == {c \in Calls : calls[c].pc \in {"resolving", "checking", "writing", "recovering"}}
HashOf(c) == plans[calls[c].plan].hash

TypeOK ==
  /\ tool \in Tools
  /\ load \in Loads
  /\ now \in Nat
  /\ plans \in [Plans -> PlanRow]
  /\ confs \in [Plans -> ConfRow]
  /\ keys \in [Plans -> KeyRow(Calls)]
  /\ calls \in [Calls -> {NoCall} \cup MadeCall]
  /\ wire \in [Calls -> {"none", "posted", "applied", "rejected"}]
  /\ stories \subseteq Story
  /\ target \in [ver: Nat, val: Hashes \cup {None}]
  /\ audit \subseteq (Calls \cup Plans) \X
       {"plan", "confirmation_issue", "confirmation_consume", "denied", "error",
        "applied_success", "replay"}

Init ==
  /\ tool \in Tools
  /\ load \in Loads
  /\ now = 0
  /\ plans = [p \in Plans |-> NoPlanRow]
  /\ confs = [p \in Plans |-> NoConfRow]
  /\ keys = [p \in Plans |-> NoKeyRow]
  /\ calls = [c \in Calls |-> NoCall]
  /\ wire = [c \in Calls |-> "none"]
  /\ stories = {}
  /\ target = [ver |-> 0, val |-> None]
  /\ audit = {}

-----------------------------------------------------------------------------
(* handle_story_plan_impl, once build_plan_input has accepted the request. *)

\* A plan, its token and its key get new ids (Uuid::new_v4): no call has named them.
Fresh(p) == \A c \in Calls : p \notin {calls[c].plan, calls[c].token, calls[c].key}

PlanStory(p, h, a) ==
  /\ plans[p].state = "absent"
  /\ Fresh(p)
  /\ Cardinality({q \in Plans : plans[q].state # "absent"}) < load.plans
  /\ keys' = [keys EXCEPT ![p] = CheckAndRecord(@, h, now)]
  /\ plans' = [plans EXCEPT ![p] = PutPlan(h, target.ver, now)]
  /\ confs' = [confs EXCEPT ![p] = IssueConfirmation(h, a, now)]
  /\ audit' = audit \cup {<<p, "plan">>, <<p, "confirmation_issue">>}
  /\ UNCHANGED <<now, calls, wire, stories, target>>

-----------------------------------------------------------------------------
(* recovery.rs *)

\* find_recovered_create_record: same signature, created after the plan was,
\* less the skew (a plan is made PlanTTL before it expires).
CreateMatches(c) ==
  {s \in stories : /\ s.sig = SigOf[HashOf(c)]
                   /\ s.at + PlanTTL + Skew > plans[calls[c].plan].expires}

\* try_resolve_pending_receipt, with classify_create_recovery_lookup and
\* classify_update_recovery_record.
Recovery(c) ==
  IF tool = "create"
    THEN CASE Cardinality(CreateMatches(c)) = 0 -> "Proceed"
           [] Cardinality(CreateMatches(c)) = 1 -> "Recovered"
           [] OTHER -> "NeedsOperator"
    ELSE CASE target.val = HashOf(c) -> "Recovered"
           [] target.val # HashOf(c) /\ target.ver = plans[calls[c].plan].token -> "Proceed"
           [] OTHER -> "NeedsOperator"

RecoveredRecord(c) == IF tool = "create" THEN (CHOOSE s \in CreateMatches(c) : TRUE).by ELSE None

-----------------------------------------------------------------------------
(* handle_story_apply_impl *)

\* Rows audited_story_error writes with an answer.
AuditOf(c, code) ==
  CASE code \in {"INTERNAL", "replay"} -> {}
    [] code \in {"PLAN_NOT_FOUND", "PENDING_RESOLUTION_REQUIRED", "UPSTREAM_ERROR"}
         -> {<<c, "error">>}
    [] OTHER -> {<<c, "denied">>}

\* validate_confirmation_replay_binding: neither expiry nor consumption.
Replayable(x) == confs[x.token].hash = plans[x.plan].hash /\ confs[x.token].actor = x.actor

Answered(x, code) == [x EXCEPT !.pc = "done", !.out = code]
Answer(c, code) == [calls EXCEPT ![c] = Answered(@, code)]

\* From the plan's expiry to the first read of the guard; x is the call.
Proceed(c, x, limited) ==
  LET h == plans[x.plan].hash
      row == keys[x.key]
      code == CASE x.expired -> "PLAN_EXPIRED"
                [] ~x.expired /\ limited -> "RATE_LIMITED"
                [] OTHER ->
                     CASE CheckOutcome(row, h, now) = "Conflict" -> "IDEMPOTENCY_CONFLICT"
                       [] CheckOutcome(row, h, now) = "Replay" ->
                            IF Replayable(x) THEN "replay" ELSE "CONFIRMATION_INVALID"
                       [] OTHER -> None
  IN /\ calls' = [calls EXCEPT ![c] = IF code = None THEN [x EXCEPT !.pc = "checking"]
                                                     ELSE Answered(x, code)]
     /\ keys' = IF x.expired \/ limited THEN keys
                ELSE [keys EXCEPT ![x.key] = CheckAndRecord(@, h, now)]
     /\ plans' = IF x.expired THEN [plans EXCEPT ![x.plan] = MarkPlanExpired(@)] ELSE plans
     /\ audit' = IF code = None THEN audit ELSE audit \cup AuditOf(c, code)

\* The answer that precedes the pending lookup, or None.
EntryVerdict(x, limited) ==
  LET row == keys[x.key]
      h == plans[x.plan].hash
  IN CASE plans[x.plan].state = "absent" -> "PLAN_NOT_FOUND"
       [] plans[x.plan].state # "absent" /\ limited -> "RATE_LIMITED"
       [] OTHER ->
            CASE ~KeyLive(row, now) -> None
              [] KeyLive(row, now) /\ row.hash # h -> "IDEMPOTENCY_CONFLICT"
              [] KeyLive(row, now) /\ row.hash = h /\ row.receipt # None ->
                   IF Replayable(x) THEN "replay" ELSE "CONFIRMATION_INVALID"
              [] OTHER -> IF BindingVerdict(confs[x.token], x.actor, h, now)
                               \in {"ok", "NotFound"} THEN None ELSE "CONFIRMATION_INVALID"

\* Entry: a live reservation without a receipt and a known confirmation go to
\* the pending lookup first.  lockedOut and limited are the two rate limits.
Apply(c, p, tok, k, a, lockedOut, limited) ==
  LET x == [NoCall EXCEPT !.pc = "resolving", !.plan = p, !.token = tok, !.key = k,
              !.actor = a, !.expired = PlanExpired(plans[p], now)]
      v == EntryVerdict(x, lockedOut)
      pending == KeyLive(keys[k], now) /\ confs[tok].hash # None
  IN /\ calls[c].pc = "idle"
     /\ Cardinality(InFlight) < load.atOnce
     /\ Cardinality({d \in Calls : calls[d].pc # "idle"}) < load.calls
     /\ \/ /\ v # None
           /\ calls' = [calls EXCEPT ![c] = Answered(x, v)]
           /\ audit' = audit \cup AuditOf(c, v)
           /\ UNCHANGED <<plans, keys>>
        \/ /\ v = None /\ pending
           /\ calls' = [calls EXCEPT ![c] = [x EXCEPT !.spent = confs[tok].consumed]]
           /\ UNCHANGED <<plans, keys, audit>>
        \/ /\ v = None /\ ~pending
           /\ Proceed(c, x, limited)
     /\ UNCHANGED <<now, confs, wire, stories, target>>

\* Variant with a fault: the receipt is saved before the confirmation is consumed.
ResolveReceiptFirst(c, done) ==
  /\ calls[c].pc = "resolving"
  /\ Recovery(c) = "Recovered"
  /\ keys' = IF done >= 1 THEN [keys EXCEPT ![calls[c].key] = SaveReceipt(@, c)] ELSE keys
  /\ calls' = [calls EXCEPT ![c] = Answered([@ EXCEPT !.record = RecoveredRecord(c)], "INTERNAL")]
  /\ UNCHANGED <<now, plans, confs, wire, stories, target, audit>>

\* resolve_pending_response found the plan's record: consume the confirmation
\* unless it was spent, audit that, save the receipt, mark the plan, audit the
\* replay.  done counts the writes that took effect.
ResolveRecovered(c, done) ==
  LET x == calls[c]
      ok == x.spent \/ ConsumeVerdict(confs[x.token], x.actor, HashOf(c), now) = "ok"
  IN /\ x.pc = "resolving"
     /\ Recovery(c) = "Recovered"
     /\ ~ok => done = 0
     /\ confs' = IF done >= 1 /\ ~x.spent THEN [confs EXCEPT ![x.token] = ConsumeRow(@)] ELSE confs
     /\ audit' = audit \cup (IF done >= 2 /\ ~x.spent THEN {<<c, "confirmation_consume">>} ELSE {})
                       \cup (IF done = 4 THEN {<<c, "replay">>} ELSE {})
     /\ keys' = IF done >= 3 THEN [keys EXCEPT ![x.key] = SaveReceipt(@, c)] ELSE keys
     /\ plans' = IF done >= 3 THEN [plans EXCEPT ![x.plan] = MarkPlanConsumed(@)] ELSE plans
     /\ calls' = [calls EXCEPT ![c] = Answered([x EXCEPT !.record = RecoveredRecord(c)],
                                               IF done = 4 THEN "recovered" ELSE "INTERNAL")]
     /\ UNCHANGED <<now, wire, stories, target>>

\* Variant with a fault: the lookup's answer is not looked at.
ResolveProceedsBlind(c, limited) ==
  /\ calls[c].pc = "resolving"
  /\ Proceed(c, calls[c], limited)
  /\ UNCHANGED <<now, confs, wire, stories, target>>

ResolveProceeds(c, limited) ==
  /\ calls[c].pc = "resolving"
  /\ Recovery(c) = "Proceed"
  /\ Proceed(c, calls[c], limited)
  /\ UNCHANGED <<now, confs, wire, stories, target>>

\* The lookup was ambiguous, or it failed.
ResolveStops(c, code) ==
  /\ calls[c].pc = "resolving"
  /\ \/ code = "PENDING_RESOLUTION_REQUIRED" /\ Recovery(c) = "NeedsOperator"
     \/ code = "INTERNAL"
  /\ calls' = Answer(c, code)
  /\ audit' = audit \cup AuditOf(c, code)
  /\ UNCHANGED <<now, plans, confs, keys, wire, stories, target>>

\* The scope guard, the supplied token or the field governance refuses, the
\* target is gone or changed, or a read failed.
CheckStops(c, code) ==
  /\ calls[c].pc = "checking"
  /\ \/ code \in {"REFUSED", "INTERNAL"}
     \/ code = "PLAN_NOT_FOUND" /\ tool = "update"
     \/ /\ code = "CONCURRENCY_CONFLICT"
        /\ tool = "update"
        /\ target.ver # plans[calls[c].plan].token
  /\ calls' = Answer(c, code)
  /\ audit' = audit \cup AuditOf(c, code)
  /\ UNCHANGED <<now, plans, confs, keys, wire, stories, target>>

\* All checks pass: the confirmation is validated unless it was spent, the
\* reservation is marked (whether or not it was) and the write goes out.
CheckPasses(c) ==
  LET x == calls[c]
      ok == x.spent \/ ConfirmationVerdict(confs[x.token], x.actor, HashOf(c), now) = "ok"
  IN /\ x.pc = "checking"
     /\ tool = "update" => target.ver = plans[x.plan].token
     /\ \/ /\ ok
           /\ calls' = [calls EXCEPT ![c].pc = "writing"]
           /\ keys' = [keys EXCEPT ![x.key] = MarkApplyStarted(@)]
           /\ wire' = [wire EXCEPT ![c] = "posted"]
           /\ UNCHANGED audit
        \/ /\ ~ok
           /\ calls' = Answer(c, "CONFIRMATION_INVALID")
           /\ audit' = audit \cup AuditOf(c, "CONFIRMATION_INVALID")
           /\ UNCHANGED <<keys, wire>>
     /\ UNCHANGED <<now, plans, confs, stories, target>>

\* ServiceNow serves the write; load.late says whether it may do so after the sender
\* gave up or died.
SnowApplies(c) ==
  /\ wire[c] = "posted"
  /\ load.late \/ calls[c].pc = "writing"
  /\ wire' = [wire EXCEPT ![c] = "applied"]
  /\ stories' = IF tool = "create"
                  THEN stories \cup {[by |-> c, sig |-> SigOf[HashOf(c)], at |-> now]} ELSE stories
  /\ target' = IF tool = "update" THEN [ver |-> target.ver + 1, val |-> HashOf(c)] ELSE target
  /\ UNCHANGED <<now, plans, confs, keys, calls, audit>>

SnowRejects(c) ==
  /\ wire[c] = "posted"
  /\ wire' = [wire EXCEPT ![c] = "rejected"]
  /\ UNCHANGED <<now, plans, confs, keys, calls, stories, target, audit>>

\* apply_plan failed: the write, its reply or the refetch after it.
WriteFails(c) ==
  /\ calls[c].pc = "writing"
  /\ calls' = [calls EXCEPT ![c].pc = "recovering"]
  /\ UNCHANGED <<now, plans, confs, keys, wire, stories, target, audit>>

\* The write is there: consume the confirmation unless it was spent, audit that,
\* audit the success, save the receipt, mark the plan.
WriteOk(c, done) ==
  LET x == calls[c]
      ok == x.spent \/ ConsumeVerdict(confs[x.token], x.actor, HashOf(c), now) = "ok"
      code == CASE ~ok -> "CONFIRMATION_INVALID" [] ok /\ done = 4 -> "ok" [] OTHER -> "INTERNAL"
  IN /\ x.pc = "writing"
     /\ wire[c] = "applied"
     /\ ~ok => done = 0
     /\ confs' = IF done >= 1 /\ ~x.spent THEN [confs EXCEPT ![x.token] = ConsumeRow(@)] ELSE confs
     /\ audit' = audit \cup (IF done >= 2 /\ ~x.spent THEN {<<c, "confirmation_consume">>} ELSE {})
                       \cup (IF done >= 3 THEN {<<c, "applied_success">>} ELSE {})
                       \cup (IF ok THEN {} ELSE {<<c, "denied">>})
     /\ keys' = IF done = 4 THEN [keys EXCEPT ![x.key] = SaveReceipt(@, c)] ELSE keys
     /\ plans' = IF done = 4 THEN [plans EXCEPT ![x.plan] = MarkPlanConsumed(@)] ELSE plans
     /\ calls' = [calls EXCEPT ![c] = Answered([x EXCEPT
                     !.record = IF tool = "create" THEN c ELSE None], code)]
     /\ UNCHANGED <<now, wire, stories, target>>

\* The lookup after a failed write found the record; no success is audited.
RecoverRecovered(c, done) ==
  LET x == calls[c]
      ok == x.spent \/ ConsumeVerdict(confs[x.token], x.actor, HashOf(c), now) = "ok"
      code == CASE ~ok -> "CONFIRMATION_INVALID" [] ok /\ done = 3 -> "recovered" [] OTHER -> "INTERNAL"
  IN /\ x.pc = "recovering"
     /\ Recovery(c) = "Recovered"
     /\ ~ok => done = 0
     /\ confs' = IF done >= 1 /\ ~x.spent THEN [confs EXCEPT ![x.token] = ConsumeRow(@)] ELSE confs
     /\ audit' = audit \cup (IF done >= 2 /\ ~x.spent THEN {<<c, "confirmation_consume">>} ELSE {})
                       \cup (IF ok THEN {} ELSE {<<c, "denied">>})
     /\ keys' = IF done = 3 THEN [keys EXCEPT ![x.key] = SaveReceipt(@, c)] ELSE keys
     /\ plans' = IF done = 3 THEN [plans EXCEPT ![x.plan] = MarkPlanConsumed(@)] ELSE plans
     /\ calls' = [calls EXCEPT ![c] = Answered([x EXCEPT !.record = RecoveredRecord(c)], code)]
     /\ UNCHANGED <<now, wire, stories, target>>

\* Variant with a fault: a failed write is reported without the lookup.
RecoverStopsBlind(c, code) ==
  /\ calls[c].pc = "recovering"
  /\ code = "UPSTREAM_ERROR"
  /\ calls' = Answer(c, code)
  /\ audit' = audit \cup AuditOf(c, code)
  /\ UNCHANGED <<now, plans, confs, keys, wire, stories, target>>

RecoverStops(c, code) ==
  /\ calls[c].pc = "recovering"
  /\ \/ code = "UPSTREAM_ERROR" /\ Recovery(c) = "Proceed"
     \/ code = "PENDING_RESOLUTION_REQUIRED" /\ Recovery(c) = "NeedsOperator"
     \/ code = "INTERNAL"
  /\ calls' = Answer(c, code)
  /\ audit' = audit \cup AuditOf(c, code)
  /\ UNCHANGED <<now, plans, confs, keys, wire, stories, target>>

-----------------------------------------------------------------------------
(* The environment. *)

\* Someone else creates a record the lookup cannot tell from the plan's.
ForeignCreate(f, g) ==
  /\ tool = "create"
  /\ \A s \in stories : s.by # f
  /\ stories' = stories \cup {[by |-> f, sig |-> g, at |-> now]}
  /\ UNCHANGED <<now, plans, confs, keys, calls, wire, target, audit>>

ForeignUpdate ==
  /\ tool = "update"
  /\ target.ver < MaxEdits
  /\ target' = [ver |-> target.ver + 1, val |-> None]
  /\ UNCHANGED <<now, plans, confs, keys, calls, wire, stories, audit>>

Tick ==
  /\ now < load.now
  /\ FlightsFit => \A c \in InFlight : keys[calls[c].key].expires > now + 1
  /\ now' = now + 1
  /\ UNCHANGED <<plans, confs, keys, calls, wire, stories, target, audit>>

\* The daemon dies; the database survives.
Crash ==
  /\ InFlight # {}
  /\ calls' = [c \in Calls |-> IF c \in InFlight
                                 THEN [calls[c] EXCEPT !.pc = "dropped"] ELSE calls[c]]
  /\ UNCHANGED <<now, plans, confs, keys, wire, stories, target, audit>>

Next ==
  /\ \/ \E p \in Plans, h \in Hashes, a \in Actors : PlanStory(p, h, a)
     \/ \E c \in Calls, p, tok, k \in Plans, a \in Actors, lockedOut, limited \in BOOLEAN :
          Apply(c, p, tok, k, a, lockedOut, limited)
     \/ \E c \in Calls :
          \/ \E done \in 0..4 : ResolveRecovered(c, done) \/ WriteOk(c, done)
          \/ \E done \in 0..3 : RecoverRecovered(c, done)
          \/ \E limited \in BOOLEAN : ResolveProceeds(c, limited)
          \/ \E code \in Codes : ResolveStops(c, code) \/ CheckStops(c, code) \/ RecoverStops(c, code)
          \/ CheckPasses(c)
          \/ SnowApplies(c)
          \/ SnowRejects(c)
          \/ WriteFails(c)
     \/ \E f \in Foreign, g \in Sigs : ForeignCreate(f, g)
     \/ ForeignUpdate
     \/ Tick
     \/ Crash
  /\ UNCHANGED <<tool, load>>

Spec == Init /\ [][Next]_vars

-----------------------------------------------------------------------------
(* Properties *)

\* For clients that wait for each answer, one plan under the key minted with it is
\* written at most once over errors, lost replies, crashes and retries, as long as
\* ServiceNow serves no write after its sender gave up: the pending lookup finds what
\* an earlier attempt left.  (The key of an older plan for the same operation can
\* expire before the plan does; then nothing asks for the lookup.)
WrittenOnce ==
  load.atOnce = 1 /\ ~load.late =>
    \A c, d \in Calls :
      /\ wire[c] = "applied" /\ wire[d] = "applied"
      /\ calls[c].plan = calls[d].plan /\ calls[c].key = calls[c].plan /\ calls[d].key = calls[d].plan
      => c = d

\* UPSTREAM_ERROR tells the caller to try again, so it is never the answer to
\* a write that ServiceNow carried out (save one served late).
ErrorMeansUnwritten ==
  ~load.late => \A c \in Calls : calls[c].out = "UPSTREAM_ERROR" => wire[c] # "applied"

\* A receipt for a created record names one that is there, of the operation
\* the reservation is for; the confirmation is consumed, and the call that
\* consumed it said so in the audit log.
ReceiptBacked ==
  \A k \in Plans, c \in Calls : keys[k].receipt = c =>
    /\ tool = "create" =>
         \E s \in stories : s.by = calls[c].record /\ s.sig = SigOf[keys[k].hash]
    /\ confs[calls[c].token].consumed
    /\ calls[c].spent \/ <<c, "confirmation_consume">> \in audit
=============================================================================
