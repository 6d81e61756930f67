----------------------------- MODULE ChangeWrite -----------------------------
(***************************************************************************)
(* Governed change and incident writes: handle_change_plan and             *)
(* handle_change_apply of crates/snow_daemon/src/change_write.rs over the  *)
(* stores of GovernedStores, a ServiceNow instance that serves reads and   *)
(* writes in its own time, clients that call apply concurrently, and       *)
(* daemon crashes.                                                         *)
(*                                                                         *)
(* The daemon is single threaded: a handler runs without interruption      *)
(* between two network awaits, so each such stretch is one action.  An     *)
(* apply call is waiting for the fresh read of the target ("reading", then *)
(* "readback" once ServiceNow has answered and the answer is on its way)   *)
(* or for its write ("writing").                                           *)
(***************************************************************************)
EXTENDS GovernedStores, FiniteSets

CONSTANTS Plans,       \* plan ids; a plan's confirmation token has the same id
          Keys,        \* idempotency keys
          OwnKey,      \* OwnKey[p]: the key minted by the server with plan p
          KeysFor,     \* KeysFor[p]: keys a client sends with plan p
          Calls,       \* apply requests
          Tool,        \* the apply tool all the plans are for
          FlightsFit,  \* does every call end before its reservation expires?
          MaxNow,      \* bound on the clock
          MaxMod       \* bound on the target's update counter

Tools == {"change_create", "change_update", "incident_update"}
IsUpdate == Tool \in {"change_update", "incident_update"}
IsIncident == Tool = "incident_update"

\* The answers of handle_change_apply (INTERNAL is an unaudited internal error).
Codes == {"PLAN_NOT_FOUND", "PLAN_EXPIRED", "IDEMPOTENCY_CONFLICT",
          "PENDING_RESOLUTION_REQUIRED", "FIELD_REJECTED",
          "CONCURRENCY_TOKEN_INVALID", "CONCURRENCY_CONFLICT",
          "CONFIRMATION_INVALID", "UPSTREAM_ERROR", "LOCAL_COHERENCE_FAILED",
          "INTERNAL", "replay", "ok"}

ASSUME ChangeAssumption ==
  /\ OwnKey \in [Plans -> Keys]
  /\ KeysFor \in [Plans -> SUBSET Keys]
  /\ Tool \in Tools
  /\ FlightsFit \in BOOLEAN
  /\ MaxNow \in Nat
  /\ MaxMod \in Nat
  /\ None \notin Calls
  /\ None \notin Plans
  /\ None \notin Keys
  /\ None \notin Codes

VARIABLES now,    \* the clock
          plans,  \* mcp_plans
          confs,  \* mcp_confirmations, by the plan they were issued for
          keys,   \* mcp_idempotency, for this tool
          calls,  \* apply calls: arguments, progress and answer
          wire,   \* each call's write as ServiceNow sees it
          mod,    \* the target's sys_mod_count
          audit   \* audit rows <<call or plan, result status>>

vars == <<now, plans, confs, keys, calls, wire, mod, audit>>

NoCall == [pc |-> "idle", plan |-> None, token |-> None, key |-> None,
           actor |-> None, tokenOk |-> FALSE, seen |-> None, out |-> None]

\* A call that was made has its arguments.
MadeCall == [pc: {"reading", "readback", "writing", "done", "dropped"},
             plan: Plans, token: Plans, key: Keys, actor: Actors,
             tokenOk: BOOLEAN, seen: Nat \cup {None}, out: Codes \cup {None}]

NewCall(p, tok, k, a, tokenOk) ==
  [pc |-> "reading", plan |-> p, token |-> tok, key |-> k, actor |-> a,
   tokenOk |-> tokenOk, seen |-> None, out |-> None]

AuditRows == (Calls \cup Plans) \X
               {"plan", "denied", "error", "applied_success", "applied_partial"}

InFlight == {c \in Calls : calls[c].pc \in {"reading", "readback", "writing"}}
Writers == {c \in Calls : calls[c].pc = "writing"}
HashOf(c) == plans[calls[c].plan].hash

TypeOK ==
  /\ now \in Nat
  /\ plans \in [Plans -> PlanRow]
  /\ confs \in [Plans -> ConfRow]
  /\ keys \in [Keys -> KeyRow(Calls)]
  /\ calls \in [Calls -> {NoCall} \cup MadeCall]
  /\ wire \in [Calls -> {"none", "posted", "applied", "rejected"}]
  /\ mod \in Nat
  /\ audit \in SUBSET AuditRows

Init ==
  /\ now = 0
  /\ plans = [p \in Plans |-> NoPlanRow]
  /\ confs = [p \in Plans |-> NoConfRow]
  /\ keys = [k \in Keys |-> NoKeyRow]
  /\ calls = [c \in Calls |-> NoCall]
  /\ wire = [c \in Calls |-> "none"]
  /\ mod = 0
  /\ audit = {}

-----------------------------------------------------------------------------
(* handle_change_plan, from the moment its read of the target is answered:  *)
(* reserve the minted key, store the plan, audit, issue the confirmation.   *)
(* An update of the target between that answer and the reservation acts as  *)
(* one right after this step: either way the planned token is stale.        *)

PlanChange(p, h, a) ==
  /\ plans[p].state = "absent"
  /\ CheckOutcome(keys[OwnKey[p]], h, now) = "NewKey"
  /\ keys' = [keys EXCEPT ![OwnKey[p]] = CheckAndRecord(@, h, now)]
  /\ plans' = [plans EXCEPT ![p] = PutPlan(h, mod, now)]
  /\ audit' = audit \cup {<<p, "plan">>}
  /\ confs' = [confs EXCEPT ![p] = IssueConfirmation(h, a, now)]
  /\ UNCHANGED <<now, calls, wire, mod>>

-----------------------------------------------------------------------------
(* handle_change_apply *)

\* The status audited_change_error records with an answer.
AuditStatus(code) ==
  CASE code \in {"PLAN_NOT_FOUND", "PENDING_RESOLUTION_REQUIRED", "UPSTREAM_ERROR"} -> "error"
    [] code = "LOCAL_COHERENCE_FAILED" -> "applied_partial"
    [] code = "ok"                     -> "applied_success"
    [] OTHER                           -> "denied"

AuditWith(c, code) ==
  audit' = IF code \in {"INTERNAL", "replay"} THEN audit
           ELSE audit \cup {<<c, AuditStatus(code)>>}

\* Variant with a fault: the key alone selects the receipt.
EntryVerdictAnyHash(p, tok, a, row) ==
  IF plans[p].state = "absent" THEN "PLAN_NOT_FOUND"
  ELSE IF PlanExpired(plans[p], now) THEN "PLAN_EXPIRED"
  ELSE IF KeyLive(row, now) /\ row.receipt # None THEN "replay"
  ELSE None

\* Everything up to the first await, on the reservation as it stands: the
\* early answer, or None to go on.
EntryVerdict(p, tok, a, row) ==
  IF plans[p].state = "absent" THEN "PLAN_NOT_FOUND"
  ELSE IF PlanExpired(plans[p], now) THEN "PLAN_EXPIRED"
  ELSE IF ~KeyLive(row, now) THEN None
  ELSE IF row.hash # plans[p].hash THEN "IDEMPOTENCY_CONFLICT"
  ELSE IF row.receipt # None
    THEN IF BindingVerdict(confs[tok], a, plans[p].hash, now) = "ok"
           THEN "replay" ELSE "CONFIRMATION_INVALID"
  ELSE IF row.started THEN "PENDING_RESOLUTION_REQUIRED"
  ELSE None

\* From the concurrency-token check to the started mark, on the row as it
\* stands then: the answer, or None to send the write.
GateVerdict(p, tok, a, tokenOk, seen, row) ==
  LET conf == ConfirmationVerdict(confs[tok], a, plans[p].hash, now)
  IN IF IsUpdate /\ ~tokenOk THEN "CONCURRENCY_TOKEN_INVALID"
     ELSE IF IsUpdate /\ seen # None /\ seen # plans[p].token THEN "CONCURRENCY_CONFLICT"
     ELSE IF conf = "AlreadyConsumed" /\ IsIncident /\ row.receipt # None THEN "replay"
     ELSE IF conf = "AlreadyConsumed" /\ IsIncident /\ row.started
       THEN "PENDING_RESOLUTION_REQUIRED"
     ELSE IF conf # "ok" THEN "CONFIRMATION_INVALID"
     ELSE IF IsIncident /\ ~CanClaim(row) THEN "PENDING_RESOLUTION_REQUIRED"
     ELSE None

\* An answered call needs what it read and its concurrency token no more.
Done(x, code) == [x EXCEPT !.pc = "done", !.out = code, !.seen = None, !.tokenOk = FALSE]
Answer(c, code) == [calls EXCEPT ![c] = Done(@, code)]

\* The gate, from a call record x and a reservation row: answer, or claim
\* the row and send the write.
PassGate(c, x, row) ==
  LET v == GateVerdict(x.plan, x.token, x.actor, x.tokenOk, x.seen, row)
  IN \/ /\ v # None
        /\ calls' = [calls EXCEPT ![c] = Done(x, v)]
        /\ keys' = [keys EXCEPT ![x.key] = row]
        /\ AuditWith(c, v)
        /\ UNCHANGED wire
     \/ /\ v = None
        /\ calls' = [calls EXCEPT ![c] = [x EXCEPT !.pc = "writing"]]
        /\ keys' = [keys EXCEPT ![x.key] = MarkApplyStarted(row)]
        /\ wire' = [wire EXCEPT ![c] = "posted"]
        /\ UNCHANGED audit

\* A call arrives with a plan, any issued confirmation token, a key the
\* client may know, an identity, and the right or a wrong concurrency token
\* (a create carries none).
Apply(c, p, tok, k, a, tokenOk) ==
  LET x == NewCall(p, tok, k, a, tokenOk)
      v == EntryVerdict(p, tok, a, keys[k])
      row == CheckAndRecord(keys[k], plans[p].hash, now)
  IN /\ calls[c].pc = "idle"
     /\ k \in KeysFor[p]
     /\ IsUpdate \/ tokenOk
     /\ \A q \in Plans : OwnKey[q] = k => plans[q].state # "absent"
     /\ \/ /\ v # None
           /\ calls' = [calls EXCEPT ![c] = Done(x, v)]
           /\ plans' = IF v = "PLAN_EXPIRED"
                         THEN [plans EXCEPT ![p] = MarkPlanExpired(@)] ELSE plans
           /\ AuditWith(c, v)
           /\ UNCHANGED <<keys, wire>>
        \/ \* apply_field_rejections: the policy no longer allows the fields
           /\ v = None
           /\ calls' = [calls EXCEPT ![c] = Done(x, "FIELD_REJECTED")]
           /\ keys' = [keys EXCEPT ![k] = row]
           /\ AuditWith(c, "FIELD_REJECTED")
           /\ UNCHANGED <<plans, wire>>
        \/ /\ v = None
           /\ IsUpdate
           /\ calls' = [calls EXCEPT ![c] = x]
           /\ keys' = [keys EXCEPT ![k] = row]
           /\ UNCHANGED <<plans, wire, audit>>
        \/ /\ v = None
           /\ ~IsUpdate
           /\ PassGate(c, x, row)
           /\ UNCHANGED plans
     /\ UNCHANGED <<now, confs, mod>>

\* ServiceNow answers the read: the current counter, or no such record.
SnowRead(c) ==
  /\ calls[c].pc = "reading"
  /\ \E s \in {mod, None} :
       calls' = [calls EXCEPT ![c].pc = "readback", ![c].seen = s]
  /\ UNCHANGED <<now, plans, confs, keys, wire, mod, audit>>

ReadReturns(c) ==
  /\ calls[c].pc = "readback"
  /\ PassGate(c, calls[c], keys[calls[c].key])
  /\ UNCHANGED <<now, plans, confs, mod>>

ReadFails(c) ==
  /\ calls[c].pc \in {"reading", "readback"}
  /\ calls' = Answer(c, "INTERNAL")
  /\ UNCHANGED <<now, plans, confs, keys, wire, mod, audit>>

-----------------------------------------------------------------------------
(* The write at ServiceNow.  A posted write is served, refused or lost,     *)
(* whether or not its caller is still waiting.                              *)

SnowApplies(c) ==
  /\ wire[c] = "posted"
  /\ mod < MaxMod
  /\ wire' = [wire EXCEPT ![c] = "applied"]
  /\ mod' = mod + 1
  /\ UNCHANGED <<now, plans, confs, keys, calls, audit>>

SnowRejects(c) ==
  /\ wire[c] = "posted"
  /\ wire' = [wire EXCEPT ![c] = "rejected"]
  /\ UNCHANGED <<now, plans, confs, keys, calls, mod, audit>>

\* Variants with a fault: the error answer is kept as the receipt; the write is
\* sent again for as long as it fails.
WriteUpstreamErrorSaved(c) ==
  /\ calls[c].pc = "writing"
  /\ wire[c] = "rejected"
  /\ keys' = [keys EXCEPT ![calls[c].key] = SaveReceipt(@, c)]
  /\ calls' = Answer(c, "UPSTREAM_ERROR")
  /\ AuditWith(c, "UPSTREAM_ERROR")
  /\ UNCHANGED <<now, plans, confs, wire, mod>>

WriteUpstreamErrorRetried(c) ==
  /\ calls[c].pc = "writing"
  /\ wire[c] = "rejected"
  /\ wire' = [wire EXCEPT ![c] = "posted"]
  /\ UNCHANGED <<now, plans, confs, keys, calls, mod, audit>>

\* apply_plan returned an error: ServiceNow refused, or the request or its reply
\* was lost, and the write may yet be served.  With an Incident the error comes from the
\* PATCH itself, and the claim is given back; a change tool also reports its
\* failed refetch of an applied write this way, and keeps the mark.
WriteUpstreamError(c) ==
  /\ calls[c].pc = "writing"
  /\ keys' = IF IsIncident
               THEN [keys EXCEPT ![calls[c].key] = ClearApplyStarted(@)] ELSE keys
  /\ calls' = Answer(c, "UPSTREAM_ERROR")
  /\ AuditWith(c, "UPSTREAM_ERROR")
  /\ UNCHANGED <<now, plans, confs, wire, mod>>

\* Variant with a fault: a local failure gives the claim back.
WriteLocalCoherenceCleared(c) ==
  /\ IsIncident
  /\ calls[c].pc = "writing"
  /\ wire[c] = "applied"
  /\ keys' = [keys EXCEPT ![calls[c].key] = ClearApplyStarted(@)]
  /\ calls' = Answer(c, "LOCAL_COHERENCE_FAILED")
  /\ AuditWith(c, "LOCAL_COHERENCE_FAILED")
  /\ UNCHANGED <<now, plans, confs, wire, mod>>

\* update_incident wrote, but its refetch or its prune failed.
WriteLocalCoherence(c) ==
  /\ IsIncident
  /\ calls[c].pc = "writing"
  /\ wire[c] = "applied"
  /\ calls' = Answer(c, "LOCAL_COHERENCE_FAILED")
  /\ AuditWith(c, "LOCAL_COHERENCE_FAILED")
  /\ UNCHANGED <<now, plans, confs, keys, wire, mod>>

\* The write succeeded: consume, audit, save the receipt, mark the plan
\* consumed.  done is how many of the first three statements took effect:
\* fewer than three is a store failure on the way (INTERNAL).
WriteOk(c, done) ==
  LET x == calls[c]
      v == ConsumeVerdict(confs[x.token], x.actor, HashOf(c), now)
      receipt == SaveReceipt(keys[x.key], c)
  IN /\ x.pc = "writing"
     /\ wire[c] = "applied"
     /\ \/ /\ v # "ok"
           /\ done = 0
           /\ calls' = Answer(c, "CONFIRMATION_INVALID")
           /\ AuditWith(c, "CONFIRMATION_INVALID")
           /\ UNCHANGED <<plans, confs, keys>>
        \/ /\ v = "ok"
           /\ calls' = Answer(c, IF done = 3 THEN "ok" ELSE "INTERNAL")
           /\ confs' = IF done >= 1 THEN [confs EXCEPT ![x.token] = ConsumeRow(@)] ELSE confs
           /\ audit' = IF done >= 2 THEN audit \cup {<<c, AuditStatus("ok")>>} ELSE audit
           /\ keys' = IF done = 3 THEN [keys EXCEPT ![x.key] = receipt] ELSE keys
           /\ plans' = IF done = 3 THEN [plans EXCEPT ![x.plan] = MarkPlanConsumed(@)] ELSE plans
     /\ UNCHANGED <<now, wire, mod>>

-----------------------------------------------------------------------------
(* Environment *)

\* Somebody else updates the target.
ForeignUpdate ==
  /\ mod < MaxMod
  /\ mod' = mod + 1
  /\ UNCHANGED <<now, plans, confs, keys, calls, wire, audit>>

Tick ==
  /\ now < MaxNow
  /\ FlightsFit => \A c \in InFlight : keys[calls[c].key].expires > now + 1
  /\ now' = now + 1
  /\ UNCHANGED <<plans, confs, keys, calls, wire, mod, audit>>

\* The daemon dies: the SQLite file survives, every call in flight is lost.
Crash ==
  /\ InFlight # {}
  /\ calls' = [c \in Calls |-> IF c \in InFlight
                                 THEN [calls[c] EXCEPT !.pc = "dropped"] ELSE calls[c]]
  /\ UNCHANGED <<now, plans, confs, keys, wire, mod, audit>>

Handler(c) ==
  \/ ReadReturns(c)
  \/ ReadFails(c)
  \/ WriteUpstreamError(c)
  \/ WriteLocalCoherence(c)
  \/ \E done \in 0..3 : WriteOk(c, done)

Snow(c) == SnowRead(c) \/ SnowApplies(c) \/ SnowRejects(c)

Next ==
  \/ \E p \in Plans, h \in Hashes, a \in Actors : PlanChange(p, h, a)
  \/ \E c \in Calls, p, tok \in Plans, k \in Keys, a \in Actors, ok \in BOOLEAN :
       Apply(c, p, tok, k, a, ok)
  \/ \E c \in Calls : Handler(c) \/ Snow(c)
  \/ ForeignUpdate
  \/ Tick
  \/ Crash

Spec == Init /\ [][Next]_vars

\* A handler that can run is eventually polled by the runtime, and a wait for
\* ServiceNow ends with an answer or with the client library's network error
\* (the code awaits the library without a deadline of its own).
FairSpec ==
  /\ Spec
  /\ \A c \in Calls : WF_vars(Handler(c))
  /\ \A c \in Calls : WF_vars(Snow(c))

-----------------------------------------------------------------------------
(* Properties *)

Same(c, d) == calls[c].key = calls[d].key /\ calls[c].plan = calls[d].plan

\* try_mark_apply_started is a mutual exclusion: two Incident calls are never
\* both past the claim on one reservation, waiting for their PATCHes.
SingleClaim ==
  IsIncident => \A c, d \in Writers : calls[c].key = calls[d].key => c = d

\* Under the key minted with it, an Incident plan's PATCH takes effect at most
\* once over retries, concurrent calls, local failures and crashes, save for
\* calls answered UPSTREAM_ERROR: those gave their claim back, and when only the
\* reply was lost their PATCH took effect as well.
AppliedOnce ==
  IsIncident /\ PlanTTL <= Window =>
    \A c, d \in Calls :
      /\ wire[c] = "applied" /\ wire[d] = "applied"
      /\ Same(c, d) /\ calls[c].key = OwnKey[calls[c].plan]
      /\ "UPSTREAM_ERROR" \notin {calls[c].out, calls[d].out}
      => c = d

\* A stored receipt is evidence of a write ServiceNow applied, made by a call
\* of the reserved operation under that key, and already in the audit log.
ReceiptBacked ==
  \A k \in Keys, c \in Calls : keys[k].receipt = c =>
    /\ wire[c] = "applied"
    /\ calls[c].key = k
    /\ HashOf(c) = keys[k].hash
    /\ <<c, "applied_success">> \in audit

\* An answer replayed to a caller reports an applied write of the very
\* operation the caller asked for.
ReplayBacked ==
  \A c \in Calls : calls[c].out = "replay" =>
    \E d \in Calls : wire[d] = "applied" /\ calls[d].key = calls[c].key
                      /\ HashOf(d) = HashOf(c)

\* The conditional UPDATE of consume(): a confirmation is acknowledged as
\* used by one call only, however many calls wrote under it.
OneOkPerConfirmation ==
  \A c, d \in Calls : calls[c].out = "ok" /\ calls[d].out = "ok"
                       /\ calls[c].token = calls[d].token => c = d

\* The strengthening under which SingleClaim, ReceiptBacked and ReceiptStable
\* are inductive: a call in flight has a stored plan and a live reservation of
\* that plan's operation; an Incident writer also holds the
\* started mark on a row without receipt; a write on the wire belongs to a
\* call that got past the gate.
InFlightInv ==
  \A c \in InFlight :
    /\ plans[calls[c].plan].state # "absent"
    /\ KeyLive(keys[calls[c].key], now)
    /\ keys[calls[c].key].hash = HashOf(c)
ClaimInv ==
  IsIncident => \A c \in Writers : /\ keys[calls[c].key].started
                                   /\ keys[calls[c].key].receipt = None
WireInv ==
  \A c \in Calls : wire[c] # "none" =>
    /\ calls[c].pc \in {"writing", "done", "dropped"}
    /\ plans[calls[c].plan].state # "absent"
PlanInv == \A p \in Plans : plans[p].state # "absent" => plans[p].hash \in Hashes
IndInv == PlanInv /\ InFlightInv /\ ClaimInv /\ SingleClaim /\ WireInv /\ ReceiptBacked

\* Once an Incident receipt is stored under a live reservation it is never
\* replaced: later calls can only replay it.
ReceiptStable ==
  [][IsIncident => \A k \in Keys :
       keys[k].receipt # None /\ KeyLive(keys[k], now) => keys'[k].receipt = keys[k].receipt]_vars

\* Every apply call that started is answered, or dies with the daemon.
Answered ==
  \A c \in Calls : calls[c].pc \in {"reading", "readback", "writing"}
                     ~> calls[c].pc \in {"done", "dropped"}

\* The refinement: a call is waiting until it is answered or sends its write, and a
\* receipt counts while its reservation lives.
AbstractCall(c) ==
  LET x == calls[c] IN
  [st |-> CASE x.pc \in {"idle", "reading", "readback"} -> "waiting"
            [] x.pc = "writing" -> "writing"
            [] x.pc = "dropped" -> "lost"
            [] x.pc = "done" /\ x.out = "ok" -> "done"
            [] x.pc = "done" /\ x.out = "replay" -> "replayed"
            [] x.pc = "done" /\ x.out \notin {"ok", "replay"} /\ wire[c] # "none" -> "unsure"
            [] OTHER -> "refused",
   key |-> IF x.pc = "writing" THEN x.key ELSE None,
   token |-> IF x.pc = "writing" THEN x.token ELSE None]
AbstractCalls == [c \in Calls |-> AbstractCall(c)]
AbstractLedger == [k \in Keys |-> IF KeyLive(keys[k], now) THEN keys[k].receipt ELSE None]
AbstractSpent == {p \in Plans : confs[p].consumed}

G == INSTANCE GovernedWrite WITH
       Tokens <- Plans, Exclusive <- IsIncident,
       call <- AbstractCalls, effect <- wire, ledger <- AbstractLedger, spent <- AbstractSpent

\* The handlers keep the promise of GovernedWrite: a refused call wrote nothing, a replay
\* reports a receipt, a receipt and an "ok" stand for an applied write, each confirmation
\* is acknowledged once, and Incident writes under a key exclude each other.
Governed == G!Spec

\* CHANGELOG: a concurrent double-apply loses the race on the confirmation
\* instead of both callers proceeding.
ConfirmationWinsRace ==
  \A c, d \in Calls : wire[c] = "applied" /\ wire[d] = "applied"
                       /\ calls[c].token = calls[d].token => c = d

\* Consumer handoff: CONFIRMATION_INVALID means the operation was not applied
\* and may be planned again.
InvalidMeansNotApplied ==
  \A c \in Calls : calls[c].out = "CONFIRMATION_INVALID" => wire[c] # "applied"
=============================================================================
