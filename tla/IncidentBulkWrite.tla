-------------------------- MODULE IncidentBulkWrite --------------------------
(***************************************************************************)
(* Governed bulk Incident updates: handle_plan, handle_apply and BulkStore *)
(* of crates/snow_daemon/src/incident_bulk_write.rs.  One confirmation     *)
(* authorises a PATCH of several Incidents.  ServiceNow offers no          *)
(* transaction over them, so the handler claims the idempotency row,       *)
(* consumes the confirmation, and then walks the targets in sys_id order,  *)
(* saving its progress, until one of them fails.                           *)
(*                                                                         *)
(* The awaits of an apply are the preflight read of each target            *)
(* ("preflight"), the read before each PATCH ("recheck"), the PATCH        *)
(* ("patching") and the read-back and projection update after it           *)
(* ("settling"); each stretch between two awaits is one action.            *)
(***************************************************************************)
EXTENDS GovernedStores, FiniteSets

CONSTANTS N,           \* targets of a plan, numbered in sys_id order
          Patches,     \* the planned field changes
          Plans,       \* plan ids; a plan's token and key have the same id
          Calls,       \* apply requests
          MaxVersion,  \* bound on each target's sys_updated_on
          MaxNow       \* bound on the clock

Targets == 1..N
Version == 0..MaxVersion
Results == [Targets -> {"not_attempted", "applied", "failed"}]
Receipt == [call: Calls, results: Results]

\* op_hash covers the targets, their patches and their sys_updated_on.
ASSUME BulkAssumption ==
  /\ N \in Nat \ {0}
  /\ MaxVersion \in Nat
  /\ MaxNow \in Nat
  /\ Hashes = [patch: Patches, vers: [Targets -> Version]]
  /\ None \notin Calls \cup Plans \cup Receipt

VARIABLES now,
          version,  \* each Incident's sys_updated_on in ServiceNow
          plans,    \* incident_bulk_plans
          confs,    \* the confirmation tokens
          keys,     \* incident_bulk_idempotency
          calls,    \* apply calls: arguments, progress and answer
          wire,     \* wire[c][t]: the PATCH of call c for target t
          audit     \* audit rows <<call or plan, status>>

vars == <<now, version, plans, confs, keys, calls, wire, audit>>

BulkPlan == [hash: Hashes \cup {None}, actor: Actors \cup {None}, expires: Nat, consumed: BOOLEAN]
NoPlan == [hash |-> None, actor |-> None, expires |-> 0, consumed |-> FALSE]

BulkKey == [hash: Hashes \cup {None}, started: BOOLEAN, expires: Nat,
            progress: Receipt \cup {None}, receipt: Receipt \cup {None},
            terminal: Calls \cup {None}]
NoKey == [hash |-> None, started |-> FALSE, expires |-> 0,
          progress |-> None, receipt |-> None, terminal |-> None]

\* "DENIED" stands for the refusals that precede every use of the tables: kill
\* switch, policy, target limit, supplied concurrency tokens.  "ERROR" is the
\* typed error of an apply that stopped with no target applied.
Codes == {"DENIED", "PLAN_NOT_FOUND", "PLAN_EXPIRED", "CONFIRMATION_INVALID",
          "IDEMPOTENCY_CONFLICT", "PENDING_RESOLUTION_REQUIRED", "READ_FAILED",
          "CONCURRENCY_CONFLICT", "INTERNAL", "ERROR", "PARTIAL_FAILURE",
          "replay", "replay_error", "ok"}

InitialReceipt == [t \in Targets |-> "not_attempted"]

NoCall == [pc |-> "idle", plan |-> None, token |-> None, key |-> None, actor |-> None,
           at |-> 0, results |-> InitialReceipt, out |-> None]

MadeCall == [pc: {"preflight", "recheck", "patching", "settling", "done", "dropped"},
             plan: Plans, token: Plans, key: Plans, actor: Actors, at: 0..N,
             results: Results, out: Codes \cup {None}]

InFlight == {c \in Calls : calls[c].pc \in {"preflight", "recheck", "patching", "settling"}}
HashOf(c) == plans[calls[c].plan].hash
Planned(c, t) == HashOf(c).vers[t]

TypeOK ==
  /\ now \in 0..MaxNow
  /\ version \in [Targets -> Version]
  /\ plans \in [Plans -> BulkPlan]
  /\ confs \in [Plans -> ConfRow]
  /\ keys \in [Plans -> BulkKey]
  /\ calls \in [Calls -> {NoCall} \cup MadeCall]
  /\ wire \in [Calls -> [Targets -> {"none", "posted", "applied", "rejected"}]]
  /\ audit \subseteq (Calls \cup Plans) \X {"plan", "error", "applied_partial", "applied_success"}

Init ==
  /\ now = 0
  /\ version = [t \in Targets |-> 0]
  /\ plans = [p \in Plans |-> NoPlan]
  /\ confs = [p \in Plans |-> NoConfRow]
  /\ keys = [p \in Plans |-> NoKey]
  /\ calls = [c \in Calls |-> NoCall]
  /\ wire = [c \in Calls |-> [t \in Targets |-> "none"]]
  /\ audit = {}

-----------------------------------------------------------------------------
(* BulkStore.  An UPDATE of a row that is not there changes nothing and    *)
(* reports no error.                                                       *)

ReserveIdempotency(h) == [NoKey EXCEPT !.hash = h, !.expires = now + Window]

\* lookup_idempotency deletes an expired row.
LookupIdempotency(row) == IF row.expires <= now THEN NoKey ELSE row

\* Variant with a fault: an apply that ended in an error may be tried again.
MarkableFailed(row) ==
  row.hash # None /\ (~row.started \/ row.terminal # None) /\ row.receipt = None

\* The condition of mark_apply_started's UPDATE.
Markable(row) ==
  row.hash # None /\ ~row.started /\ row.receipt = None /\ row.terminal = None

SaveProgress(row, r) == IF row.hash = None THEN row ELSE [row EXCEPT !.progress = r]

SaveFinalReceipt(row, r) ==
  IF row.hash = None THEN row ELSE [row EXCEPT !.receipt = r, !.progress = r]

SaveTerminalError(row, c) == IF row.hash = None THEN row ELSE [row EXCEPT !.terminal = c]

-----------------------------------------------------------------------------
(* handle_plan, from the last of its reads on.  A token that is already    *)
(* stale when the plan is stored makes a plan no apply can pass, like one  *)
(* that goes stale right after.  done counts the writes that took effect:  *)
(* plan, confirmation, key, audit row.                                     *)

PlanBulk(p, patch, a, done) ==
  LET h == [patch |-> patch, vers |-> version]
  IN /\ plans[p].hash = None
     /\ plans' = [plans EXCEPT ![p] = [hash |-> h, actor |-> a, expires |-> now + PlanTTL,
                                       consumed |-> FALSE]]
     /\ confs' = IF done >= 2 THEN [confs EXCEPT ![p] = IssueConfirmation(h, a, now)] ELSE confs
     /\ keys' = IF done >= 3 THEN [keys EXCEPT ![p] = ReserveIdempotency(h)] ELSE keys
     /\ audit' = IF done >= 4 THEN audit \cup {<<p, "plan">>} ELSE audit
     /\ UNCHANGED <<now, version, calls, wire>>

-----------------------------------------------------------------------------
(* handle_apply *)

Answer(c, code) == [calls EXCEPT ![c].pc = "done", ![c].out = code]

\* The early answer, or None; row is what lookup_idempotency returned.
EntryVerdict(p, tok, a, row) ==
  LET replayable == BindingVerdict(confs[tok], a, plans[p].hash, now) = "ok"
      confirmed == ConsumeVerdict(confs[tok], a, plans[p].hash, now) = "ok"
  IN IF plans[p].hash = None THEN "PLAN_NOT_FOUND"
     ELSE IF plans[p].expires <= now THEN "PLAN_EXPIRED"
     ELSE IF plans[p].actor # a THEN "CONFIRMATION_INVALID"
     ELSE IF row.hash # plans[p].hash THEN "IDEMPOTENCY_CONFLICT"
     ELSE IF row.terminal # None
       THEN IF replayable THEN "replay_error" ELSE "CONFIRMATION_INVALID"
     ELSE IF row.receipt # None
       THEN IF replayable THEN "replay" ELSE "CONFIRMATION_INVALID"
     ELSE IF row.started THEN "PENDING_RESOLUTION_REQUIRED"
     ELSE IF ~confirmed THEN "CONFIRMATION_INVALID"
     ELSE None

\* The table is consulted only once the plan has been found, live and the caller's own.
Apply(c, p, tok, k, a, allowed) ==
  LET row == LookupIdempotency(keys[k])
      v == IF allowed THEN EntryVerdict(p, tok, a, row) ELSE "DENIED"
      looked == allowed /\ plans[p].hash # None /\ plans[p].expires > now /\ plans[p].actor = a
      x == [NoCall EXCEPT !.pc = "preflight", !.plan = p, !.token = tok, !.key = k,
                          !.actor = a, !.at = 1]
  IN /\ calls[c].pc = "idle"
     /\ keys' = IF looked THEN [keys EXCEPT ![k] = row] ELSE keys
     /\ calls' = [calls EXCEPT ![c] =
                    IF v = None THEN x ELSE [x EXCEPT !.pc = "done", !.out = v]]
     /\ UNCHANGED <<now, version, plans, confs, wire, audit>>

\* read_target fails while no target has been touched.
PreflightFails(c) ==
  /\ calls[c].pc = "preflight"
  /\ calls' = Answer(c, "READ_FAILED")
  /\ UNCHANGED <<now, version, plans, confs, keys, wire, audit>>

PreflightConflict(c) ==
  /\ calls[c].pc = "preflight"
  /\ version[calls[c].at] # Planned(c, calls[c].at)
  /\ calls' = Answer(c, "CONCURRENCY_CONFLICT")
  /\ UNCHANGED <<now, version, plans, confs, keys, wire, audit>>

PreflightNext(c) ==
  /\ calls[c].pc = "preflight"
  /\ calls[c].at < N
  /\ version[calls[c].at] = Planned(c, calls[c].at)
  /\ calls' = [calls EXCEPT ![c].at = @ + 1]
  /\ UNCHANGED <<now, version, plans, confs, keys, wire, audit>>

\* Variant with a fault: the confirmation is only looked at.
ClaimUnconsumed(c, done) ==
  LET x == calls[c]
  IN /\ x.pc = "preflight" /\ x.at = N
     /\ done = 4
     /\ version[N] = Planned(c, N)
     /\ Markable(keys[x.key])
     /\ ConsumeVerdict(confs[x.token], x.actor, HashOf(c), now) = "ok"
     /\ calls' = [calls EXCEPT ![c].pc = "recheck", ![c].at = 1]
     /\ keys' = [keys EXCEPT ![x.key] =
                   SaveProgress([@ EXCEPT !.started = TRUE], [call |-> c, results |-> x.results])]
     /\ audit' = audit \cup {<<c, "plan">>}
     /\ UNCHANGED <<now, version, plans, confs, wire>>

\* The last preflight read agrees: audit the attempt, mark_apply_started,
\* consume, save the initial progress.  done counts the writes that took
\* effect.  At 1 the mark failed, or the consumption did and the mark was given
\* back; at 2 giving it back failed too.
Claim(c, done) ==
  LET x == calls[c]
      claimed == Markable(keys[x.key])
      consumed == ConsumeVerdict(confs[x.token], x.actor, HashOf(c), now) = "ok"
      marked == [keys[x.key] EXCEPT !.started = TRUE]
  IN /\ x.pc = "preflight" /\ x.at = N
     /\ version[N] = Planned(c, N)
     /\ audit' = IF done >= 1 THEN audit \cup {<<c, "plan">>} ELSE audit
     /\ \/ /\ done = 0
           /\ calls' = Answer(c, "INTERNAL")
           /\ UNCHANGED <<keys, confs>>
        \/ /\ done = 1
           /\ ~claimed
           /\ calls' = Answer(c, "PENDING_RESOLUTION_REQUIRED")
           /\ UNCHANGED <<keys, confs>>
        \/ /\ done = 1
           /\ claimed
           /\ \E code \in {"PENDING_RESOLUTION_REQUIRED", "CONFIRMATION_INVALID"} :
                calls' = Answer(c, code)
           /\ UNCHANGED <<keys, confs>>
        \/ /\ done = 2
           /\ claimed
           /\ calls' = Answer(c, "PENDING_RESOLUTION_REQUIRED")
           /\ keys' = [keys EXCEPT ![x.key] = marked]
           /\ UNCHANGED confs
        \/ /\ done \in {3, 4}
           /\ claimed /\ consumed
           /\ confs' = [confs EXCEPT ![x.token] = ConsumeRow(@)]
           /\ keys' = [keys EXCEPT ![x.key] =
                IF done = 4 THEN SaveProgress(marked, [call |-> c, results |-> x.results])
                            ELSE marked]
           /\ calls' = IF done = 4 THEN [calls EXCEPT ![c].pc = "recheck", ![c].at = 1]
                                   ELSE Answer(c, "PENDING_RESOLUTION_REQUIRED")
     /\ UNCHANGED <<now, version, plans, wire>>

-----------------------------------------------------------------------------
(* The loop over the targets and the end of handle_apply. *)

\* After the loop: audit the outcome, store it, mark the plan; row is the key
\* row the loop left.  done counts the first two that took effect.
Conclude(c, results, failure, row, done) ==
  LET x == calls[c]
      unapplied == failure /\ \A t \in Targets : results[t] # "applied"
      status == IF unapplied THEN "error"
                ELSE IF failure THEN "applied_partial" ELSE "applied_success"
      code == IF unapplied THEN "ERROR" ELSE IF failure THEN "PARTIAL_FAILURE" ELSE "ok"
  IN /\ calls' = [calls EXCEPT ![c].pc = "done", ![c].results = results,
                    ![c].out = IF done = 2 THEN code ELSE "PENDING_RESOLUTION_REQUIRED"]
     /\ audit' = IF done >= 1 THEN audit \cup {<<c, status>>} ELSE audit
     /\ keys' = [keys EXCEPT ![x.key] =
                   IF done < 2 THEN row
                   ELSE IF unapplied THEN SaveTerminalError(row, c)
                   ELSE SaveFinalReceipt(row, [call |-> c, results |-> results])]
     /\ plans' = IF done = 2 /\ ~unapplied
                   THEN [plans EXCEPT ![x.plan].consumed = TRUE] ELSE plans

\* save_progress and then the end of the handler.
SaveAndConclude(c, results, failure, done) ==
  \/ /\ done = 0
     /\ calls' = Answer(c, "PENDING_RESOLUTION_REQUIRED")
     /\ UNCHANGED <<keys, audit, plans>>
  \/ /\ done >= 1
     /\ Conclude(c, results, failure,
                 SaveProgress(keys[calls[c].key], [call |-> c, results |-> results]), done - 1)

With(c, status) == [calls[c].results EXCEPT ![calls[c].at] = status]

\* The read before the PATCH failed, or shows another sys_updated_on; the
\* failure is not saved as progress.
RecheckStops(c, read, done) ==
  /\ calls[c].pc = "recheck"
  /\ read => version[calls[c].at] # Planned(c, calls[c].at)
  /\ Conclude(c, With(c, "failed"), TRUE, keys[calls[c].key], done)
  /\ UNCHANGED <<now, version, confs, wire>>

SendPatch(c) ==
  LET t == calls[c].at
  IN /\ calls[c].pc = "recheck"
     /\ version[t] = Planned(c, t)
     /\ calls' = [calls EXCEPT ![c].pc = "patching"]
     /\ wire' = [wire EXCEPT ![c][t] = "posted"]
     /\ UNCHANGED <<now, version, plans, confs, keys, audit>>

\* ServiceNow serves a PATCH sooner or later, also for a caller that is gone.
SnowApplies(c, t) ==
  /\ wire[c][t] = "posted"
  /\ version[t] < MaxVersion
  /\ version' = [version EXCEPT ![t] = @ + 1]
  /\ wire' = [wire EXCEPT ![c][t] = "applied"]
  /\ UNCHANGED <<now, plans, confs, keys, calls, audit>>

SnowRejects(c, t) ==
  /\ wire[c][t] = "posted"
  /\ wire' = [wire EXCEPT ![c][t] = "rejected"]
  /\ UNCHANGED <<now, version, plans, confs, keys, calls, audit>>

\* The PATCH was refused, or its reply was lost or never came.
PatchFails(c, done) ==
  /\ calls[c].pc = "patching"
  /\ SaveAndConclude(c, With(c, "failed"), TRUE, done)
  /\ UNCHANGED <<now, version, confs, wire>>

\* Variant with a fault: a PATCH that was sent is taken for applied.
PatchReturnsUnread(c) ==
  /\ calls[c].pc = "patching"
  /\ calls' = [calls EXCEPT ![c].pc = "settling"]
  /\ UNCHANGED <<now, version, plans, confs, keys, wire, audit>>

PatchReturns(c) ==
  /\ calls[c].pc = "patching"
  /\ wire[c][calls[c].at] = "applied"
  /\ calls' = [calls EXCEPT ![c].pc = "settling"]
  /\ UNCHANGED <<now, version, plans, confs, keys, wire, audit>>

\* The new sys_updated_on could not be read back, or the local projections
\* could not be replaced: the target counts as applied and the loop stops.
SettleIncoherent(c, done) ==
  /\ calls[c].pc = "settling"
  /\ SaveAndConclude(c, With(c, "applied"), TRUE, done)
  /\ UNCHANGED <<now, version, confs, wire>>

\* Variant with a fault: progress is saved only when the loop ends.
SettleNextUnsaved(c, done) ==
  /\ calls[c].pc = "settling"
  /\ calls[c].at < N
  /\ done = 1
  /\ calls' = [calls EXCEPT ![c].pc = "recheck", ![c].at = @ + 1,
                            ![c].results = With(c, "applied")]
  /\ UNCHANGED <<now, version, plans, confs, keys, wire, audit>>

SettleNext(c, done) ==
  /\ calls[c].pc = "settling"
  /\ calls[c].at < N
  /\ \/ /\ done = 0
        /\ calls' = Answer(c, "PENDING_RESOLUTION_REQUIRED")
        /\ UNCHANGED keys
     \/ /\ done = 1
        /\ calls' = [calls EXCEPT ![c].pc = "recheck", ![c].at = @ + 1,
                                  ![c].results = With(c, "applied")]
        /\ keys' = [keys EXCEPT ![calls[c].key] =
                      SaveProgress(@, [call |-> c, results |-> With(c, "applied")])]
  /\ UNCHANGED <<now, version, plans, confs, wire, audit>>

SettleLast(c, done) ==
  /\ calls[c].pc = "settling"
  /\ calls[c].at = N
  /\ SaveAndConclude(c, With(c, "applied"), FALSE, done)
  /\ UNCHANGED <<now, version, confs, wire>>

-----------------------------------------------------------------------------
(* The environment. *)

ForeignUpdate(t) ==
  /\ version[t] < MaxVersion
  /\ version' = [version EXCEPT ![t] = @ + 1]
  /\ UNCHANGED <<now, plans, confs, keys, calls, wire, audit>>

Tick ==
  /\ now < MaxNow
  /\ now' = now + 1
  /\ UNCHANGED <<version, plans, confs, keys, calls, wire, audit>>

\* The daemon dies; the database survives.
Crash ==
  /\ InFlight # {}
  /\ calls' = [c \in Calls |-> IF c \in InFlight
                                 THEN [calls[c] EXCEPT !.pc = "dropped"] ELSE calls[c]]
  /\ UNCHANGED <<now, version, plans, confs, keys, wire, audit>>

Next ==
  \/ \E p \in Plans, patch \in Patches, a \in Actors, done \in 1..4 : PlanBulk(p, patch, a, done)
  \/ \E c \in Calls, p, tok, k \in Plans, a \in Actors, allowed \in BOOLEAN :
       Apply(c, p, tok, k, a, allowed)
  \/ \E c \in Calls :
       \/ PreflightFails(c)
       \/ PreflightConflict(c)
       \/ PreflightNext(c)
       \/ SendPatch(c)
       \/ PatchReturns(c)
       \/ \E done \in 0..4 : Claim(c, done)
       \/ \E done \in 0..3 : PatchFails(c, done) \/ SettleIncoherent(c, done) \/ SettleLast(c, done)
       \/ \E done \in 0..2, read \in BOOLEAN : RecheckStops(c, read, done)
       \/ \E done \in 0..1 : SettleNext(c, done)
       \/ \E t \in Targets : SnowApplies(c, t) \/ SnowRejects(c, t)
  \/ \E t \in Targets : ForeignUpdate(t)
  \/ Tick
  \/ Crash

Spec == Init /\ [][Next]_vars

-----------------------------------------------------------------------------
(* Properties *)

\* One confirmation, or one idempotency key, sends each target's PATCH at most
\* once, whatever calls, retries, lost replies, store failures and crashes come
\* together (mark_apply_started and consume precede the first PATCH).
TargetOnce ==
  \A c, d \in Calls, t \in Targets :
    /\ wire[c][t] # "none"
    /\ wire[d][t] # "none"
    /\ calls[c].token = calls[d].token \/ calls[c].key = calls[d].key
    => c = d

\* What the idempotency row says of the targets is so: "applied" was applied,
\* "not_attempted" in a final receipt was never sent, a full success was
\* audited, and a stored error means that at most one PATCH ever went out.
ReceiptTrue ==
  \A k \in Plans :
    /\ keys[k].progress # None =>
         \A t \in Targets : keys[k].progress.results[t] = "applied" =>
           wire[keys[k].progress.call][t] = "applied"
    /\ keys[k].receipt # None =>
         LET r == keys[k].receipt
         IN /\ \A t \in Targets : r.results[t] = "not_attempted" => wire[r.call][t] = "none"
            /\ \E s \in {"applied_partial", "applied_success"} : <<r.call, s>> \in audit
            /\ confs[calls[r.call].token].consumed
    /\ keys[k].terminal # None =>
         /\ keys[k].receipt = None
         /\ Cardinality({t \in Targets : wire[keys[k].terminal][t] # "none"}) <= 1

\* B-OPS-08: "each per-target outcome is durably appended before Snow attempts
\* the next target": when a PATCH is out, the row shows the call's earlier ones
\* (while no row is old enough to have expired under the walk).
DurableBeforeNext ==
  \A c \in Calls : \A t, u \in Targets :
    now < Window /\ u < t /\ wire[c][t] # "none" =>
      LET r == keys[calls[c].key].progress
      IN r # None /\ r.call = c /\ r.results[u] = "applied"

\* A stored outcome is final: while its row lives it is never replaced, so
\* every replay gives the same answer.
OutcomeFinal ==
  [][\A k \in Plans :
       keys[k].receipt # None \/ keys[k].terminal # None =>
         \/ keys'[k] = NoKey
         \/ keys'[k].receipt = keys[k].receipt /\ keys'[k].terminal = keys[k].terminal]_vars
=============================================================================
