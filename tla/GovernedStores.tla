---------------------------- MODULE GovernedStores ----------------------------
(***************************************************************************)
(* The three SQLite tables every governed ServiceNow write goes through:   *)
(* operation plans, confirmation tokens and idempotency reservations       *)
(* (crates/snow_mcp/src/planner).  A table is a function from ids to rows; *)
(* the operators below are the stores' methods as functions of one row.    *)
(* Every method is one synchronous SQLite statement sequence run on the    *)
(* daemon's only thread, so an application of one is atomic.               *)
(*                                                                         *)
(* The op_hash is a model value: equal hashes mean the same tool, target   *)
(* and planned changes, so two different plans can carry the same hash.    *)
(* An actor stands for the whole confirmation identity (actor, requester,  *)
(* environment).  A column that is NULL, or a row that is not there, is    *)
(* None.  The "revoked" column is left out: no code sets it.               *)
(***************************************************************************)
EXTENDS Naturals

CONSTANTS Hashes,    \* op_hash values
          Actors,    \* confirmation identities
          None,      \* SQL NULL / absent row
          PlanTTL,   \* PLAN_TTL_SECONDS, also the confirmation ttl
          Window     \* policy.idempotency_window_seconds

ASSUME StoreAssumption ==
  /\ PlanTTL \in Nat
  /\ Window \in Nat
  /\ None \notin Hashes
  /\ None \notin Actors

-----------------------------------------------------------------------------
(* Rows. *)

\* A plan row; token is the target's concurrency token when it was planned.
PlanRow == [state: {"absent", "pending", "consumed", "expired"},
            hash: Hashes \cup {None}, token: Nat, expires: Nat]
NoPlanRow == [state |-> "absent", hash |-> None, token |-> 0, expires |-> 0]

ConfRow == [hash: Hashes \cup {None}, actor: Actors \cup {None},
            expires: Nat, consumed: BOOLEAN]
NoConfRow == [hash |-> None, actor |-> None, expires |-> 0, consumed |-> FALSE]

\* receipt names the call that stored it.
KeyRow(Calls) == [hash: Hashes \cup {None}, receipt: Calls \cup {None},
                  started: BOOLEAN, expires: Nat]
NoKeyRow == [hash |-> None, receipt |-> None, started |-> FALSE, expires |-> 0]

-----------------------------------------------------------------------------
(* SqlitePlanStore *)

\* Variant with a fault: the ttl is subtracted.
PutPlanStale(h, tok, now) ==
  [state |-> "pending", hash |-> h, token |-> tok, expires |-> now - PlanTTL]

PutPlan(h, tok, now) ==
  [state |-> "pending", hash |-> h, token |-> tok, expires |-> now + PlanTTL]

MarkPlanConsumed(row) == [row EXCEPT !.state = "consumed"]

MarkPlanExpired(row) ==
  IF row.state = "consumed" THEN row ELSE [row EXCEPT !.state = "expired"]

PlanExpired(row, now) == row.state = "expired" \/ row.expires <= now

-----------------------------------------------------------------------------
(* SqliteConfirmationStore *)

IssueConfirmation(h, a, now) ==
  [hash |-> h, actor |-> a, expires |-> now + PlanTTL, consumed |-> FALSE]

\* The daemon's validate_confirmation_binding.
BindingVerdict(row, a, h, now) ==
  IF row.hash = None THEN "NotFound"
  ELSE IF row.expires <= now THEN "Expired"
  ELSE IF row.actor # a \/ row.hash # h THEN "BindingMismatch"
  ELSE "ok"

\* The daemon's validate_confirmation: the binding first, then "consumed".
ConfirmationVerdict(row, a, h, now) ==
  IF BindingVerdict(row, a, h, now) = "ok" /\ row.consumed
    THEN "AlreadyConsumed" ELSE BindingVerdict(row, a, h, now)

\* Variant with a fault: consume() as an unconditional UPDATE.
ConsumeVerdictUnchecked(row, a, h, now) == BindingVerdict(row, a, h, now)

\* consume(): "consumed" is examined before expiry and binding.
ConsumeVerdict(row, a, h, now) ==
  IF row.hash # None /\ row.consumed
    THEN "AlreadyConsumed" ELSE BindingVerdict(row, a, h, now)

ConsumeRow(row) == [row EXCEPT !.consumed = TRUE]

-----------------------------------------------------------------------------
(* SqliteIdempotencyStore *)

KeyLive(row, now) == row.hash # None /\ row.expires > now

\* check_and_record: what the caller is told ...
CheckOutcome(row, h, now) ==
  IF ~KeyLive(row, now) THEN "NewKey"
  ELSE IF row.hash # h THEN "Conflict"
  ELSE IF row.receipt # None THEN "Replay"
  ELSE "Pending"

\* ... and the row it leaves: an expired row is deleted and replaced, which
\* forgets its receipt and its started mark.
CheckAndRecord(row, h, now) ==
  IF KeyLive(row, now)
    THEN row
    ELSE [hash |-> h, receipt |-> None, started |-> FALSE, expires |-> now + Window]

\* COALESCE keeps an earlier mark; nothing tells the caller it was there.
MarkApplyStarted(row) == [row EXCEPT !.started = TRUE]

\* Variants with a fault: an UPDATE that looks at only one of the two columns.
CanClaimStarted(row) == row.hash # None /\ row.receipt = None
CanClaimFinished(row) == row.hash # None /\ (~row.started \/ row.receipt # None)

\* The condition of try_mark_apply_started's UPDATE.
CanClaim(row) == row.hash # None /\ ~row.started /\ row.receipt = None

ClearApplyStarted(row) ==
  IF row.receipt = None THEN [row EXCEPT !.started = FALSE] ELSE row

SaveReceipt(row, call) == [row EXCEPT !.receipt = call]
=============================================================================
