----------------------- MODULE IncidentBulkWriteProofs -----------------------
(***************************************************************************)
(* Proofs about IncidentBulkWrite for any number of targets, plans and     *)
(* calls: type correctness, at most one PATCH of a target per confirmation *)
(* and key, the truth of the stored outcomes, progress that is saved       *)
(* before the next target, and final outcomes.                             *)
(***************************************************************************)
EXTENDS IncidentBulkWrite, FiniteSetTheorems, TLAPS

USE StoreAssumption

\* What the proofs use of the constants; only a plan's hash needs the rest.
LEMMA Constants ==
  N \in Nat \ {0} /\ MaxVersion \in Nat /\ MaxNow \in Nat /\ None \notin Calls \cup Plans \cup Receipt
  BY BulkAssumption

USE Constants

-----------------------------------------------------------------------------
(* Types. *)

\* BulkStore's methods return rows.
LEMMA RowTypes ==
  ASSUME NEW row \in BulkKey, NEW r \in Receipt, NEW c \in Calls, NEW h \in Hashes, now \in Nat
  PROVE  /\ NoKey \in BulkKey /\ ReserveIdempotency(h) \in BulkKey
         /\ LookupIdempotency(row) \in BulkKey
         /\ [row EXCEPT !.started = TRUE] \in BulkKey
         /\ SaveProgress(row, r) \in BulkKey
         /\ SaveFinalReceipt(row, r) \in BulkKey
         /\ SaveTerminalError(row, c) \in BulkKey
  <1>1. NoKey \in BulkKey
    BY DEF NoKey, BulkKey
  <1>2. ReserveIdempotency(h) \in BulkKey
    <2>1. \A k \in BulkKey : \A n \in Nat : [k EXCEPT !.hash = h, !.expires = n] \in BulkKey
      BY DEF BulkKey
    <2>2. now + Window \in Nat
      OBVIOUS
    <2> QED BY <1>1, <2>1, <2>2 DEF ReserveIdempotency
  <1>3. LookupIdempotency(row) \in BulkKey
    BY <1>1 DEF LookupIdempotency
  <1>4. [row EXCEPT !.started = TRUE] \in BulkKey
    BY DEF BulkKey
  <1>5. SaveProgress(row, r) \in BulkKey
    BY DEF SaveProgress, BulkKey
  <1>6. SaveFinalReceipt(row, r) \in BulkKey
    BY DEF SaveFinalReceipt, BulkKey
  <1>7. SaveTerminalError(row, c) \in BulkKey
    BY DEF SaveTerminalError, BulkKey
  <1> QED BY <1>1, <1>2, <1>3, <1>4, <1>5, <1>6, <1>7

\* A call that was made has its arguments.
LEMMA MadeTypes ==
  ASSUME TypeOK, NEW c \in Calls, calls[c].pc # "idle"
  PROVE  /\ calls[c] \in MadeCall
         /\ calls[c].key \in Plans /\ calls[c].plan \in Plans /\ calls[c].token \in Plans
         /\ calls[c].results \in Results
         /\ keys[calls[c].key] \in BulkKey
  <1>1. calls[c] \in MadeCall
    BY DEF TypeOK, NoCall
  <1> QED BY <1>1 DEF TypeOK, MadeCall

\* An answer leaves a call.
LEMMA AnswerTypes ==
  ASSUME TypeOK, NEW c \in Calls, calls[c].pc # "idle"
  PROVE  \A code \in Codes : Answer(c, code) \in [Calls -> {NoCall} \cup MadeCall]
  <1>1. calls[c] \in MadeCall
    BY MadeTypes
  <1>2. \A code \in Codes : [calls[c] EXCEPT !.pc = "done", !.out = code] \in MadeCall
    BY <1>1 DEF MadeCall
  <1> QED BY <1>2 DEF Answer, TypeOK

\* What ends a walk keeps the types (Conclude, SaveAndConclude).
LEMMA ConcludeTypes ==
  ASSUME TypeOK, NEW c \in Calls, calls[c].pc # "idle", NEW R \in Results, NEW failure \in BOOLEAN,
         NEW row \in BulkKey, NEW done, Conclude(c, R, failure, row, done)
  PROVE  /\ calls' \in [Calls -> {NoCall} \cup MadeCall]
         /\ keys' \in [Plans -> BulkKey]
         /\ plans' \in [Plans -> BulkPlan]
         /\ audit' \subseteq (Calls \cup Plans) \X {"plan", "error", "applied_partial", "applied_success"}
  <1>1. calls[c] \in MadeCall /\ calls[c].key \in Plans
    BY MadeTypes
  <1>2. \A code \in Codes : [calls[c] EXCEPT !.pc = "done", !.results = R, !.out = code] \in MadeCall
    BY <1>1 DEF MadeCall
  <1>3. \E code \in Codes : calls' = [calls EXCEPT ![c] = [calls[c] EXCEPT !.pc = "done", !.results = R, !.out = code]]
    BY DEF Conclude, Codes
  <1>4. calls' \in [Calls -> {NoCall} \cup MadeCall]
    <2>1. \E e \in MadeCall : calls' = [calls EXCEPT ![c] = e]
      BY <1>2, <1>3
    <2>2. calls \in [Calls -> {NoCall} \cup MadeCall]
      BY DEF TypeOK
    <2> QED BY <2>1, <2>2
  <1>5. [call |-> c, results |-> R] \in Receipt /\ now \in Nat
    BY DEF Receipt, TypeOK
  <1>6. keys' \in [Plans -> BulkKey]
    <2>1. SaveTerminalError(row, c) \in BulkKey /\ SaveFinalReceipt(row, [call |-> c, results |-> R]) \in BulkKey
      BY <1>5 DEF SaveTerminalError, SaveFinalReceipt, BulkKey
    <2>2. \E new \in BulkKey : keys' = [keys EXCEPT ![calls[c].key] = new]
      BY <2>1 DEF Conclude
    <2> QED BY <1>1, <2>2 DEF TypeOK
  <1>7. plans' \in [Plans -> BulkPlan]
    <2>1. \A q \in Plans : [plans[q] EXCEPT !.consumed = TRUE] \in BulkPlan
      <3>1. ASSUME NEW q \in Plans PROVE [plans[q] EXCEPT !.consumed = TRUE] \in BulkPlan
        <4>1. plans[q] \in BulkPlan
          BY DEF TypeOK
        <4> QED BY <4>1 DEF BulkPlan
      <3> QED BY <3>1
    <2>2. plans' = plans \/ plans' = [plans EXCEPT ![calls[c].plan] = [plans[calls[c].plan] EXCEPT !.consumed = TRUE]]
      BY DEF Conclude
    <2>3. calls[c].plan \in Plans
      BY MadeTypes
    <2> QED BY <2>1, <2>2, <2>3 DEF TypeOK
  <1>8. audit' \subseteq (Calls \cup Plans) \X {"plan", "error", "applied_partial", "applied_success"}
    <2>1. \E status \in {"error", "applied_partial", "applied_success"} : audit' \subseteq audit \cup {<<c, status>>}
      BY DEF Conclude
    <2> QED BY <2>1 DEF TypeOK
  <1> QED BY <1>4, <1>6, <1>7, <1>8

\* Empty tables have their types.
LEMMA InitType == Init => TypeOK
  <1> SUFFICES ASSUME Init PROVE TypeOK
    OBVIOUS
  <1>1. NoPlan \in BulkPlan /\ NoConfRow \in ConfRow /\ NoKey \in BulkKey
    BY DEF NoPlan, BulkPlan, NoConfRow, ConfRow, NoKey, BulkKey
  <1> QED BY <1>1 DEF Init, TypeOK, Version

\* The steps that end or go on with a walk (the loop of handle_apply).
WalkStep(c) ==
  \/ \E done \in 0..3 : PatchFails(c, done) \/ SettleIncoherent(c, done) \/ SettleLast(c, done)
  \/ \E done \in 0..2, read \in BOOLEAN : RecheckStops(c, read, done)
  \/ \E done \in 0..1 : SettleNext(c, done)

\* The loop keeps the types.
LEMMA WalkTypes == ASSUME TypeOK, NEW c \in Calls, WalkStep(c) PROVE TypeOK'
  <1>1. /\ calls[c].pc # "idle" /\ calls[c] \in MadeCall /\ calls[c].key \in Plans /\ calls[c].at \in 0..N
        /\ keys[calls[c].key] \in BulkKey
    <2>1. calls[c].pc # "idle"
      BY DEF WalkStep, PatchFails, SettleIncoherent, SettleLast, RecheckStops, SettleNext
    <2> QED BY <2>1, MadeTypes DEF MadeCall
  <1>2. \A s \in {"applied", "failed"} : With(c, s) \in Results
    BY <1>1, MadeTypes DEF With, Results
  <1>3. \A R \in Results : SaveProgress(keys[calls[c].key], [call |-> c, results |-> R]) \in BulkKey
    <2>1. \A R \in Results : [call |-> c, results |-> R] \in Receipt
      BY DEF Receipt
    <2> QED BY <1>1, <2>1 DEF SaveProgress, BulkKey
  <1>4. "PENDING_RESOLUTION_REQUIRED" \in Codes
    BY DEF Codes
  <1>5. ASSUME NEW R \in Results, NEW failure \in BOOLEAN, NEW row \in BulkKey, NEW done,
               Conclude(c, R, failure, row, done), UNCHANGED <<now, version, confs, wire>>
        PROVE  TypeOK'
    BY <1>1, <1>5, ConcludeTypes DEF TypeOK
  <1>6. ASSUME calls' = Answer(c, "PENDING_RESOLUTION_REQUIRED"),
               UNCHANGED <<now, version, plans, confs, keys, wire, audit>>
        PROVE  TypeOK'
    <2>1. calls' \in [Calls -> {NoCall} \cup MadeCall]
      BY <1>1, <1>4, <1>6, AnswerTypes
    <2> QED BY <1>6, <2>1 DEF TypeOK
  <1>7. ASSUME NEW R \in Results, NEW failure \in BOOLEAN, NEW done \in 0..3, SaveAndConclude(c, R, failure, done),
               UNCHANGED <<now, version, confs, wire>>
        PROVE  TypeOK'
    BY <1>3, <1>5, <1>6, <1>7 DEF SaveAndConclude
  <1>8. ASSUME NEW done \in 0..3, PatchFails(c, done) \/ SettleIncoherent(c, done) \/ SettleLast(c, done)
        PROVE  TypeOK'
    BY <1>2, <1>7, <1>8 DEF PatchFails, SettleIncoherent, SettleLast
  <1>9. ASSUME NEW done \in 0..2, NEW read \in BOOLEAN, RecheckStops(c, read, done) PROVE TypeOK'
    BY <1>1, <1>2, <1>5, <1>9 DEF RecheckStops
  <1>10. ASSUME SettleNext(c, 1) PROVE TypeOK'
    <2>1. [calls[c] EXCEPT !.pc = "recheck", !.at = calls[c].at + 1, !.results = With(c, "applied")] \in MadeCall
      <3>1. \A y \in MadeCall : \A n \in 0..N : \A R \in Results :
              [y EXCEPT !.pc = "recheck", !.at = n, !.results = R] \in MadeCall
        BY DEF MadeCall
      <3>2. calls[c].at + 1 \in 0..N
        BY <1>1, <1>10 DEF SettleNext
      <3> QED BY <1>1, <1>2, <3>1, <3>2
    <2>2. calls' \in [Calls -> {NoCall} \cup MadeCall]
      <3>1. calls' = [calls EXCEPT ![c] = [calls[c] EXCEPT !.pc = "recheck", !.at = calls[c].at + 1,
                                                           !.results = With(c, "applied")]]
        <4> DEFINE n == calls[c].at + 1
                   R == With(c, "applied")
        <4>1. calls' = [calls EXCEPT ![c].pc = "recheck", ![c].at = @ + 1, ![c].results = R]
          BY <1>10 DEF SettleNext
        <4> HIDE DEF R
        <4>2. calls \in [Calls -> {NoCall} \cup MadeCall]
          BY DEF TypeOK
        <4>3. calls' = [calls EXCEPT ![c].pc = "recheck", ![c].at = n, ![c].results = R]
          BY <4>1, <4>2
        <4> HIDE DEF n
        <4>4. calls' = [calls EXCEPT ![c] = [calls[c] EXCEPT !.pc = "recheck", !.at = n, !.results = R]]
          BY <4>2, <4>3
        <4> QED BY <4>4 DEF n, R
      <3> QED BY <2>1, <3>1 DEF TypeOK
    <2>3. keys' \in [Plans -> BulkKey]
      BY <1>1, <1>2, <1>3, <1>10 DEF SettleNext, TypeOK
    <2> QED BY <1>10, <2>2, <2>3 DEF SettleNext, TypeOK
  <1>11. ASSUME SettleNext(c, 0) PROVE TypeOK'
    BY <1>6, <1>11 DEF SettleNext
  <1> QED BY <1>8, <1>9, <1>10, <1>11 DEF WalkStep

\* The claim keeps the types (mark_apply_started, consume, save_progress).
LEMMA ClaimTypes == ASSUME TypeOK, NEW c \in Calls, NEW done \in 0..4, Claim(c, done) PROVE TypeOK'
  <1> DEFINE k == calls[c].key
             marked == [keys[k] EXCEPT !.started = TRUE]
             r == [call |-> c, results |-> calls[c].results]
  <1>1. /\ calls[c].pc # "idle" /\ calls[c] \in MadeCall /\ k \in Plans /\ calls[c].token \in Plans
        /\ calls[c].results \in Results /\ keys[k] \in BulkKey
    <2>1. calls[c].pc # "idle"
      BY DEF Claim
    <2> QED BY <2>1, MadeTypes
  <1>2. marked \in BulkKey /\ SaveProgress(marked, r) \in BulkKey
    <2>1. r \in Receipt
      BY <1>1 DEF Receipt
    <2>2. marked \in BulkKey
      BY <1>1 DEF BulkKey
    <2> QED BY <2>1, <2>2 DEF SaveProgress, BulkKey
  <1>3. keys' \in [Plans -> BulkKey]
    <2>1. keys' = keys \/ keys' = [keys EXCEPT ![k] = marked] \/ keys' = [keys EXCEPT ![k] = SaveProgress(marked, r)]
      BY DEF Claim
    <2> QED BY <1>1, <1>2, <2>1 DEF TypeOK
  <1>4. calls' \in [Calls -> {NoCall} \cup MadeCall]
    <2>1. \/ \E code \in Codes : calls' = Answer(c, code)
          \/ calls' = [calls EXCEPT ![c] = [calls[c] EXCEPT !.pc = "recheck", !.at = 1]]
      BY DEF Claim, Codes
    <2>2. [calls[c] EXCEPT !.pc = "recheck", !.at = 1] \in MadeCall
      <3>0. 1 \in 0..N
        OBVIOUS
      <3>1. \A y \in MadeCall : [y EXCEPT !.pc = "recheck", !.at = 1] \in MadeCall
        BY <3>0 DEF MadeCall
      <3> QED BY <1>1, <3>1
    <2>3. CASE \E code \in Codes : calls' = Answer(c, code)
      BY <1>1, <2>3, AnswerTypes
    <2>4. CASE calls' = [calls EXCEPT ![c] = [calls[c] EXCEPT !.pc = "recheck", !.at = 1]]
      BY <2>2, <2>4 DEF TypeOK
    <2> QED BY <2>1, <2>3, <2>4
  <1>5. confs' \in [Plans -> ConfRow]
    <2>1. ConsumeRow(confs[calls[c].token]) \in ConfRow
      <3>1. confs[calls[c].token] \in ConfRow
        BY <1>1 DEF TypeOK
      <3> QED BY <3>1 DEF ConsumeRow, ConfRow
    <2>2. confs' = confs \/ confs' = [confs EXCEPT ![calls[c].token] = ConsumeRow(confs[calls[c].token])]
      BY DEF Claim
    <2> QED BY <1>1, <2>1, <2>2 DEF TypeOK
  <1>6. /\ audit' \subseteq audit \cup {<<c, "plan">>}
        /\ UNCHANGED <<now, version, plans, wire>>
    BY DEF Claim
  <1> QED BY <1>3, <1>4, <1>5, <1>6 DEF TypeOK

\* Every step keeps the types.
LEMMA StepType == TypeOK /\ [Next]_vars => TypeOK'
  <1> SUFFICES ASSUME TypeOK, [Next]_vars PROVE TypeOK'
    OBVIOUS
  <1>1. ASSUME NEW p \in Plans, NEW patch \in Patches, NEW a \in Actors, NEW done \in 1..4, PlanBulk(p, patch, a, done)
        PROVE  TypeOK'
    <2> DEFINE h == [patch |-> patch, vers |-> version]
    <2>1. h \in Hashes
      BY BulkAssumption DEF TypeOK
    <2> HIDE DEF h
    <2>2. now \in Nat /\ now + PlanTTL \in Nat
      BY DEF TypeOK
    <2>3. [hash |-> h, actor |-> a, expires |-> now + PlanTTL, consumed |-> FALSE] \in BulkPlan
      BY <2>1, <2>2 DEF BulkPlan
    <2>4. IssueConfirmation(h, a, now) \in ConfRow
      BY <2>1, <2>2 DEF IssueConfirmation, ConfRow
    <2>5. ReserveIdempotency(h) \in BulkKey
      <3>1. NoKey \in BulkKey
        BY DEF NoKey, BulkKey
      <3>2. \A k \in BulkKey : \A n \in Nat : [k EXCEPT !.hash = h, !.expires = n] \in BulkKey
        BY <2>1 DEF BulkKey
      <3>3. now + Window \in Nat
        BY <2>2
      <3> QED BY <3>1, <3>2, <3>3 DEF ReserveIdempotency
    <2>6. /\ plans' = [plans EXCEPT ![p] = [hash |-> h, actor |-> a, expires |-> now + PlanTTL, consumed |-> FALSE]]
          /\ confs' = confs \/ confs' = [confs EXCEPT ![p] = IssueConfirmation(h, a, now)]
          /\ keys' = keys \/ keys' = [keys EXCEPT ![p] = ReserveIdempotency(h)]
          /\ audit' \subseteq audit \cup {<<p, "plan">>}
          /\ UNCHANGED <<now, version, calls, wire>>
      BY <1>1 DEF PlanBulk, h
    <2> QED BY <2>3, <2>4, <2>5, <2>6 DEF TypeOK
  <1>2. ASSUME NEW c \in Calls, NEW p \in Plans, NEW tok \in Plans, NEW k \in Plans, NEW a \in Actors,
               NEW allowed \in BOOLEAN, Apply(c, p, tok, k, a, allowed)
        PROVE  TypeOK'
    <2> DEFINE x == [NoCall EXCEPT !.pc = "preflight", !.plan = p, !.token = tok, !.key = k,
                                   !.actor = a, !.at = 1]
               v == IF allowed THEN EntryVerdict(p, tok, a, LookupIdempotency(keys[k])) ELSE "DENIED"
    <2>1. v \in Codes \cup {None}
      BY DEF EntryVerdict, Codes
    <2>3. InitialReceipt \in Results
      BY DEF InitialReceipt, Results
    <2>4. x \in MadeCall
      <3> DEFINE Any == [pc: {"idle", "preflight"}, plan: Plans \cup {None}, token: Plans \cup {None},
                         key: Plans \cup {None}, actor: Actors \cup {None}, at: 0..N, results: Results,
                         out: {None}]
      <3>0. 1 \in 0..N
        OBVIOUS
      <3>1. NoCall \in Any
        BY <2>3 DEF NoCall
      <3>2. \A y \in Any : [y EXCEPT !.pc = "preflight", !.plan = p, !.token = tok, !.key = k,
                                      !.actor = a, !.at = 1] \in MadeCall
        BY <3>0 DEF MadeCall
      <3> QED BY <3>1, <3>2
    <2> HIDE DEF x
    <2>5. v # None => [x EXCEPT !.pc = "done", !.out = v] \in MadeCall
      BY <2>1, <2>4 DEF MadeCall
    <2>6. calls' = [calls EXCEPT ![c] = IF v = None THEN x ELSE [x EXCEPT !.pc = "done", !.out = v]]
      BY <1>2 DEF Apply, x
    <2>7. LookupIdempotency(keys[k]) \in BulkKey
      BY DEF LookupIdempotency, NoKey, BulkKey, TypeOK
    <2>8. /\ keys' = keys \/ keys' = [keys EXCEPT ![k] = LookupIdempotency(keys[k])]
          /\ UNCHANGED <<now, version, plans, confs, wire, audit>>
      BY <1>2 DEF Apply
    <2> HIDE DEF v
    <2>9. calls' \in [Calls -> {NoCall} \cup MadeCall]
      BY <2>4, <2>5, <2>6 DEF TypeOK
    <2>10. keys' \in [Plans -> BulkKey]
      BY <2>7, <2>8 DEF TypeOK
    <2> QED BY <2>8, <2>9, <2>10 DEF TypeOK
  <1>3. ASSUME NEW c \in Calls, PreflightFails(c) \/ PreflightConflict(c) PROVE TypeOK'
    <2>1. /\ calls[c].pc # "idle" /\ UNCHANGED <<now, version, plans, confs, keys, wire, audit>>
          /\ \E code \in Codes : calls' = Answer(c, code)
      BY <1>3 DEF PreflightFails, PreflightConflict, Codes
    <2>2. calls' \in [Calls -> {NoCall} \cup MadeCall]
      BY <2>1, AnswerTypes
    <2> QED BY <2>1, <2>2 DEF TypeOK
  <1>4. ASSUME NEW c \in Calls, PreflightNext(c) PROVE TypeOK'
    <2>1. calls[c] \in MadeCall
      BY <1>4, MadeTypes DEF PreflightNext
    <2>2. [calls[c] EXCEPT !.at = calls[c].at + 1] \in MadeCall
      BY <1>4, <2>1 DEF PreflightNext, MadeCall
    <2> QED BY <1>4, <2>2 DEF PreflightNext, TypeOK
  <1>5. ASSUME NEW c \in Calls, SendPatch(c) PROVE TypeOK'
    <2>1. calls[c] \in MadeCall
      BY <1>5, MadeTypes DEF SendPatch
    <2>2. [calls[c] EXCEPT !.pc = "patching"] \in MadeCall
      BY <2>1 DEF MadeCall
    <2>3. wire' \in [Calls -> [Targets -> {"none", "posted", "applied", "rejected"}]]
      BY <1>5 DEF SendPatch, TypeOK
    <2> QED BY <1>5, <2>2, <2>3 DEF SendPatch, TypeOK
  <1>6. ASSUME NEW c \in Calls, PatchReturns(c) PROVE TypeOK'
    <2>1. calls[c] \in MadeCall
      BY <1>6, MadeTypes DEF PatchReturns
    <2>2. [calls[c] EXCEPT !.pc = "settling"] \in MadeCall
      BY <2>1 DEF MadeCall
    <2> QED BY <1>6, <2>2 DEF PatchReturns, TypeOK
  <1>7. ASSUME NEW c \in Calls, NEW t \in Targets, SnowApplies(c, t) \/ SnowRejects(c, t) PROVE TypeOK'
    <2>1. wire' \in [Calls -> [Targets -> {"none", "posted", "applied", "rejected"}]]
      BY <1>7 DEF SnowApplies, SnowRejects, TypeOK
    <2>2. version' \in [Targets -> Version]
      BY <1>7 DEF SnowApplies, SnowRejects, TypeOK, Version
    <2> QED BY <1>7, <2>1, <2>2 DEF SnowApplies, SnowRejects, TypeOK
  <1>8. ASSUME NEW t \in Targets, ForeignUpdate(t) PROVE TypeOK'
    BY <1>8 DEF ForeignUpdate, TypeOK, Version
  <1>9. CASE Tick
    BY <1>9 DEF Tick, TypeOK
  <1>10. CASE Crash
    <2>1. \A c \in InFlight : [calls[c] EXCEPT !.pc = "dropped"] \in MadeCall
      <3>1. ASSUME NEW c \in InFlight PROVE [calls[c] EXCEPT !.pc = "dropped"] \in MadeCall
        <4>1. calls[c] \in MadeCall
          BY MadeTypes DEF InFlight
        <4> QED BY <4>1 DEF MadeCall
      <3> QED BY <3>1
    <2> QED BY <1>10, <2>1 DEF Crash, TypeOK
  <1>11. CASE UNCHANGED vars
    BY <1>11 DEF vars, TypeOK
  <1>12. ASSUME NEW c \in Calls, NEW done \in 0..4, Claim(c, done) PROVE TypeOK'
    BY <1>12, ClaimTypes
  <1>13. ASSUME NEW c \in Calls, WalkStep(c) PROVE TypeOK'
    BY <1>13, WalkTypes
  <1> QED BY <1>1, <1>2, <1>3, <1>4, <1>5, <1>6, <1>7, <1>8, <1>9, <1>10, <1>11, <1>12, <1>13 DEF Next, WalkStep

-----------------------------------------------------------------------------
(* The inductive invariant. *)

Walking(c) == calls[c].pc \in {"recheck", "patching", "settling"}

\* The call got as far as its claim, or sent a PATCH before it ended.
Went(c) == Walking(c) \/ \E t \in Targets : wire[c][t] # "none"

\* A key and a token are stored with their plan and never again.
TableRow(p) ==
  /\ plans[p].hash = None => keys[p] = NoKey /\ confs[p] = NoConfRow
  /\ keys[p].hash = None => keys[p] = NoKey
  /\ keys[p].hash # None => Window <= keys[p].expires

\* Where a walk stands: the targets before "at" are applied, the later ones untouched.
WalkAt(c) ==
  /\ calls[c].pc \in {"idle", "preflight"} =>
       \A t \in Targets : wire[c][t] = "none" /\ calls[c].results[t] = "not_attempted"
  /\ Walking(c) =>
       /\ calls[c].at \in Targets
       /\ \A t \in Targets :
            /\ t < calls[c].at => wire[c][t] = "applied" /\ calls[c].results[t] = "applied"
            /\ t >= calls[c].at => calls[c].results[t] = "not_attempted"
            /\ t > calls[c].at => wire[c][t] = "none"
       /\ calls[c].pc = "recheck" => wire[c][calls[c].at] = "none"
       /\ calls[c].pc = "settling" => wire[c][calls[c].at] = "applied"

\* What a walk has used up stays used up.
Held(c) ==
  Went(c) =>
    /\ confs[calls[c].token].consumed
    /\ plans[calls[c].key].hash # None
    /\ keys[calls[c].key].hash = None \/ keys[calls[c].key].started
    /\ Walking(c) => keys[calls[c].key].receipt = None /\ keys[calls[c].key].terminal = None

\* While no row can have expired, the row shows the targets a walk has left behind.
Saved(c) ==
  now < Window /\ Went(c) =>
    LET r == keys[calls[c].key].progress
    IN /\ r # None /\ r.call = c
       /\ \A t, u \in Targets :
            /\ wire[c][t] # "none" \/ (Walking(c) /\ t = calls[c].at)
            /\ u < t
            => r.results[u] = "applied"

\* The stored progress, receipt and error; the last two belong to calls that are over.
ProgressTrue(k) ==
  keys[k].progress # None =>
    \A t \in Targets : keys[k].progress.results[t] = "applied" =>
      wire[keys[k].progress.call][t] = "applied"

FinalTrue(k) ==
  keys[k].receipt # None =>
    LET r == keys[k].receipt
    IN /\ calls[r.call].pc = "done"
       /\ \A t \in Targets : r.results[t] = "not_attempted" => wire[r.call][t] = "none"
       /\ \E s \in {"applied_partial", "applied_success"} : <<r.call, s>> \in audit
       /\ confs[calls[r.call].token].consumed

TerminalTrue(k) ==
  keys[k].terminal # None =>
    /\ calls[keys[k].terminal].pc = "done"
    /\ keys[k].receipt = None
    /\ \A t, u \in Targets :
         wire[keys[k].terminal][t] # "none" /\ wire[keys[k].terminal][u] # "none" => t = u

TableInv == \A p \in Plans : TableRow(p)
WalkInv == \A c \in Calls : WalkAt(c)
HoldInv == \A c \in Calls : Held(c)
OnceInv ==
  \A c, d \in Calls :
    /\ Went(c) /\ Went(d)
    /\ calls[c].token = calls[d].token \/ calls[c].key = calls[d].key
    => c = d
SavedInv == \A c \in Calls : Saved(c)
RowInv == \A k \in Plans : ProgressTrue(k) /\ FinalTrue(k) /\ TerminalTrue(k)

BulkInv == TypeOK /\ TableInv /\ WalkInv /\ HoldInv /\ OnceInv /\ SavedInv /\ RowInv

-----------------------------------------------------------------------------
(* What the steps do to the rows and the calls. *)

\* An empty row holds nothing.
LEMMA Empty ==
  /\ NoKey.hash = None /\ NoKey.progress = None /\ NoKey.receipt = None /\ NoKey.terminal = None
  /\ ~NoKey.started /\ ~NoConfRow.consumed /\ NoConfRow.hash = None /\ NoPlan.hash = None
  BY DEF NoKey, NoConfRow, NoPlan

\* What an answer leaves of a call.
LEMMA AnswerFields ==
  ASSUME TypeOK, NEW c \in Calls, calls[c].pc # "idle", NEW code, calls' = Answer(c, code)
  PROVE  /\ calls'[c].pc = "done"
         /\ calls'[c].key = calls[c].key /\ calls'[c].token = calls[c].token
         /\ calls'[c].results = calls[c].results
         /\ \A d \in Calls : d # c => calls'[d] = calls[d]
  <1>1. calls[c] \in MadeCall
    BY MadeTypes
  <1>2. \A y \in MadeCall : LET z == [y EXCEPT !.pc = "done", !.out = code]
                            IN z.pc = "done" /\ z.key = y.key /\ z.token = y.token /\ z.results = y.results
    BY DEF MadeCall
  <1>3. calls' = [calls EXCEPT ![c] = [calls[c] EXCEPT !.pc = "done", !.out = code]]
    BY DEF Answer, TypeOK
  <1> QED BY <1>1, <1>2, <1>3 DEF TypeOK

\* The steps that leave the tables alone.
QuietStep ==
  \/ \E c \in Calls :
       \/ PreflightFails(c) \/ PreflightConflict(c) \/ PreflightNext(c)
       \/ SendPatch(c) \/ PatchReturns(c)
       \/ \E t \in Targets : SnowApplies(c, t) \/ SnowRejects(c, t)
  \/ \E t \in Targets : ForeignUpdate(t)
  \/ Tick
  \/ Crash
  \/ UNCHANGED vars

\* What such a step may do to a call and to its PATCHes.
CallMoves(d) ==
  /\ calls'[d].key = calls[d].key /\ calls'[d].token = calls[d].token
  /\ calls'[d].results = calls[d].results
  /\ Walking(d)' => Walking(d) /\ calls'[d].at = calls[d].at
  /\ calls'[d].pc \in {"idle", "preflight"} => calls[d].pc \in {"idle", "preflight"}
  /\ calls'[d].pc = "recheck" => calls[d].pc = "recheck"
  /\ calls[d].pc = "done" => calls'[d].pc = "done"
  /\ calls'[d].pc = "settling" => calls[d].pc = "settling" \/ wire[d][calls[d].at] = "applied"

PatchMoves(d, t) ==
  \/ wire'[d][t] = wire[d][t]
  \/ wire[d][t] = "posted" /\ wire'[d][t] \in {"applied", "rejected"}
  \/ /\ calls[d].pc = "recheck" /\ t = calls[d].at
     /\ wire'[d][t] = "posted" /\ calls'[d].pc = "patching"

\* A quiet step moves calls and PATCHes only as said.
LEMMA QuietShape ==
  ASSUME TypeOK, QuietStep
  PROVE  /\ UNCHANGED <<plans, confs, keys, audit>>
         /\ now' \in Nat /\ now <= now'
         /\ \A d \in Calls : CallMoves(d)
         /\ \A d \in Calls, t \in Targets : PatchMoves(d, t)
  <1>0. now \in Nat
    BY DEF TypeOK
  <1>1. UNCHANGED calls => \A d \in Calls : CallMoves(d)
    BY DEF CallMoves, Walking
  <1>2. UNCHANGED wire => \A d \in Calls, t \in Targets : PatchMoves(d, t)
    BY DEF PatchMoves
  <1>3. ASSUME NEW c \in Calls, PreflightFails(c) \/ PreflightConflict(c)
        PROVE  \A d \in Calls : CallMoves(d)
    <2>1. \E code : calls' = Answer(c, code) /\ calls[c].pc = "preflight"
      BY <1>3 DEF PreflightFails, PreflightConflict
    <2> QED BY <2>1, AnswerFields DEF CallMoves, Walking
  <1>4. ASSUME NEW c \in Calls, PreflightNext(c) \/ SendPatch(c) \/ PatchReturns(c)
        PROVE  \A d \in Calls : CallMoves(d)
    <2>1. calls[c].pc \in {"preflight", "recheck", "patching"} /\ calls[c] \in MadeCall
      BY <1>4, MadeTypes DEF PreflightNext, SendPatch, PatchReturns
    <2>2. \A y \in MadeCall :
            /\ LET z == [y EXCEPT !.at = y.at + 1]
               IN z.pc = y.pc /\ z.key = y.key /\ z.token = y.token /\ z.results = y.results
            /\ \A s \in {"patching", "settling"} :
                 LET z == [y EXCEPT !.pc = s]
                 IN z.pc = s /\ z.key = y.key /\ z.token = y.token /\ z.results = y.results /\ z.at = y.at
      BY DEF MadeCall
    <2>3. \A d \in Calls : d # c => calls'[d] = calls[d]
      BY <1>4 DEF PreflightNext, SendPatch, PatchReturns, TypeOK
    <2>4. CASE PreflightNext(c)
      <3>1. calls' = [calls EXCEPT ![c] = [calls[c] EXCEPT !.at = calls[c].at + 1]]
        BY <2>4 DEF PreflightNext, TypeOK
      <3>2. calls'[c] = [calls[c] EXCEPT !.at = calls[c].at + 1] /\ calls[c].pc = "preflight"
        BY <3>1, <2>4 DEF PreflightNext, TypeOK
      <3>3. /\ calls'[c].pc = "preflight" /\ calls'[c].key = calls[c].key /\ calls'[c].token = calls[c].token
            /\ calls'[c].results = calls[c].results
        BY <2>1, <2>2, <3>2
      <3> QED BY <2>3, <3>2, <3>3 DEF CallMoves, Walking
    <2>5. CASE SendPatch(c)
      <3>1. calls'[c] = [calls[c] EXCEPT !.pc = "patching"] /\ calls[c].pc = "recheck"
        BY <2>5 DEF SendPatch, TypeOK
      <3>2. /\ calls'[c].pc = "patching" /\ calls'[c].key = calls[c].key /\ calls'[c].token = calls[c].token
            /\ calls'[c].results = calls[c].results /\ calls'[c].at = calls[c].at
        BY <2>1, <2>2, <3>1
      <3> QED BY <2>3, <3>1, <3>2 DEF CallMoves, Walking
    <2>6. CASE PatchReturns(c)
      <3>1. calls'[c] = [calls[c] EXCEPT !.pc = "settling"] /\ calls[c].pc = "patching"
            /\ wire[c][calls[c].at] = "applied"
        BY <2>6 DEF PatchReturns, TypeOK
      <3>2. /\ calls'[c].pc = "settling" /\ calls'[c].key = calls[c].key /\ calls'[c].token = calls[c].token
            /\ calls'[c].results = calls[c].results /\ calls'[c].at = calls[c].at
        BY <2>1, <2>2, <3>1
      <3> QED BY <2>3, <3>1, <3>2 DEF CallMoves, Walking
    <2> QED BY <1>4, <2>4, <2>5, <2>6
  <1>5. CASE Crash
    <2>1. \A y \in MadeCall : LET z == [y EXCEPT !.pc = "dropped"]
                              IN z.pc = "dropped" /\ z.key = y.key /\ z.token = y.token /\ z.results = y.results
      BY DEF MadeCall
    <2>2. \A d \in InFlight : calls[d] \in MadeCall /\ calls[d].pc # "done"
      BY MadeTypes DEF InFlight
    <2>3. \A d \in Calls : calls'[d] = IF d \in InFlight THEN [calls[d] EXCEPT !.pc = "dropped"] ELSE calls[d]
      BY <1>5 DEF Crash
    <2>4. \A d \in Calls : CallMoves(d)
      BY <2>1, <2>2, <2>3 DEF CallMoves, Walking
    <2> QED BY <1>0, <1>2, <1>5, <2>4 DEF Crash
  <1>6. ASSUME NEW c \in Calls, SendPatch(c) PROVE \A d \in Calls, t \in Targets : PatchMoves(d, t)
    <2>1. calls'[c].pc = "patching" /\ calls[c].pc = "recheck"
      <3>1. calls[c] \in MadeCall
        BY <1>6, MadeTypes DEF SendPatch
      <3>2. \A y \in MadeCall : [y EXCEPT !.pc = "patching"].pc = "patching"
        BY DEF MadeCall
      <3> QED BY <1>6, <3>1, <3>2 DEF SendPatch, TypeOK
    <2> QED BY <1>6, <2>1 DEF SendPatch, PatchMoves, TypeOK
  <1>7. ASSUME NEW c \in Calls, NEW t \in Targets, SnowApplies(c, t) \/ SnowRejects(c, t)
        PROVE  \A d \in Calls, u \in Targets : PatchMoves(d, u)
    BY <1>7 DEF SnowApplies, SnowRejects, PatchMoves, TypeOK
  <1>8. ASSUME NEW c \in Calls, PreflightFails(c) \/ PreflightConflict(c) \/ PreflightNext(c) \/ PatchReturns(c)
        PROVE  UNCHANGED <<now, plans, confs, keys, audit, wire>>
    BY <1>8 DEF PreflightFails, PreflightConflict, PreflightNext, PatchReturns
  <1>9. ASSUME NEW c \in Calls, SendPatch(c) PROVE UNCHANGED <<now, plans, confs, keys, audit>>
    BY <1>9 DEF SendPatch
  <1>10. ASSUME NEW c \in Calls, NEW t \in Targets, SnowApplies(c, t) \/ SnowRejects(c, t)
         PROVE  UNCHANGED <<now, plans, confs, keys, audit, calls>>
    BY <1>10 DEF SnowApplies, SnowRejects
  <1>11. ASSUME NEW t \in Targets, ForeignUpdate(t) PROVE UNCHANGED <<now, plans, confs, keys, audit, calls, wire>>
    BY <1>11 DEF ForeignUpdate
  <1>12. Tick => UNCHANGED <<plans, confs, keys, audit, calls, wire>> /\ now' = now + 1
    BY DEF Tick
  <1>13. UNCHANGED vars => UNCHANGED <<now, plans, confs, keys, audit, calls, wire>>
    BY DEF vars
  <1> QED BY <1>0, <1>1, <1>2, <1>3, <1>4, <1>5, <1>6, <1>7, <1>8, <1>9, <1>10, <1>11, <1>12, <1>13 DEF QuietStep

\* A row keeps its truth when the step adds nothing to it and takes nothing from
\* what it speaks of.
LEMMA RowStays ==
  ASSUME TypeOK, NEW k \in Plans, ProgressTrue(k), FinalTrue(k), TerminalTrue(k),
         keys'[k].progress \in {None, keys[k].progress},
         keys'[k].receipt \in {None, keys[k].receipt},
         keys'[k].terminal \in {None, keys[k].terminal},
         audit \subseteq audit',
         \A q \in Plans : confs[q].consumed => confs'[q].consumed,
         \A d \in Calls, t \in Targets : wire[d][t] = "applied" => wire'[d][t] = "applied",
         \A d \in Calls : calls[d].pc = "done" =>
           /\ calls'[d].pc = "done" /\ calls'[d].token = calls[d].token
           /\ \A t \in Targets : wire'[d][t] # "none" => wire[d][t] # "none"
  PROVE  ProgressTrue(k)' /\ FinalTrue(k)' /\ TerminalTrue(k)'
  <1>1. ProgressTrue(k)'
    <2> DEFINE r == keys[k].progress
    <2>1. r # None => r.call \in Calls /\ \A t \in Targets : r.results[t] = "applied" => wire[r.call][t] = "applied"
      BY DEF ProgressTrue, TypeOK, BulkKey, Receipt
    <2> HIDE DEF r
    <2>2. keys'[k].progress = None \/ keys'[k].progress = r
      BY DEF r
    <2> QED BY <2>1, <2>2 DEF ProgressTrue
  <1>2. FinalTrue(k)'
    <2> DEFINE r == keys[k].receipt
    <2>1. r # None =>
            /\ r.call \in Calls /\ calls[r.call].pc = "done"
            /\ \A t \in Targets : r.results[t] = "not_attempted" => wire[r.call][t] = "none"
            /\ \E s \in {"applied_partial", "applied_success"} : <<r.call, s>> \in audit
            /\ confs[calls[r.call].token].consumed
      BY DEF FinalTrue, TypeOK, BulkKey, Receipt
    <2> HIDE DEF r
    <2>2. keys'[k].receipt = None \/ keys'[k].receipt = r
      BY DEF r
    <2>3. r # None => calls[r.call].token \in Plans
      BY <2>1, MadeTypes
    <2> QED BY <2>1, <2>2, <2>3 DEF FinalTrue
  <1>3. TerminalTrue(k)'
    <2> DEFINE d == keys[k].terminal
    <2>1. d # None =>
            /\ d \in Calls /\ calls[d].pc = "done" /\ keys[k].receipt = None
            /\ \A t, u \in Targets : wire[d][t] # "none" /\ wire[d][u] # "none" => t = u
      BY DEF TerminalTrue, TypeOK, BulkKey
    <2> HIDE DEF d
    <2>2. keys'[k].terminal = None \/ keys'[k].terminal = d
      BY DEF d
    <2> QED BY <2>1, <2>2 DEF TerminalTrue
  <1> QED BY <1>1, <1>2, <1>3

\* A quiet step keeps the invariant.
LEMMA QuietInv == ASSUME BulkInv, TypeOK', QuietStep PROVE BulkInv'
  <1>0. TypeOK /\ \A c \in Calls : WalkAt(c) /\ (Walking(c) => calls[c].at \in Targets)
    BY DEF BulkInv, WalkInv, WalkAt
  <1>1. /\ UNCHANGED <<plans, confs, keys, audit>> /\ now' \in Nat /\ now \in Nat /\ now <= now'
        /\ \A d \in Calls : CallMoves(d)
        /\ \A d \in Calls, t \in Targets : PatchMoves(d, t)
    BY <1>0, QuietShape DEF TypeOK
  <1>2. \A c \in Calls, t \in Targets :
          /\ wire[c][t] = "applied" => wire'[c][t] = "applied"
          /\ wire'[c][t] # "none" => wire[c][t] # "none" \/ (Walking(c) /\ t = calls[c].at)
    BY <1>0, <1>1 DEF WalkAt, PatchMoves, Walking
  <1>3. \A c \in Calls : Went(c)' => Went(c)
    BY <1>1, <1>2 DEF Went, CallMoves
  <1>4. TableInv'
    BY <1>1 DEF BulkInv, TableInv, TableRow
  <1>5. WalkInv'
    <2> SUFFICES ASSUME NEW c \in Calls PROVE WalkAt(c)'
      BY DEF WalkInv
    <2>1. CallMoves(c) /\ (\A t \in Targets : PatchMoves(c, t)) /\ WalkAt(c)
      BY <1>0, <1>1
    <2>2. calls'[c].pc \in {"idle", "preflight"} =>
            \A t \in Targets : wire'[c][t] = "none" /\ calls'[c].results[t] = "not_attempted"
      BY <2>1 DEF WalkAt, CallMoves, PatchMoves
    <2>3. ASSUME Walking(c)'
          PROVE  /\ calls'[c].at \in Targets
                 /\ \A t \in Targets :
                      /\ t < calls'[c].at => wire'[c][t] = "applied" /\ calls'[c].results[t] = "applied"
                      /\ t >= calls'[c].at => calls'[c].results[t] = "not_attempted"
                      /\ t > calls'[c].at => wire'[c][t] = "none"
      <3>1. Walking(c) /\ calls'[c].at = calls[c].at /\ calls'[c].results = calls[c].results
            /\ calls[c].at \in Targets
        BY <1>0, <2>1, <2>3 DEF CallMoves
      <3>2. \A t \in Targets : t > calls[c].at => wire[c][t] = "none" /\ t # calls[c].at
        BY <2>1, <3>1 DEF WalkAt, Targets
      <3>3. \A t \in Targets : t > calls[c].at => wire'[c][t] = "none"
        BY <2>1, <3>2 DEF PatchMoves
      <3> QED BY <1>2, <2>1, <3>1, <3>3 DEF WalkAt
    <2>4. Walking(c)' /\ calls'[c].pc = "recheck" => wire'[c][calls'[c].at] = "none"
      BY <1>0, <2>1 DEF WalkAt, CallMoves, PatchMoves
    <2>5. Walking(c)' /\ calls'[c].pc = "settling" => wire'[c][calls'[c].at] = "applied"
      BY <1>0, <1>2, <2>1 DEF WalkAt, CallMoves
    <2> QED BY <2>2, <2>3, <2>4, <2>5 DEF WalkAt
  <1>6. HoldInv'
    BY <1>1, <1>3 DEF BulkInv, HoldInv, Held, CallMoves
  <1>7. OnceInv'
    BY <1>1, <1>3 DEF BulkInv, OnceInv, CallMoves
  <1>8. SavedInv'
    <2> SUFFICES ASSUME NEW c \in Calls, now' < Window, Went(c)' PROVE Saved(c)'
      BY DEF SavedInv, Saved
    <2>1. now < Window /\ Went(c) /\ Saved(c)
      BY <1>1, <1>3 DEF BulkInv, SavedInv
    <2>2. \A t \in Targets : wire'[c][t] # "none" \/ (Walking(c)' /\ t = calls'[c].at)
                             => wire[c][t] # "none" \/ (Walking(c) /\ t = calls[c].at)
      BY <1>1, <1>2 DEF CallMoves
    <2>3. keys'[calls'[c].key].progress = keys[calls[c].key].progress
      BY <1>1 DEF CallMoves
    <2> QED BY <2>1, <2>2, <2>3 DEF Saved
  <1>9. RowInv'
    <2>1. \A d \in Calls : calls[d].pc = "done" =>
            /\ calls'[d].pc = "done" /\ calls'[d].token = calls[d].token
            /\ \A t \in Targets : wire'[d][t] # "none" => wire[d][t] # "none"
      BY <1>1, <1>2 DEF CallMoves, Walking
    <2> QED BY <1>0, <1>1, <1>2, <2>1, RowStays DEF BulkInv, RowInv
  <1> QED BY <1>4, <1>5, <1>6, <1>7, <1>8, <1>9 DEF BulkInv

\* The rows and the calls after a plan, an apply's entry or a claim that fails.
StepsAside ==
  /\ UNCHANGED <<now, wire>>
  /\ audit \subseteq audit'
  /\ \A d \in Calls :
       \/ calls'[d] = calls[d]
       \/ /\ calls[d].pc \in {"idle", "preflight"}
          /\ \/ calls'[d].pc = "done"
             \/ calls'[d].pc = "preflight" /\ \A t \in Targets : calls'[d].results[t] = "not_attempted"
  /\ \A p \in Plans :
       /\ plans[p].hash # None => plans'[p].hash # None
       /\ confs[p].consumed => confs'[p].consumed
       /\ plans'[p].hash = None => plans[p].hash = None /\ keys'[p] = keys[p] /\ confs'[p] = confs[p]

RowMoves(p) ==
  LET old == keys[p]  new == keys'[p]
  IN \/ new = old
     \/ new = NoKey /\ old.expires <= now
     \/ /\ plans[p].hash = None
        /\ new.hash # None /\ new.expires = now + Window
        /\ new.progress = None /\ new.receipt = None /\ new.terminal = None
     \/ /\ old.hash # None /\ new.started
        /\ new.hash = old.hash /\ new.expires = old.expires
        /\ new.progress = old.progress /\ new.receipt = old.receipt /\ new.terminal = old.terminal

\* Such steps keep the invariant.
LEMMA AsideInv == ASSUME BulkInv, TypeOK', StepsAside, \A p \in Plans : RowMoves(p) PROVE BulkInv'
  <1>0. /\ TypeOK /\ now \in Nat
        /\ \A c \in Calls : calls[c].pc \notin {"idle", "preflight"} \/ \A t \in Targets : wire[c][t] = "none"
        /\ \A c \in Calls : calls[c].pc # "idle" => calls[c].key \in Plans /\ calls[c].token \in Plans
    BY MadeTypes DEF BulkInv, WalkInv, WalkAt, TypeOK
  <1>1. \A c \in Calls : Went(c)' => calls'[c] = calls[c] /\ Went(c) /\ calls[c].pc # "idle"
    BY <1>0 DEF StepsAside, Went, Walking
  <1>2. \A c \in Calls : Held(c) /\ Saved(c) /\ WalkAt(c)
    BY DEF BulkInv, HoldInv, SavedInv, WalkInv
  <1>3. \A p \in Plans : TableRow(p)
    BY DEF BulkInv, TableInv
  <1>4. TableInv'
    <2> SUFFICES ASSUME NEW p \in Plans PROVE TableRow(p)'
      BY DEF TableInv
    <2>1. TableRow(p) /\ RowMoves(p)
      BY <1>3
    <2>2. plans'[p].hash = None => keys'[p] = NoKey /\ confs'[p] = NoConfRow
      BY <2>1 DEF StepsAside, TableRow
    <2>3. keys'[p].hash = None => keys'[p] = NoKey
      BY <2>1 DEF RowMoves, TableRow
    <2>4. keys'[p].hash # None => Window <= keys'[p].expires
      BY <1>0, <2>1, Empty DEF RowMoves, TableRow
    <2> QED BY <2>2, <2>3, <2>4 DEF TableRow
  <1>5. WalkInv'
    <2> SUFFICES ASSUME NEW c \in Calls PROVE WalkAt(c)'
      BY DEF WalkInv
    <2>1. CASE calls'[c] = calls[c]
      BY <1>2, <2>1 DEF StepsAside, WalkAt, Walking
    <2>2. CASE calls'[c] # calls[c]
      BY <1>0, <2>2 DEF StepsAside, WalkAt, Walking
    <2> QED BY <2>1, <2>2
  <1>6. HoldInv'
    <2> SUFFICES ASSUME NEW c \in Calls, Went(c)' PROVE Held(c)'
      BY DEF HoldInv, Held
    <2> DEFINE k == calls[c].key
    <2>1. Went(c) /\ calls'[c] = calls[c] /\ k \in Plans /\ calls[c].token \in Plans
      BY <1>0, <1>1
    <2>2. /\ confs[calls[c].token].consumed /\ plans[k].hash # None
          /\ keys[k].hash = None \/ keys[k].started
          /\ Walking(c) => keys[k].receipt = None /\ keys[k].terminal = None
      BY <1>2, <2>1 DEF Held
    <2>3. RowMoves(k)
      BY <2>1
    <2>4. keys'[k].hash = None \/ keys'[k].started
      BY <2>2, <2>3, Empty DEF RowMoves
    <2>5. Walking(c) => keys'[k].receipt = None /\ keys'[k].terminal = None
      BY <2>2, <2>3, Empty DEF RowMoves
    <2> QED BY <2>1, <2>2, <2>4, <2>5 DEF StepsAside, Held, Walking
  <1>7. OnceInv'
    BY <1>1 DEF BulkInv, OnceInv
  <1>8. SavedInv'
    <2> SUFFICES ASSUME NEW c \in Calls, now' < Window, Went(c)' PROVE Saved(c)'
      BY DEF SavedInv, Saved
    <2> DEFINE k == calls[c].key
    <2>1. Went(c) /\ calls'[c] = calls[c] /\ k \in Plans /\ now < Window
      BY <1>0, <1>1 DEF StepsAside
    <2>2. keys[k].progress # None /\ plans[k].hash # None
      BY <1>2, <2>1 DEF Saved, Held
    <2>3. keys[k].hash # None /\ Window <= keys[k].expires /\ keys[k].expires \in Nat
      BY <1>0, <1>3, <2>1, <2>2, Empty DEF TableRow, TypeOK, BulkKey
    <2>4. keys'[k].progress = keys[k].progress
      <3>1. RowMoves(k)
        BY <2>1
      <3> QED BY <1>0, <2>1, <2>2, <2>3, <3>1 DEF RowMoves
    <2> QED BY <1>2, <2>1, <2>4 DEF Saved, StepsAside, Walking
  <1>9. RowInv'
    <2> SUFFICES ASSUME NEW k \in Plans PROVE ProgressTrue(k)' /\ FinalTrue(k)' /\ TerminalTrue(k)'
      BY DEF RowInv
    <2>1. /\ keys'[k].progress \in {None, keys[k].progress}
          /\ keys'[k].receipt \in {None, keys[k].receipt}
          /\ keys'[k].terminal \in {None, keys[k].terminal}
      <3>1. RowMoves(k)
        OBVIOUS
      <3> QED BY <3>1, Empty DEF RowMoves
    <2>2. \A d \in Calls : calls[d].pc = "done" =>
            /\ calls'[d].pc = "done" /\ calls'[d].token = calls[d].token
            /\ \A t \in Targets : wire'[d][t] # "none" => wire[d][t] # "none"
      BY DEF StepsAside
    <2>3. /\ audit \subseteq audit' /\ UNCHANGED wire
          /\ \A q \in Plans : confs[q].consumed => confs'[q].consumed
      BY DEF StepsAside
    <2>4. ProgressTrue(k) /\ FinalTrue(k) /\ TerminalTrue(k)
      BY DEF BulkInv, RowInv
    <2> QED BY <1>0, <2>1, <2>2, <2>3, <2>4, RowStays
  <1> QED BY <1>4, <1>5, <1>6, <1>7, <1>8, <1>9 DEF BulkInv

\* handle_plan keeps the invariant.
LEMMA PlanInv ==
  ASSUME BulkInv, TypeOK', NEW p \in Plans, NEW patch \in Patches, NEW a \in Actors, NEW done \in 1..4,
         PlanBulk(p, patch, a, done)
  PROVE  BulkInv'
  <1> DEFINE h == [patch |-> patch, vers |-> version]
  <1>1. h # None
    BY BulkAssumption DEF BulkInv, TypeOK
  <1>2. /\ plans[p].hash = None
        /\ plans' = [plans EXCEPT ![p] = [hash |-> h, actor |-> a, expires |-> now + PlanTTL, consumed |-> FALSE]]
        /\ confs' = confs \/ confs' = [confs EXCEPT ![p] = IssueConfirmation(h, a, now)]
        /\ keys' = keys \/ keys' = [keys EXCEPT ![p] = ReserveIdempotency(h)]
        /\ UNCHANGED <<now, wire, calls>> /\ audit \subseteq audit'
    BY DEF PlanBulk
  <1> HIDE DEF h
  <1>3. /\ plans'[p].hash # None
        /\ \A q \in Plans : q # p => plans'[q] = plans[q] /\ confs'[q] = confs[q] /\ keys'[q] = keys[q]
    BY <1>1, <1>2 DEF BulkInv, TypeOK
  <1>4. ~confs[p].consumed
    BY <1>2, Empty DEF BulkInv, TableInv, TableRow
  <1>5. StepsAside
    BY <1>2, <1>3, <1>4 DEF StepsAside
  <1>6. RowMoves(p)
    <2>1. LET new == ReserveIdempotency(h)
          IN /\ new.hash = h /\ new.expires = now + Window
             /\ new.progress = None /\ new.receipt = None /\ new.terminal = None
      BY DEF ReserveIdempotency, NoKey
    <2>2. keys'[p] = keys[p] \/ keys'[p] = ReserveIdempotency(h)
      BY <1>2 DEF BulkInv, TypeOK
    <2> QED BY <1>1, <1>2, <2>1, <2>2 DEF RowMoves
  <1>7. \A q \in Plans : RowMoves(q)
    BY <1>3, <1>6 DEF RowMoves
  <1> QED BY <1>5, <1>7, AsideInv

\* The entry of an apply keeps the invariant.
LEMMA ApplyInv ==
  ASSUME BulkInv, TypeOK', NEW c \in Calls, NEW p \in Plans, NEW tok \in Plans, NEW k \in Plans,
         NEW a \in Actors, NEW allowed \in BOOLEAN, Apply(c, p, tok, k, a, allowed)
  PROVE  BulkInv'
  <1> DEFINE x == [NoCall EXCEPT !.pc = "preflight", !.plan = p, !.token = tok, !.key = k,
                                 !.actor = a, !.at = 1]
             v == IF allowed THEN EntryVerdict(p, tok, a, LookupIdempotency(keys[k])) ELSE "DENIED"
             y == [x EXCEPT !.pc = "done", !.out = v]
  <1>1. x.pc = "preflight" /\ x.results = InitialReceipt /\ y.pc = "done"
    BY DEF NoCall
  <1>2. /\ calls[c].pc = "idle"
        /\ calls' = [calls EXCEPT ![c] = IF v = None THEN x ELSE y]
        /\ keys' = keys \/ keys' = [keys EXCEPT ![k] = LookupIdempotency(keys[k])]
        /\ UNCHANGED <<now, plans, confs, wire, audit>>
    BY DEF Apply
  <1> HIDE DEF x, v, y
  <1>3. /\ calls'[c] = x \/ calls'[c] = y
        /\ \A d \in Calls : d # c => calls'[d] = calls[d]
    BY <1>2 DEF BulkInv, TypeOK
  <1>4. \A q \in Plans : keys'[q] = keys[q] \/ (keys'[q] = NoKey /\ keys[q].expires <= now)
    BY <1>2 DEF LookupIdempotency, BulkInv, TypeOK
  <1>5. \A q \in Plans : plans[q].hash = None => keys'[q] = keys[q]
    BY <1>4 DEF BulkInv, TableInv, TableRow
  <1>6. StepsAside
    BY <1>1, <1>2, <1>3, <1>5 DEF StepsAside, InitialReceipt
  <1>7. \A q \in Plans : RowMoves(q)
    BY <1>4 DEF RowMoves
  <1> QED BY <1>6, <1>7, AsideInv

\* A claim that goes through starts a walk of its own.
LEMMA ClaimInv ==
  ASSUME BulkInv, TypeOK', NEW c \in Calls, NEW done \in 0..4, Claim(c, done)
  PROVE  BulkInv'
  <1> DEFINE x == calls[c]
             k == x.key
             marked == [keys[k] EXCEPT !.started = TRUE]
             r == [call |-> c, results |-> x.results]
  <1>0. /\ TypeOK /\ x.pc = "preflight" /\ x \in MadeCall /\ k \in Plans /\ x.token \in Plans
        /\ keys[k] \in BulkKey /\ x.results \in Results /\ r \in Receipt
    BY MadeTypes DEF Claim, BulkInv, Receipt
  <1>1. /\ marked.started /\ marked.hash = keys[k].hash /\ marked.expires = keys[k].expires
        /\ marked.progress = keys[k].progress /\ marked.receipt = keys[k].receipt
        /\ marked.terminal = keys[k].terminal /\ marked \in BulkKey
    BY <1>0 DEF BulkKey
  <1>2. ASSUME NEW code, calls' = Answer(c, code), keys' = keys \/ (Markable(keys[k]) /\ keys' = [keys EXCEPT ![k] = marked]),
               \A q \in Plans : confs'[q] = confs[q] \/ (confs[q].hash # None /\ confs'[q].consumed),
               UNCHANGED <<now, plans, wire>>, audit \subseteq audit'
        PROVE  BulkInv'
    <2>1. calls'[c].pc = "done" /\ \A d \in Calls : d # c => calls'[d] = calls[d]
      BY <1>0, <1>2, AnswerFields
    <2>2. \A q \in Plans : keys'[q] = keys[q] \/ (keys[q].hash # None /\ q = k /\ keys'[q] = marked)
      <3> HIDE DEF marked
      <3> QED BY <1>0, <1>2 DEF Markable, TypeOK
    <2>3. \A q \in Plans : RowMoves(q)
      BY <1>1, <2>2 DEF RowMoves
    <2>4. \A q \in Plans : plans[q].hash = None => confs'[q] = confs[q] /\ keys'[q] = keys[q]
      BY <1>2, <2>2, Empty DEF BulkInv, TableInv, TableRow
    <2>5. StepsAside
      BY <1>0, <1>2, <2>1, <2>4 DEF StepsAside
    <2> QED BY <2>3, <2>5, AsideInv
  <1>3. /\ confs' = confs \/ (confs[x.token].hash # None /\ ~confs[x.token].consumed
                              /\ confs' = [confs EXCEPT ![x.token] = ConsumeRow(confs[x.token])])
        /\ UNCHANGED <<now, plans, wire>> /\ audit \subseteq audit'
    BY DEF Claim, ConsumeVerdict, BindingVerdict
  <1>4. \A row \in ConfRow : ConsumeRow(row).consumed
    BY DEF ConsumeRow, ConfRow
  <1>5. \A q \in Plans : confs'[q] = confs[q] \/ (confs[q].hash # None /\ confs'[q].consumed)
    BY <1>0, <1>3, <1>4 DEF TypeOK
  <1>6. ASSUME done # 4 PROVE BulkInv'
    <2>1. /\ \E code : calls' = Answer(c, code)
          /\ keys' = keys \/ (Markable(keys[k]) /\ keys' = [keys EXCEPT ![k] = marked])
      BY <1>6 DEF Claim
    <2> QED BY <1>2, <1>3, <1>5, <2>1
  <1>7. ASSUME done = 4 PROVE BulkInv'
    <2>1. /\ calls'[c].pc = "recheck" /\ calls'[c].at = 1 /\ calls'[c].key = k
          /\ calls'[c].token = x.token /\ calls'[c].results = x.results
          /\ \A d \in Calls : d # c => calls'[d] = calls[d]
      <3>1. calls' = [calls EXCEPT ![c] = [calls[c] EXCEPT !.pc = "recheck", !.at = 1]]
        <4>1. calls' = [calls EXCEPT ![c].pc = "recheck", ![c].at = 1]
          BY <1>7 DEF Claim
        <4> QED BY <1>0, <4>1 DEF TypeOK
      <3>2. \A y \in MadeCall : LET z == [y EXCEPT !.pc = "recheck", !.at = 1]
                                IN /\ z.pc = "recheck" /\ z.at = 1 /\ z.key = y.key
                                   /\ z.token = y.token /\ z.results = y.results
        BY DEF MadeCall
      <3> QED BY <1>0, <3>1, <3>2 DEF TypeOK
    <2>2. /\ keys[k].hash # None /\ ~keys[k].started /\ keys[k].receipt = None /\ keys[k].terminal = None
          /\ confs[x.token].hash # None /\ ~confs[x.token].consumed /\ confs'[x.token].consumed
      <3>1. Markable(keys[k]) /\ ConsumeVerdict(confs[x.token], x.actor, HashOf(c), now) = "ok"
            /\ confs' = [confs EXCEPT ![x.token] = ConsumeRow(@)]
        BY <1>7 DEF Claim
      <3>2. confs[x.token] \in ConfRow
        BY <1>0 DEF TypeOK
      <3> QED BY <1>0, <1>4, <3>1, <3>2 DEF Markable, ConsumeVerdict, BindingVerdict, TypeOK
    <2>3. /\ keys'[k].started /\ keys'[k].hash = keys[k].hash /\ keys'[k].expires = keys[k].expires
          /\ keys'[k].progress = r /\ keys'[k].receipt = None /\ keys'[k].terminal = None
          /\ \A q \in Plans : q # k => keys'[q] = keys[q]
      <3>1. keys' = [keys EXCEPT ![k] = SaveProgress(marked, r)]
        BY <1>7 DEF Claim
      <3> HIDE DEF marked, r
      <3>2. SaveProgress(marked, r) = [marked EXCEPT !.progress = r]
        BY <1>1, <2>2 DEF SaveProgress
      <3>3. LET z == [marked EXCEPT !.progress = r]
            IN /\ z.started = marked.started /\ z.hash = marked.hash /\ z.expires = marked.expires
               /\ z.progress = r /\ z.receipt = marked.receipt /\ z.terminal = marked.terminal
        BY <1>1 DEF BulkKey
      <3> QED BY <1>0, <1>1, <2>2, <3>1, <3>2, <3>3 DEF TypeOK
    <2>4. plans[k].hash # None /\ plans[x.token].hash # None
      BY <1>0, <2>2, Empty DEF BulkInv, TableInv, TableRow
    <2>5. UNCHANGED <<now, plans, wire>> /\ audit \subseteq audit'
          /\ \A q \in Plans : confs[q].consumed => confs'[q].consumed
      BY <1>3, <1>5
    <2>6. \A t \in Targets : wire[c][t] = "none" /\ x.results[t] = "not_attempted"
      BY <1>0 DEF BulkInv, WalkInv, WalkAt
    <2>7. \A d \in Calls : d # c /\ Went(d)' => Went(d) /\ calls'[d] = calls[d]
                                               /\ calls[d].token # x.token /\ calls[d].key # k
      <3>1. \A d \in Calls : d # c /\ Went(d)' => Went(d) /\ calls'[d] = calls[d]
        BY <2>1, <2>5 DEF Went, Walking
      <3> QED BY <2>2, <3>1 DEF BulkInv, HoldInv, Held
    <2>8. \A d \in Calls : Went(d) => calls[d].key \in Plans /\ calls[d].token \in Plans
      <3>1. \A d \in Calls : Went(d) => calls[d].pc # "idle"
        BY DEF BulkInv, WalkInv, WalkAt, Went, Walking
      <3> QED BY <1>0, <3>1, MadeTypes
    <2> HIDE DEF x, k, marked, r
    <2>9. TableInv'
      <3> SUFFICES ASSUME NEW p \in Plans PROVE TableRow(p)'
        BY DEF TableInv
      <3>1. confs'[p] = confs[p] \/ p = x.token
        BY <1>0, <1>3 DEF TypeOK
      <3>2. keys[p].hash # None => Window <= keys[p].expires
        BY DEF BulkInv, TableInv, TableRow
      <3>3. keys[p].hash = None => keys[p] = NoKey
        BY DEF BulkInv, TableInv, TableRow
      <3>4. plans[p].hash = None => keys[p] = NoKey /\ confs[p] = NoConfRow
        BY DEF BulkInv, TableInv, TableRow
      <3>5. keys'[p] = keys[p] \/ p = k
        BY <2>3
      <3> QED BY <2>2, <2>3, <2>4, <2>5, <3>1, <3>2, <3>3, <3>4, <3>5 DEF TableRow
    <2>10. WalkInv'
      <3> SUFFICES ASSUME NEW d \in Calls PROVE WalkAt(d)'
        BY DEF WalkInv
      <3>1. CASE d = c
        BY <2>1, <2>5, <2>6, <3>1 DEF WalkAt, Targets
      <3>2. CASE d # c
        BY <2>1, <2>5, <3>2 DEF BulkInv, WalkInv, WalkAt, Walking
      <3> QED BY <3>1, <3>2
    <2>11. HoldInv'
      <3> SUFFICES ASSUME NEW d \in Calls, Went(d)' PROVE Held(d)'
        BY DEF HoldInv, Held
      <3>1. CASE d = c
        BY <2>1, <2>2, <2>3, <2>4, <2>5, <3>1 DEF Held
      <3>2. CASE d # c
        <4>1. /\ confs[calls[d].token].consumed /\ plans[calls[d].key].hash # None
              /\ keys[calls[d].key].hash = None \/ keys[calls[d].key].started
              /\ Walking(d) => keys[calls[d].key].receipt = None /\ keys[calls[d].key].terminal = None
          BY <2>7, <3>2 DEF BulkInv, HoldInv, Held
        <4>2. keys'[calls[d].key] = keys[calls[d].key] /\ confs'[calls[d].token].consumed
          BY <2>3, <2>5, <2>7, <2>8, <3>2, <4>1
        <4> QED BY <2>5, <2>7, <3>2, <4>1, <4>2 DEF Held, Walking
      <3> QED BY <3>1, <3>2
    <2>12. OnceInv'
      BY <2>1, <2>7 DEF BulkInv, OnceInv
    <2>13. SavedInv'
      <3> SUFFICES ASSUME NEW d \in Calls, now' < Window, Went(d)' PROVE Saved(d)'
        BY DEF SavedInv, Saved
      <3>1. CASE d = c
        <4>1. keys'[calls'[d].key].progress = r /\ r.call = c
          BY <2>1, <2>3, <3>1 DEF r
        <4>2. r # None
          BY <1>0
        <4>3. \A t, u \in Targets : wire'[d][t] # "none" \/ t = calls'[d].at => ~(u < t)
          BY <2>1, <2>5, <2>6, <3>1 DEF Targets
        <4> QED BY <3>1, <4>1, <4>2, <4>3 DEF Saved
      <3>2. CASE d # c
        <4>1. keys'[calls'[d].key] = keys[calls[d].key] /\ Went(d) /\ calls'[d] = calls[d]
          BY <2>3, <2>7, <2>8, <3>2
        <4> QED BY <2>5, <4>1 DEF BulkInv, SavedInv, Saved, Walking
      <3> QED BY <3>1, <3>2
    <2>14. RowInv'
      <3> SUFFICES ASSUME NEW q \in Plans PROVE ProgressTrue(q)' /\ FinalTrue(q)' /\ TerminalTrue(q)'
        BY DEF RowInv
      <3>1. CASE q = k
        <4>1. r.call = c /\ \A t \in Targets : r.results[t] = "not_attempted"
          BY <2>6 DEF r, x
        <4> QED BY <2>3, <3>1, <4>1 DEF ProgressTrue, FinalTrue, TerminalTrue
      <3>2. CASE q # k
        <4>1. keys'[q] = keys[q] /\ ProgressTrue(q) /\ FinalTrue(q) /\ TerminalTrue(q)
          BY <2>3, <3>2 DEF BulkInv, RowInv
        <4>2. \A d \in Calls : calls[d].pc = "done" => calls'[d] = calls[d]
          BY <1>0, <2>1 DEF x
        <4> QED BY <1>0, <2>5, <4>1, <4>2, RowStays
      <3> QED BY <3>1, <3>2
    <2> QED BY <2>9, <2>10, <2>11, <2>12, <2>13, <2>14 DEF BulkInv
  <1> QED BY <1>6, <1>7

\* What the walk's saves write (save_progress, save_final_receipt, save_terminal_error).
LEMMA SaveFields ==
  ASSUME NEW row \in BulkKey, NEW r \in Receipt, NEW c \in Calls
  PROVE  /\ row.hash = None => /\ SaveProgress(row, r) = row
                               /\ SaveFinalReceipt(row, r) = row /\ SaveTerminalError(row, c) = row
         /\ LET new == SaveProgress(row, r)
            IN /\ new.hash = row.hash /\ new.expires = row.expires /\ new.started = row.started
               /\ new.receipt = row.receipt /\ new.terminal = row.terminal
               /\ new.progress = IF row.hash = None THEN row.progress ELSE r
         /\ LET new == SaveFinalReceipt(row, r)
            IN /\ new.hash = row.hash /\ new.expires = row.expires /\ new.started = row.started
               /\ new.receipt \in {row.receipt, r} /\ new.terminal = row.terminal
               /\ new.progress \in {row.progress, r}
         /\ LET new == SaveTerminalError(row, c)
            IN /\ new.hash = row.hash /\ new.expires = row.expires /\ new.started = row.started
               /\ new.receipt = row.receipt /\ new.terminal \in {row.terminal, c}
               /\ new.progress = row.progress
  BY DEF SaveProgress, SaveFinalReceipt, SaveTerminalError, BulkKey

\* The walk of call c takes R for its results, and ends or goes on.
RowWalks(c, R) ==
  LET old == keys[calls[c].key]  new == keys'[calls[c].key]
  IN /\ new.hash = old.hash /\ new.expires = old.expires /\ new.started = old.started
     /\ old.hash = None => new = old
     /\ new.progress \in {old.progress, [call |-> c, results |-> R]}

WalkEnds(c, R) ==
  LET old == keys[calls[c].key]  new == keys'[calls[c].key]
  IN /\ calls'[c].pc = "done"
     /\ \/ new.receipt = old.receipt
        \/ /\ new.receipt = [call |-> c, results |-> R]
           /\ \E s \in {"applied_partial", "applied_success"} : <<c, s>> \in audit'
     /\ \/ new.terminal = old.terminal
        \/ new.terminal = c /\ new.receipt = old.receipt /\ \A t \in Targets : R[t] # "applied"

WalkGoesOn(c, R) ==
  LET old == keys[calls[c].key]  new == keys'[calls[c].key]
  IN /\ calls[c].pc = "settling" /\ calls[c].at < N
     /\ calls'[c].pc = "recheck" /\ calls'[c].at = calls[c].at + 1 /\ calls'[c].results = R
     /\ R = With(c, "applied")
     /\ new.receipt = old.receipt /\ new.terminal = old.terminal
     /\ old.hash # None => new.progress = [call |-> c, results |-> R]

WalkMoves(c, R) ==
  /\ Walking(c)
  /\ R = With(c, "failed") \/ (R = With(c, "applied") /\ calls[c].pc = "settling")
  /\ UNCHANGED <<now, confs, wire>> /\ audit \subseteq audit'
  /\ \A p \in Plans : plans'[p].hash = plans[p].hash
  /\ \A q \in Plans : q # calls[c].key => keys'[q] = keys[q]
  /\ \A d \in Calls : d # c => calls'[d] = calls[d]
  /\ calls'[c].key = calls[c].key /\ calls'[c].token = calls[c].token
  /\ RowWalks(c, R)
  /\ WalkEnds(c, R) \/ WalkGoesOn(c, R)

\* The loop's steps are of this form.
LEMMA WalkShape ==
  ASSUME TypeOK, NEW c \in Calls, WalkStep(c)
  PROVE  \E R \in Results : WalkMoves(c, R)
  <1> DEFINE k == calls[c].key
  <1>0. Walking(c) /\ calls[c].pc # "idle"
    BY DEF WalkStep, PatchFails, SettleIncoherent, SettleLast, RecheckStops, SettleNext, Walking
  <1>1. calls[c] \in MadeCall /\ k \in Plans /\ calls[c].plan \in Plans /\ keys[k] \in BulkKey
    BY <1>0, MadeTypes
  <1>2. \A s \in {"applied", "failed"} : With(c, s) \in Results
    BY <1>0, MadeTypes DEF With, Results
  <1>3. \A R \in Results : [call |-> c, results |-> R] \in Receipt
    BY DEF Receipt
  <1>4. ASSUME NEW R \in Results, R = With(c, "failed") \/ (R = With(c, "applied") /\ calls[c].pc = "settling"),
               calls' = Answer(c, "PENDING_RESOLUTION_REQUIRED"), UNCHANGED <<now, confs, wire, keys, audit, plans>>
        PROVE  WalkMoves(c, R)
    BY <1>0, <1>4, AnswerFields DEF WalkMoves, RowWalks, WalkEnds
  <1>5. ASSUME NEW R \in Results, R = With(c, "failed") \/ (R = With(c, "applied") /\ calls[c].pc = "settling"),
               NEW failure \in BOOLEAN, NEW done \in Int,
               NEW row \in {keys[k], SaveProgress(keys[k], [call |-> c, results |-> R])},
               Conclude(c, R, failure, row, done), UNCHANGED <<now, confs, wire>>
        PROVE  WalkMoves(c, R)
    <2> DEFINE r == [call |-> c, results |-> R]
               unapplied == failure /\ \A t \in Targets : R[t] # "applied"
    <2>1. r \in Receipt
      BY <1>3
    <2>2. /\ calls'[c].pc = "done" /\ calls'[c].key = k /\ calls'[c].token = calls[c].token
          /\ \A d \in Calls : d # c => calls'[d] = calls[d]
      <3>1. \A code : \A y \in MadeCall : LET z == [y EXCEPT !.pc = "done", !.results = R, !.out = code]
                                           IN z.pc = "done" /\ z.key = y.key /\ z.token = y.token
        BY DEF MadeCall
      <3>2. \E code : calls' = [calls EXCEPT ![c] = [calls[c] EXCEPT !.pc = "done", !.results = R, !.out = code]]
        BY <1>5 DEF Conclude
      <3> QED BY <1>1, <3>1, <3>2 DEF TypeOK
    <2>3. audit \subseteq audit' /\ \A p \in Plans : plans'[p].hash = plans[p].hash
      <3>1. \A y \in BulkPlan : [y EXCEPT !.consumed = TRUE].hash = y.hash
        BY DEF BulkPlan
      <3>2. plans' = plans \/ plans' = [plans EXCEPT ![calls[c].plan] = [plans[calls[c].plan] EXCEPT !.consumed = TRUE]]
        BY <1>5 DEF Conclude
      <3>3. audit \subseteq audit'
        BY <1>5 DEF Conclude
      <3>4. \A p \in Plans : plans[p] \in BulkPlan
        BY DEF TypeOK
      <3>5. \A p \in Plans : plans'[p] = plans[p] \/ plans'[p] = [plans[p] EXCEPT !.consumed = TRUE]
        BY <1>1, <3>2 DEF TypeOK
      <3> QED BY <3>1, <3>3, <3>4, <3>5
    <2>4. /\ row \in BulkKey /\ row.hash = keys[k].hash /\ row.expires = keys[k].expires
          /\ row.started = keys[k].started /\ row.receipt = keys[k].receipt /\ row.terminal = keys[k].terminal
          /\ row.progress \in {keys[k].progress, r} /\ (keys[k].hash = None => row = keys[k])
      <3>1. row = keys[k] \/ row = SaveProgress(keys[k], r)
        BY <1>5
      <3> HIDE DEF r
      <3>2. SaveProgress(keys[k], r) \in BulkKey
        BY <1>1, <2>1 DEF SaveProgress, BulkKey
      <3> QED BY <1>1, <2>1, <3>1, <3>2, SaveFields
    <2>5. /\ \/ done < 2 /\ keys'[k] = row
             \/ done >= 2 /\ unapplied /\ keys'[k] = SaveTerminalError(row, c)
             \/ done >= 2 /\ ~unapplied /\ keys'[k] = SaveFinalReceipt(row, r)
          /\ \A q \in Plans : q # k => keys'[q] = keys[q]
      BY <1>1, <1>5 DEF Conclude, TypeOK
    <2>6. ~unapplied /\ done >= 2 => \E s \in {"applied_partial", "applied_success"} : <<c, s>> \in audit'
      BY <1>5 DEF Conclude
    <2> HIDE DEF r
    <2>7. RowWalks(c, R)
      BY <2>1, <2>4, <2>5, SaveFields DEF RowWalks, r
    <2>8. WalkEnds(c, R)
      BY <2>1, <2>2, <2>4, <2>5, <2>6, SaveFields DEF WalkEnds, r
    <2> QED BY <1>0, <1>5, <2>2, <2>3, <2>5, <2>7, <2>8 DEF WalkMoves
  <1>6. ASSUME NEW R \in Results, R = With(c, "failed") \/ (R = With(c, "applied") /\ calls[c].pc = "settling"),
               NEW failure \in BOOLEAN, NEW done \in Int, SaveAndConclude(c, R, failure, done), UNCHANGED <<now, confs, wire>>
        PROVE  WalkMoves(c, R)
    BY <1>4, <1>5, <1>6 DEF SaveAndConclude
  <1>7. ASSUME NEW done \in 0..3, PatchFails(c, done) PROVE WalkMoves(c, With(c, "failed"))
    <2>1. done \in Int
      OBVIOUS
    <2> QED BY <1>2, <1>6, <1>7, <2>1 DEF PatchFails
  <1>8. ASSUME NEW done \in 0..3, SettleIncoherent(c, done) \/ SettleLast(c, done)
        PROVE  WalkMoves(c, With(c, "applied"))
    <2>1. done \in Int
      OBVIOUS
    <2> QED BY <1>2, <1>6, <1>8, <2>1 DEF SettleIncoherent, SettleLast
  <1>9. ASSUME NEW done \in 0..2, NEW read \in BOOLEAN, RecheckStops(c, read, done)
        PROVE  WalkMoves(c, With(c, "failed"))
    <2>1. done \in Int
      OBVIOUS
    <2> QED BY <1>2, <1>5, <1>9, <2>1 DEF RecheckStops
  <1>10. ASSUME SettleNext(c, 0) PROVE WalkMoves(c, With(c, "applied"))
    BY <1>2, <1>4, <1>10 DEF SettleNext
  <1>11. ASSUME SettleNext(c, 1) PROVE WalkMoves(c, With(c, "applied"))
    <2> DEFINE R == With(c, "applied")
               n == calls[c].at + 1
               r == [call |-> c, results |-> R]
    <2>1. /\ calls[c].pc = "settling" /\ calls[c].at < N
          /\ calls' = [calls EXCEPT ![c].pc = "recheck", ![c].at = @ + 1, ![c].results = R]
          /\ keys' = [keys EXCEPT ![k] = SaveProgress(keys[k], r)]
          /\ UNCHANGED <<now, version, plans, confs, wire, audit>>
      BY <1>11 DEF SettleNext
    <2>2. R \in Results /\ r \in Receipt
      BY <1>2, <1>3
    <2>3. /\ calls'[c].pc = "recheck" /\ calls'[c].at = n /\ calls'[c].results = R
          /\ calls'[c].key = k /\ calls'[c].token = calls[c].token
          /\ \A d \in Calls : d # c => calls'[d] = calls[d]
      <3> HIDE DEF R, r
      <3>1. calls \in [Calls -> {NoCall} \cup MadeCall]
        BY DEF TypeOK
      <3>2. calls' = [calls EXCEPT ![c].pc = "recheck", ![c].at = n, ![c].results = R]
        BY <2>1, <3>1
      <3> HIDE DEF n
      <3>3. calls' = [calls EXCEPT ![c] = [calls[c] EXCEPT !.pc = "recheck", !.at = n, !.results = R]]
        BY <3>1, <3>2
      <3>4. \A y \in MadeCall : LET z == [y EXCEPT !.pc = "recheck", !.at = n, !.results = R]
                                IN /\ z.pc = "recheck" /\ z.at = n /\ z.results = R
                                   /\ z.key = y.key /\ z.token = y.token
        BY DEF MadeCall
      <3> QED BY <1>1, <3>1, <3>3, <3>4
    <2> HIDE DEF R, r
    <2>4. keys'[k] = SaveProgress(keys[k], r) /\ \A q \in Plans : q # k => keys'[q] = keys[q]
      BY <1>1, <2>1 DEF TypeOK
    <2>5. RowWalks(c, R)
      BY <1>1, <2>2, <2>4, SaveFields DEF RowWalks, r
    <2>6. WalkGoesOn(c, R)
      BY <1>1, <2>1, <2>2, <2>3, <2>4, SaveFields DEF WalkGoesOn, r, R
    <2>7. WalkMoves(c, R)
      BY <1>0, <2>1, <2>3, <2>4, <2>5, <2>6 DEF WalkMoves, R
    <2> QED BY <2>7 DEF R
  <1> QED BY <1>2, <1>7, <1>8, <1>9, <1>10, <1>11 DEF WalkStep

\* A step of a walk keeps the invariant.
LEMMA WalkInvStep ==
  ASSUME BulkInv, TypeOK', NEW c \in Calls, NEW R \in Results, WalkMoves(c, R)
  PROVE  BulkInv'
  <1> DEFINE k == calls[c].key
             at == calls[c].at
             r == [call |-> c, results |-> R]
  <1>0. /\ TypeOK /\ Walking(c) /\ Went(c) /\ WalkAt(c) /\ Held(c) /\ Saved(c)
        /\ calls[c] \in MadeCall /\ k \in Plans /\ calls[c].token \in Plans /\ r \in Receipt /\ r # None
        /\ calls[c].results \in Results /\ keys[k] \in BulkKey
    <2>1. TypeOK /\ Walking(c) /\ WalkAt(c) /\ Held(c) /\ Saved(c)
      BY DEF BulkInv, WalkInv, HoldInv, SavedInv, WalkMoves
    <2>2. r \in Receipt
      BY DEF Receipt
    <2> QED BY <2>1, <2>2, MadeTypes DEF Went, Walking
  <1>1. /\ UNCHANGED <<now, confs, wire>> /\ audit \subseteq audit'
        /\ \A p \in Plans : plans'[p].hash = plans[p].hash
        /\ \A q \in Plans : q # k => keys'[q] = keys[q]
        /\ \A d \in Calls : d # c => calls'[d] = calls[d]
        /\ calls'[c].key = k /\ calls'[c].token = calls[c].token
        /\ RowWalks(c, R) /\ (WalkEnds(c, R) \/ WalkGoesOn(c, R))
    BY DEF WalkMoves
  <1>2. /\ at \in Targets
        /\ \A t \in Targets :
             /\ R[t] = "applied" => wire[c][t] = "applied"
             /\ R[t] = "not_attempted" => wire[c][t] = "none"
             /\ t < at => R[t] = "applied"
             /\ t > at => R[t] = "not_attempted" /\ wire[c][t] = "none"
        /\ (\A t \in Targets : R[t] # "applied") => \A t \in Targets : wire[c][t] # "none" => t = at
    <2>1. \E s \in {"failed", "applied"} :
             /\ R = [calls[c].results EXCEPT ![at] = s]
             /\ s = "applied" => calls[c].pc = "settling"
      BY DEF WalkMoves, With
    <2>2. PICK s \in {"failed", "applied"} :
             /\ R = [calls[c].results EXCEPT ![at] = s]
             /\ s = "applied" => calls[c].pc = "settling"
      BY <2>1
    <2>3. /\ at \in Targets
          /\ \A t \in Targets :
               /\ t < at => wire[c][t] = "applied" /\ calls[c].results[t] = "applied"
               /\ t >= at => calls[c].results[t] = "not_attempted"
               /\ t > at => wire[c][t] = "none"
          /\ calls[c].pc = "settling" => wire[c][at] = "applied"
      BY <1>0 DEF WalkAt
    <2>4. R[at] = s /\ \A t \in Targets : t # at => R[t] = calls[c].results[t]
      BY <1>0, <2>2, <2>3 DEF Results
    <2> HIDE DEF at
    <2>5. \A t \in Targets : t < at \/ t = at \/ t > at
      BY <2>3 DEF Targets
    <2>6. \A t \in Targets : /\ t < at => t # at
                             /\ t > at => t # at /\ t >= at
      BY <2>3 DEF Targets
    <2> QED BY <2>2, <2>3, <2>4, <2>5, <2>6
  <1>3. \A d \in Calls : Went(d)' => Went(d) /\ calls'[d].key = calls[d].key /\ calls'[d].token = calls[d].token
    BY <1>0, <1>1 DEF Went, Walking
  <1>4. \A d \in Calls : d # c /\ Went(d)' => /\ calls[d].key # k /\ calls[d].key \in Plans
                                             /\ calls'[d] = calls[d] /\ Held(d) /\ Saved(d)
    <2>1. \A d \in Calls : Went(d) => calls[d].pc # "idle"
      BY DEF BulkInv, WalkInv, WalkAt, Went, Walking
    <2>2. \A d \in Calls : Went(d) => calls[d].key \in Plans
      BY <1>0, <2>1, MadeTypes
    <2> QED BY <1>0, <1>1, <1>3, <2>2 DEF BulkInv, OnceInv, HoldInv, SavedInv
  <1>5. /\ keys[k].receipt = None /\ keys[k].terminal = None
        /\ confs[calls[c].token].consumed /\ plans[k].hash # None
        /\ keys[k].hash = None \/ keys[k].started
    BY <1>0 DEF Held
  <1>6. TableInv'
    <2> SUFFICES ASSUME NEW p \in Plans PROVE TableRow(p)'
      BY DEF TableInv
    <2>1. TableRow(p)
      BY DEF BulkInv, TableInv
    <2>2. CASE p = k
      BY <1>1, <1>5, <2>1, <2>2 DEF TableRow, RowWalks
    <2>3. CASE p # k
      BY <1>1, <2>1, <2>3 DEF TableRow
    <2> QED BY <2>2, <2>3
  <1>7. WalkInv'
    <2> SUFFICES ASSUME NEW d \in Calls PROVE WalkAt(d)'
      BY DEF WalkInv
    <2>1. CASE d # c
      BY <1>1, <2>1 DEF BulkInv, WalkInv, WalkAt, Walking
    <2>2. CASE d = c /\ WalkEnds(c, R)
      BY <2>2 DEF WalkEnds, WalkAt, Walking
    <2>3. CASE d = c /\ WalkGoesOn(c, R)
      <3>1. /\ calls'[c].pc = "recheck" /\ calls'[c].at = at + 1 /\ calls'[c].results = R
            /\ R[at] = "applied" /\ at + 1 \in Targets
        <4>1. calls[c].results \in Results /\ at \in Targets
          BY <1>0, <1>2
        <4> QED BY <2>3, <4>1 DEF WalkGoesOn, With, Results, Targets
      <3> HIDE DEF at
      <3>2. \A t \in Targets : /\ t < at + 1 => t < at \/ t = at
                               /\ t >= at + 1 => t > at
                               /\ t > at + 1 => t > at
        BY <1>2 DEF Targets
      <3>3. at + 1 > at
        BY <1>2 DEF Targets
      <3> QED BY <1>1, <1>2, <2>3, <3>1, <3>2, <3>3 DEF WalkAt
    <2> QED BY <1>1, <2>1, <2>2, <2>3
  <1>8. HoldInv'
    <2> SUFFICES ASSUME NEW d \in Calls, Went(d)' PROVE Held(d)'
      BY DEF HoldInv, Held
    <2>1. CASE d # c
      BY <1>1, <1>3, <1>4, <2>1 DEF Held, Walking
    <2>2. CASE d = c
      <3>1. Walking(c)' => keys'[k].receipt = None /\ keys'[k].terminal = None
        BY <1>1, <1>5 DEF WalkEnds, WalkGoesOn, Walking
      <3>2. keys'[k].hash = None \/ keys'[k].started
        BY <1>1, <1>5 DEF RowWalks
      <3> QED BY <1>0, <1>1, <1>5, <2>2, <3>1, <3>2 DEF Held
    <2> QED BY <2>1, <2>2
  <1>9. OnceInv'
    BY <1>3 DEF BulkInv, OnceInv
  <1>10. SavedInv'
    <2> SUFFICES ASSUME NEW d \in Calls, now' < Window, Went(d)' PROVE Saved(d)'
      BY DEF SavedInv, Saved
    <2>1. CASE d # c
      <3>1. keys'[calls'[d].key] = keys[calls[d].key] /\ Saved(d) /\ Went(d) /\ calls'[d] = calls[d]
        BY <1>1, <1>3, <1>4, <2>1
      <3> QED BY <1>1, <3>1 DEF Saved, Walking
    <2>2. CASE d = c
      <3> DEFINE s == keys[k].progress
      <3>1. /\ s # None /\ s.call = c
            /\ \A t, u \in Targets : (wire[c][t] # "none" \/ t = at) /\ u < t => s.results[u] = "applied"
        BY <1>0, <1>1, <2>2 DEF Saved
      <3>2. keys'[k].progress \in {s, r} /\ (WalkGoesOn(c, R) => keys'[k].progress = r)
        <4>1. keys[k].hash # None
          BY <1>0, <3>1, Empty DEF BulkInv, TableInv, TableRow
        <4> QED BY <1>1, <4>1 DEF RowWalks, WalkGoesOn
      <3>3. r.call = c /\ r.results = R
        OBVIOUS
      <3> HIDE DEF s, r, at
      <3>4. \A t, u \in Targets : wire[c][t] # "none" /\ u < t => s.results[u] = "applied" /\ R[u] = "applied"
        <4>1. \A t \in Targets : wire[c][t] # "none" => ~(t > at)
          BY <1>2
        <4>2. \A t, u \in Targets : ~(t > at) /\ u < t => u < at
          BY <1>2 DEF Targets
        <4> QED BY <1>2, <3>1, <4>1, <4>2
      <3>5. CASE WalkEnds(c, R)
        <4>1. ~Walking(c)'
          BY <3>5 DEF WalkEnds, Walking
        <4>2. keys'[calls'[c].key].progress \in {s, r}
          BY <1>1, <3>2
        <4> QED BY <1>0, <1>1, <2>2, <3>1, <3>3, <3>4, <4>1, <4>2 DEF Saved
      <3>6. CASE WalkGoesOn(c, R)
        <4>1. calls'[c].at = at + 1
          BY <3>6 DEF WalkGoesOn, at
        <4>2. R[at] = "applied"
          BY <1>0, <1>2, <3>6 DEF WalkGoesOn, With, Results, at
        <4>3. \A u \in Targets : u < at + 1 => R[u] = "applied"
          <5>1. \A u \in Targets : u < at + 1 => u < at \/ u = at
            BY <1>2 DEF Targets
          <5> QED BY <1>2, <4>2, <5>1
        <4> QED BY <1>0, <1>1, <2>2, <3>2, <3>3, <3>4, <3>6, <4>1, <4>3 DEF Saved
      <3> QED BY <1>1, <3>5, <3>6
    <2> QED BY <2>1, <2>2
  <1>11. RowInv'
    <2>0. \A d \in Calls : calls[d].pc = "done" => calls'[d] = calls[d]
      BY <1>0, <1>1 DEF Walking
    <2> SUFFICES ASSUME NEW q \in Plans PROVE ProgressTrue(q)' /\ FinalTrue(q)' /\ TerminalTrue(q)'
      BY DEF RowInv
    <2>1. ProgressTrue(q) /\ FinalTrue(q) /\ TerminalTrue(q)
      BY DEF BulkInv, RowInv
    <2>2. CASE q # k
      <3>1. keys'[q] = keys[q]
        BY <1>1, <2>2
      <3> QED BY <1>0, <1>1, <2>0, <2>1, <3>1, RowStays
    <2>3. CASE q = k
      <3>1. ProgressTrue(q)'
        <4> DEFINE s == keys[k].progress
        <4>1. s # None => \A t \in Targets : s.results[t] = "applied" => wire[s.call][t] = "applied"
          BY <2>1, <2>3 DEF ProgressTrue
        <4>2. keys'[k].progress \in {s, r} /\ r.call = c /\ r.results = R
          BY <1>1 DEF RowWalks
        <4> HIDE DEF s, r
        <4> QED BY <1>1, <1>2, <2>3, <4>1, <4>2 DEF ProgressTrue
      <3>2. FinalTrue(q)'
        <4>1. \/ keys'[k].receipt = None
              \/ /\ keys'[k].receipt = r /\ calls'[c].pc = "done"
                 /\ \E s \in {"applied_partial", "applied_success"} : <<c, s>> \in audit'
          BY <1>1, <1>5 DEF WalkEnds, WalkGoesOn
        <4>2. r.call = c /\ r.results = R
          OBVIOUS
        <4> HIDE DEF r
        <4>3. confs'[calls'[c].token].consumed /\ \A t \in Targets : R[t] = "not_attempted" => wire'[c][t] = "none"
          BY <1>1, <1>2, <1>5
        <4>4. keys'[q].receipt = None \/ (keys'[q].receipt = r /\ calls'[c].pc = "done"
                /\ \E s \in {"applied_partial", "applied_success"} : <<c, s>> \in audit')
          BY <2>3, <4>1
        <4> QED BY <4>2, <4>3, <4>4 DEF FinalTrue
      <3>3. TerminalTrue(q)'
        <4>1. \/ keys'[k].terminal = None
              \/ /\ keys'[k].terminal = c /\ keys'[k].receipt = None /\ calls'[c].pc = "done"
                 /\ \A t \in Targets : R[t] # "applied"
          BY <1>1, <1>5 DEF WalkEnds, WalkGoesOn
        <4> QED BY <1>1, <1>2, <2>3, <4>1 DEF TerminalTrue
      <3> QED BY <3>1, <3>2, <3>3
    <2> QED BY <2>2, <2>3
  <1> QED BY <1>6, <1>7, <1>8, <1>9, <1>10, <1>11 DEF BulkInv

-----------------------------------------------------------------------------
(* The theorems. *)

\* Empty tables satisfy the invariant.
LEMMA InitInv == Init => BulkInv
  <1> SUFFICES ASSUME Init PROVE BulkInv
    OBVIOUS
  <1>1. TypeOK
    BY InitType
  <1>2. /\ \A p \in Plans : keys[p] = NoKey /\ confs[p] = NoConfRow
        /\ \A c \in Calls : calls[c].pc = "idle" /\ \A t \in Targets : wire[c][t] = "none" /\ calls[c].results[t] = "not_attempted"
    BY DEF Init, NoCall, InitialReceipt
  <1>3. \A c \in Calls : ~Walking(c) /\ ~Went(c)
    BY <1>2 DEF Went, Walking
  <1>4. TableInv /\ RowInv
    BY <1>2, Empty DEF TableInv, TableRow, RowInv, ProgressTrue, FinalTrue, TerminalTrue
  <1>5. WalkInv /\ HoldInv /\ OnceInv /\ SavedInv
    BY <1>2, <1>3 DEF WalkInv, WalkAt, HoldInv, Held, OnceInv, SavedInv, Saved
  <1> QED BY <1>1, <1>4, <1>5 DEF BulkInv

\* Every step keeps the invariant.
LEMMA StepInv == BulkInv /\ [Next]_vars => BulkInv'
  <1> SUFFICES ASSUME BulkInv, [Next]_vars PROVE BulkInv'
    OBVIOUS
  <1>1. TypeOK'
    BY StepType DEF BulkInv
  <1>2. ASSUME NEW c \in Calls, WalkStep(c) PROVE BulkInv'
    <2>1. PICK R \in Results : WalkMoves(c, R)
      BY <1>2, WalkShape DEF BulkInv
    <2> QED BY <1>1, <2>1, WalkInvStep
  <1> QED BY <1>1, <1>2, QuietInv, PlanInv, ApplyInv, ClaimInv DEF Next, QuietStep, WalkStep

\* The invariant holds in every state of the protocol.
LEMMA Reachable == Spec => []BulkInv
  BY InitInv, StepInv, PTL DEF Spec

\* The tables, the calls and the PATCHes keep their types.
THEOREM TypeCorrect == Spec => []TypeOK
  <1>1. BulkInv => TypeOK
    BY DEF BulkInv
  <1> QED BY <1>1, Reachable, PTL

\* One confirmation, or one idempotency key, sends each target's PATCH at most
\* once (mark_apply_started and consume come before the first PATCH).
THEOREM TargetsOnce == Spec => []TargetOnce
  <1>1. BulkInv => TargetOnce
    BY DEF BulkInv, OnceInv, Went, TargetOnce
  <1> QED BY <1>1, Reachable, PTL

\* What the idempotency row says of the targets is so.
THEOREM ReceiptsTrue == Spec => []ReceiptTrue
  <1>1. ASSUME BulkInv PROVE ReceiptTrue
    <2> SUFFICES ASSUME NEW k \in Plans
                 PROVE  /\ keys[k].progress # None =>
                             \A t \in Targets : keys[k].progress.results[t] = "applied" =>
                               wire[keys[k].progress.call][t] = "applied"
                        /\ keys[k].receipt # None =>
                             LET r == keys[k].receipt
                             IN /\ \A t \in Targets : r.results[t] = "not_attempted" => wire[r.call][t] = "none"
                                /\ \E s \in {"applied_partial", "applied_success"} : <<r.call, s>> \in audit
                                /\ confs[calls[r.call].token].consumed
                        /\ keys[k].terminal # None =>
                             /\ keys[k].receipt = None
                             /\ Cardinality({t \in Targets : wire[keys[k].terminal][t] # "none"}) <= 1
      BY DEF ReceiptTrue
    <2>1. ProgressTrue(k) /\ FinalTrue(k) /\ TerminalTrue(k)
      BY <1>1 DEF BulkInv, RowInv
    <2>2. ASSUME keys[k].terminal # None
          PROVE  Cardinality({t \in Targets : wire[keys[k].terminal][t] # "none"}) <= 1
      <3> DEFINE Sent == {t \in Targets : wire[keys[k].terminal][t] # "none"}
      <3>1. \A t, u \in Sent : t = u
        BY <2>1, <2>2 DEF TerminalTrue
      <3>2. CASE Sent = {}
        BY <3>2, FS_EmptySet
      <3>3. CASE Sent # {}
        <4>1. PICK t : Sent = {t}
          BY <3>1, <3>3
        <4> QED BY <4>1, FS_Singleton
      <3> QED BY <3>2, <3>3
    <2> QED BY <2>1, <2>2 DEF ProgressTrue, FinalTrue, TerminalTrue
  <1> QED BY <1>1, Reachable, PTL

\* B-OPS-08: each target's outcome is saved before the next PATCH is sent.
THEOREM Durable == Spec => []DurableBeforeNext
  <1>1. BulkInv => DurableBeforeNext
    BY DEF BulkInv, SavedInv, Saved, Went, DurableBeforeNext
  <1> QED BY <1>1, Reachable, PTL

\* A stored outcome is never replaced while its row lives.
THEOREM OutcomesFinal == Spec => OutcomeFinal
  <1> DEFINE Kept == \A k \in Plans :
               keys[k].receipt # None \/ keys[k].terminal # None =>
                 \/ keys'[k] = NoKey
                 \/ keys'[k].receipt = keys[k].receipt /\ keys'[k].terminal = keys[k].terminal
  <1>1. ASSUME BulkInv, [Next]_vars PROVE Kept
    <2>0. TypeOK /\ TypeOK'
      BY <1>1, StepType DEF BulkInv
    <2>1. UNCHANGED keys => Kept
      OBVIOUS
    <2>2. ASSUME NEW c \in Calls, WalkStep(c) PROVE Kept
      <3>1. PICK R \in Results : WalkMoves(c, R)
        BY <2>0, <2>2, WalkShape
      <3>2. keys[calls[c].key].receipt = None /\ keys[calls[c].key].terminal = None
        BY <1>1, <3>1 DEF WalkMoves, BulkInv, HoldInv, Held, Went
      <3> QED BY <3>1, <3>2 DEF WalkMoves
    <2>3. ASSUME NEW c \in Calls, NEW done \in 0..4, Claim(c, done) PROVE Kept
      <3>1. \/ UNCHANGED keys
            \/ Markable(keys[calls[c].key]) /\ \A k \in Plans : k # calls[c].key => keys'[k] = keys[k]
        BY <2>0, <2>3 DEF Claim, TypeOK
      <3> QED BY <2>1, <3>1 DEF Markable
    <2>4. ASSUME NEW p \in Plans, NEW patch \in Patches, NEW a \in Actors, NEW done \in 1..4, PlanBulk(p, patch, a, done)
          PROVE  Kept
      <3>1. keys[p] = NoKey
        BY <1>1, <2>4 DEF PlanBulk, BulkInv, TableInv, TableRow
      <3>2. \A k \in Plans : k # p => keys'[k] = keys[k]
        BY <2>0, <2>4 DEF PlanBulk, TypeOK
      <3> QED BY <3>1, <3>2, Empty
    <2>5. ASSUME NEW c \in Calls, NEW p \in Plans, NEW tok \in Plans, NEW q \in Plans, NEW a \in Actors,
                 NEW allowed \in BOOLEAN, Apply(c, p, tok, q, a, allowed)
          PROVE  Kept
      <3>1. \A k \in Plans : keys'[k] = keys[k] \/ keys'[k] = NoKey
        BY <2>0, <2>5 DEF Apply, LookupIdempotency, TypeOK
      <3> QED BY <3>1
    <2>6. QuietStep => UNCHANGED keys
      BY <2>0, QuietShape
    <2> QED BY <1>1, <2>1, <2>2, <2>3, <2>4, <2>5, <2>6 DEF Next, QuietStep, WalkStep
  <1> QED BY <1>1, Reachable, PTL DEF Spec, OutcomeFinal
=============================================================================
