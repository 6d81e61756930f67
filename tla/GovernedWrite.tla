---------------------------- MODULE GovernedWrite ----------------------------
(***************************************************************************)
(* What a governed write promises to its callers, without plans, clocks,   *)
(* reads or reservations: a call is refused before it wrote, is answered   *)
(* from the ledger of receipts, or writes; a write that ServiceNow applied *)
(* is acknowledged once per confirmation and enters the ledger; anything   *)
(* else leaves the caller unsure.  With Exclusive, writes under a key      *)
(* exclude each other and what is in the ledger stays until it expires.    *)
(***************************************************************************)
CONSTANTS Calls, Keys, Tokens, Exclusive, None

VARIABLES call,   \* each call: where it is and, while it writes, under what
          effect, \* each call's write as ServiceNow sees it
          ledger, \* the receipt under each key: the call that wrote, or None
          spent   \* confirmations used

vars == <<call, effect, ledger, spent>>

At(st) == [st |-> st, key |-> None, token |-> None]
Writing(k, t) == [st |-> "writing", key |-> k, token |-> t]

Init ==
  /\ call = [c \in Calls |-> At("waiting")]
  /\ effect = [c \in Calls |-> "none"]
  /\ ledger = [k \in Keys |-> None]
  /\ spent = {}

Refuse(c) ==
  /\ call[c].st = "waiting"
  /\ call' = [call EXCEPT ![c] = At("refused")]
  /\ UNCHANGED <<effect, ledger, spent>>

Replay(c, k) ==
  /\ call[c].st = "waiting"
  /\ ledger[k] # None
  /\ call' = [call EXCEPT ![c] = At("replayed")]
  /\ UNCHANGED <<effect, ledger, spent>>

Send(c, k, t) ==
  /\ call[c].st = "waiting"
  /\ Exclusive => ledger[k] = None /\ \A d \in Calls : call[d].key # k
  /\ call' = [call EXCEPT ![c] = Writing(k, t)]
  /\ effect' = [effect EXCEPT ![c] = "posted"]
  /\ UNCHANGED <<ledger, spent>>

\* ServiceNow serves a write whether or not its caller still waits.
Serve(c, end) ==
  /\ effect[c] = "posted"
  /\ effect' = [effect EXCEPT ![c] = end]
  /\ UNCHANGED <<call, ledger, spent>>

Acknowledge(c) ==
  /\ call[c].st = "writing"
  /\ effect[c] = "applied"
  /\ call[c].token \notin spent
  /\ call' = [call EXCEPT ![c] = At("done")]
  /\ ledger' = [ledger EXCEPT ![call[c].key] = c]
  /\ spent' = spent \cup {call[c].token}
  /\ UNCHANGED effect

\* The caller is told of a failure, or of a confirmation used meanwhile; the
\* write may have been applied and the confirmation spent.
GiveUp(c) ==
  /\ call[c].st = "writing"
  /\ call' = [call EXCEPT ![c] = At("unsure")]
  /\ spent' \in {spent, spent \cup {call[c].token}}
  /\ UNCHANGED <<effect, ledger>>

\* The daemon dies under some calls.
Lose(S) ==
  /\ \A c \in S : call[c].st \in {"waiting", "writing"}
  /\ call' = [c \in Calls |-> IF c \in S THEN At("lost") ELSE call[c]]
  /\ UNCHANGED <<effect, ledger, spent>>

\* Receipts expire.
Forget(K) ==
  /\ ledger' = [k \in Keys |-> IF k \in K THEN None ELSE ledger[k]]
  /\ UNCHANGED <<call, effect, spent>>

Next ==
  \/ \E K \in SUBSET Keys : Forget(K)
  \/ \E c \in Calls, end \in {"applied", "rejected"} : Serve(c, end)
  \/ \E c \in Calls : Refuse(c) \/ GiveUp(c) \/ Acknowledge(c)
  \/ \E S \in SUBSET Calls : Lose(S)
  \/ \E c \in Calls, k \in Keys : Replay(c, k) \/ \E t \in Tokens : Send(c, k, t)

Spec == Init /\ [][Next]_vars
=============================================================================
