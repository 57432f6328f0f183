----------------------------- MODULE SendStates -----------------------------
(***************************************************************************)
(* The forward-only send-state machine of the hmz-send-state sidecar       *)
(* (infrastructure/send-state/state-store.mjs): the states a durable send  *)
(* record can hold and the transitions between them.  Everything here is   *)
(* constant; SendOwnership and SendState share it.                         *)
(***************************************************************************)

\* No state file exists for the key.
NoRecord == "NONE"

SendStateNames ==
    { "READY", "LOCKED", "DRY_RUN_OK", "SUBMITTING", "SENT", "SEND_UNCERTAIN",
      "SENT_RECONCILED", "HUMAN_REVIEW_ZERO_MATCHES",
      "HUMAN_REVIEW_MULTIPLE_MATCHES", "PERMANENT_FAILURE",
      "AUTH_OR_PLAN_FAILURE", "INVALID_REPLY_TARGET", "RETRY_EXHAUSTED",
      "BLOCKED" }

\* The transition graph as a set of edges.
Transitions ==
    ({"READY"} \X {"LOCKED"})
    \cup ({"LOCKED"} \X {"DRY_RUN_OK", "SUBMITTING", "BLOCKED"})
    \cup ({"SUBMITTING"} \X
            { "SENT", "SEND_UNCERTAIN", "PERMANENT_FAILURE",
              "AUTH_OR_PLAN_FAILURE", "INVALID_REPLY_TARGET",
              "RETRY_EXHAUSTED", "BLOCKED" })
    \cup ({"SENT"} \X {"SENT_RECONCILED"})
    \cup ({"SEND_UNCERTAIN"} \X
            { "SENT_RECONCILED", "HUMAN_REVIEW_ZERO_MATCHES",
              "HUMAN_REVIEW_MULTIPLE_MATCHES" })

CanTransition(from, to) == <<from, to>> \in Transitions

\* A recorded state with no way out.  NoRecord is not one: there is nothing
\* to ask isTerminal about.
IsTerminal(state) ==
    /\ state \in SendStateNames
    /\ \A to \in SendStateNames : ~ CanTransition(state, to)

Recorded == SendStateNames \cup {NoRecord}

Unfinished(state) == state \in SendStateNames /\ ~ IsTerminal(state)
=============================================================================
