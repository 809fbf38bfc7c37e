--------------------------- MODULE ActionContract ---------------------------
(***************************************************************************)
(* What the Financial Radar agent promises its customers about an action:  *)
(* the draft that is applied is the draft that was proposed, a draft whose *)
(* tool needs confirmation is applied only after the customer said yes,    *)
(* nothing is applied twice, and an action is reported as a success only   *)
(* when its effect exists.  How many threads, databases, retries, timeouts *)
(* and crashes stand between those promises and the customer is left to    *)
(* the modules that implement this one.                                    *)
(***************************************************************************)
EXTENDS Naturals

CONSTANTS
    Actions,    \* identifiers of actions, which are also idempotency keys
    Options,    \* what an action does: a tool together with its arguments
    Exempt,     \* the options the policy lets run without confirmation
    NoOption    \* an action that has not been proposed yet

VARIABLES
    draft,      \* [Actions -> Options \cup {NoOption}]
    consent,    \* the actions the customer confirmed
    applied,    \* [Actions -> Nat], how often the effect took place
    succeeded   \* the actions reported as a success

vars == <<draft, consent, applied, succeeded>>

Init ==
    /\ draft = [a \in Actions |-> NoOption]
    /\ consent = {}
    /\ applied = [a \in Actions |-> 0]
    /\ succeeded = {}

Propose(a, o) ==
    /\ draft[a] = NoOption
    /\ draft' = [draft EXCEPT ![a] = o]
    /\ UNCHANGED <<consent, applied, succeeded>>

Consent(a) ==
    /\ draft[a] # NoOption
    /\ consent' = consent \cup {a}
    /\ UNCHANGED <<draft, applied, succeeded>>

Apply(a) ==
    /\ draft[a] # NoOption
    /\ draft[a] \in Exempt \/ a \in consent
    /\ applied[a] = 0
    /\ applied' = [applied EXCEPT ![a] = 1]
    /\ UNCHANGED <<draft, consent, succeeded>>

ReportSuccess(a) ==
    /\ applied[a] = 1
    /\ succeeded' = succeeded \cup {a}
    /\ UNCHANGED <<draft, consent, applied>>

\* A later failed or declined request may overwrite the report of a success.
Withdraw(a) ==
    /\ succeeded' = succeeded \ {a}
    /\ UNCHANGED <<draft, consent, applied>>

Next ==
    \E a \in Actions :
        \/ \E o \in Options : Propose(a, o)
        \/ Consent(a)
        \/ Apply(a)
        \/ ReportSuccess(a)
        \/ Withdraw(a)

Spec == Init /\ [][Next]_vars
=============================================================================
