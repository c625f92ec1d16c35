----------------------------- MODULE ToolContract -----------------------------
(***************************************************************************)
(* What the agent loop promises about the tool calls of the model: a call  *)
(* that needs consent has no effect before the user consented to it, a     *)
(* refused call never has one, and no call is applied more than Attempts   *)
(* times.  ToolCalls implements this contract.                             *)
(***************************************************************************)
EXTENDS Naturals

CONSTANTS
    Calls,     \* identities of tool calls
    Attempts   \* execute_tool's max_retries

VARIABLES
    phase,     \* where each call is
    consented, \* calls the user agreed to
    effects    \* how often each call has been applied

contractVars == <<phase, consented, effects>>

Phases == {"new", "asked", "started", "refused"}

Init ==
    /\ phase = [c \in Calls |-> "new"]
    /\ consented = {}
    /\ effects = [c \in Calls |-> 0]

\* The user is asked about a call that needs consent.
Ask(c) ==
    /\ phase[c] = "new"
    /\ phase' = [phase EXCEPT ![c] = "asked"]
    /\ UNCHANGED <<consented, effects>>

\* The user agrees, perhaps when it is too late.
Consent(c) ==
    /\ phase[c] # "new"
    /\ consented' = consented \cup {c}
    /\ UNCHANGED <<phase, effects>>

\* A call starts: at once when it needs no consent, else with consent.
Start(c) ==
    /\ phase[c] = "new" \/ (phase[c] = "asked" /\ c \in consented)
    /\ phase' = [phase EXCEPT ![c] = "started"]
    /\ UNCHANGED <<consented, effects>>

\* The call is rejected, denied, not answered in time or cancelled.
Refuse(c) ==
    /\ phase[c] \in {"new", "asked"}
    /\ phase' = [phase EXCEPT ![c] = "refused"]
    /\ UNCHANGED <<consented, effects>>

Apply(c) ==
    /\ phase[c] = "started"
    /\ effects[c] < Attempts
    /\ effects' = [effects EXCEPT ![c] = @ + 1]
    /\ UNCHANGED <<phase, consented>>

Next == \E c \in Calls : Ask(c) \/ Consent(c) \/ Start(c) \/ Refuse(c) \/ Apply(c)

Contract == Init /\ [][Next]_contractVars
=============================================================================
