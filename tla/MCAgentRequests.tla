--------------------------- MODULE MCAgentRequests ---------------------------
(* Small instances of AgentRequests for TLC.                               *)
EXTENDS AgentRequests, TLC

Body(c, n, m, o, d) == [conv |-> c, turns |-> n, mode |-> m, model |-> o, dir |-> d]

\* Two bodies that resume one conversation and disagree on every shared field,
\* and one without a conversation id that relies on the defaults and names an
\* unknown model.
CONSTANTS c1, m1, dDefault, dOther
ThreeBodies ==
    {Body(c1, 5, "bypassPermissions", m1, dOther),
     Body(c1, 0, "acceptEdits", NoModel, dDefault),
     Body(NoConv, 0, "default", UnknownModel, dDefault)}
TwoBodies ==
    {Body(c1, 5, "bypassPermissions", m1, dOther),
     Body(NoConv, 0, "default", UnknownModel, dDefault)}

ModesDef == {"default", "acceptEdits", "bypassPermissions"}
Symmetry == Permutations(Requests)
=============================================================================
