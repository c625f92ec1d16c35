----------------------------- MODULE MCLlamaServer -----------------------------
EXTENDS LlamaServer
CONSTANTS a, b, c

Job(kind, s, kids, tokens) ==
    [kind |-> kind, slot |-> s, kids |-> kids, tokens |-> tokens, stream |-> tokens > 1]
Work(s, kids) == Job("work", s, kids, 1)
Stream(tokens) == Job("work", AnySlot, 0, tokens)
SlotAction(s) == Job("slot", s, 0, 1)
Info == Job("info", AnySlot, 0, 1)

Two(x, y) == [r \in {a, b} |-> IF r = a THEN x ELSE y]
Three(x, y, z) == [r \in {a, b, c} |-> IF r = a THEN x ELSE IF r = b THEN y ELSE z]

\* A completion beside one with two choices; three calls that want the same
\* slot, two of them actions that do not keep it; two that share a batch;
\* metrics.
SomeMixes == {
    Two(Work(AnySlot, 0), Work(AnySlot, 1)),
    Three(Work(1, 0), SlotAction(1), SlotAction(1)),
    Two(Stream(2), Work(2, 0)),
    Two(Info, Work(AnySlot, 0))}
=============================================================================
