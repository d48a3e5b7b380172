----------------------------- MODULE MCBlUpdate -----------------------------
(* The three partitions of the dependency chain and one outside of it.     *)
EXTENDS BlUpdate

Entry(p) == [part |-> p, fits |-> TRUE]
Payload(version, entries, ratchet) ==
    [kind |-> "update", version |-> version, entries |-> entries, ratchet |-> ratchet]
Other(kind) == [kind |-> kind, version |-> 9, entries |-> <<Entry("mb1")>>, ratchet |-> FALSE]

MCPayloads ==
    {Payload(1, <<Entry("mb1"), Entry("BCT"), Entry("mb2")>>, FALSE),
     Payload(2, <<Entry("BCT"), [part |-> "mb2", fits |-> FALSE], Entry("mb2"), Entry("tos")>>, TRUE),
     Payload(3, <<Entry("tos"), [part |-> "mb1", fits |-> FALSE]>>, FALSE),
     Payload(4, <<>>, FALSE),
     Other("invalid"), Other("other"), Other("short")}
=============================================================================
