----------------------------- MODULE MCMcpRegistry -----------------------------
EXTENDS McpRegistry
CONSTANTS a, b, m, read, list, write

\* Two servers in this process that share a tool, and one that has none yet.
ThreeServers == <<a, m, b>>
Listed == (a :> {read, list}) @@ (b :> {read, write})
Introspected == (a :> {read}) @@ (b :> {read})
=============================================================================
