----------------------------- MODULE Conversations -----------------------------
(***************************************************************************)
(* The two stores of a conversation and the two ways to fork it.           *)
(*                                                                         *)
(* database.py keeps the conversations and turns tables; session_tree.py   *)
(* appends a user and an assistant entry per turn to a JSONL file, each    *)
(* with a pointer to its parent.  The server writes both for every turn    *)
(* and can crash in between; a write can fail, or stop in the middle of a  *)
(* line.  POST /conversations/{id}/fork copies the rows, the /fork command *)
(* of the CLI, a process of its own, copies the entries.                   *)
(***************************************************************************)
EXTENDS ChatHistory, FiniteSets, SequencesExt

CONSTANTS
    Convs,       \* conversation ids
    NoConv,      \* the server, or the CLI, is idle
    MaxEntries,  \* bound: session tree entries
    MaxTurns,    \* bound: recorded turns
    MaxTears     \* bound: writes that stop in the middle of a line

ASSUME ConvsAssumption == NoConv \notin Convs
ASSUME BoundsAssumption == MaxEntries \in Nat /\ MaxTurns \in Nat /\ MaxTears \in Nat

VARIABLES
    known,    \* rows of conversations
    rows,     \* turns of each conversation in the order of their ids
    last,     \* id of the latest turn
    file,     \* lines of each session's JSONL file
    entries,  \* parent of each entry that was created, 0 for a root
    server,   \* the turn the server is writing to the session tree
    copying,  \* the fork the CLI is writing
    returned, \* entries whose append() returned, per session
    forks,    \* rows a fork started from: source and number
    offered,  \* forks the CLI told its user to resume
    tears     \* torn writes so far

dbVars == <<known, rows, last, forks>>
treeVars == <<file, returned, tears>>
vars == <<known, rows, last, file, entries, server, copying, returned, forks, offered, tears>>

Idle == [conv |-> NoConv, user |-> 0]
NoCopy == [conv |-> NoConv, todo |-> <<>>]

Init ==
    /\ known = {} /\ last = 0
    /\ rows = [c \in Convs |-> <<>>]
    /\ file = [c \in Convs |-> <<>>]
    /\ entries = <<>>
    /\ server = Idle /\ copying = NoCopy
    /\ returned = [c \in Convs |-> <<>>]
    /\ forks = [c \in Convs |-> [from |-> c, n |-> 0]]
    /\ offered = {} /\ tears = 0

-----------------------------------------------------------------------------
(* The session tree.  A line holds an entry, or 0 when it does not parse;  *)
(* nl says whether it ends with a newline.                                 *)

\* What is written after an unfinished line becomes part of it.
AddLine(lines, entry, nl) ==
    IF lines # <<>> /\ ~Last(lines).nl
    THEN Append(Front(lines), [entry |-> 0, nl |-> nl])
    ELSE Append(lines, [entry |-> entry, nl |-> nl])

LoadUntilBad(c) ==   \* mutant: loading ends at the first line that does not parse
    LET bad == {i \in DOMAIN file[c] : file[c][i].entry = 0}
        n == Min(bad \cup {Len(file[c]) + 1}) - 1
    IN [i \in 1..n |-> file[c][i].entry]

\* _load: the entries of the lines that parse.
Parsed(lines) ==
    LET upTo[n \in 0..Len(lines)] ==
            IF n = 0 THEN <<>>
            ELSE IF lines[n].entry = 0 THEN upTo[n - 1]
            ELSE Append(upTo[n - 1], lines[n].entry)
    IN upTo[Len(lines)]

Load(c) == Parsed(file[c])

Leaves(loaded) == {e \in ToSet(loaded) : \A x \in ToSet(loaded) : entries[x] # e}

FirstEntry(loaded) == IF loaded = <<>> THEN 0 ELSE Head(loaded)   \* mutant: the root, not the leaf

\* leaf_ids()[-1]: the last one in the order of the file.
LastLeaf(loaded) ==
    LET leaves == {i \in DOMAIN loaded : loaded[i] \in Leaves(loaded)}
    IN IF leaves = {} THEN 0 ELSE loaded[Max(leaves)]

\* path_to_leaf: entries from the root, or from the first one whose parent is
\* lost, down to the leaf.
Path(loaded, leaf) ==
    LET path[e \in 0..Len(entries)] ==
            IF e \notin ToSet(loaded) THEN <<>> ELSE Append(path[entries[e]], e)
    IN path[leaf]

\* append() returns, raises before it wrote, or stops within the line.
Write(c, e, ok) ==
    \/ /\ ok
       /\ file' = [file EXCEPT ![c] = AddLine(@, e, TRUE)]
       /\ returned' = [returned EXCEPT ![c] = Append(@, e)]
       /\ UNCHANGED tears
    \/ /\ ~ok
       /\ UNCHANGED treeVars
    \/ /\ ~ok
       /\ tears < MaxTears
       /\ tears' = tears + 1
       /\ \E torn \in {0, e} : file' = [file EXCEPT ![c] = AddLine(@, torn, FALSE)]
       /\ UNCHANGED returned

-----------------------------------------------------------------------------
(* The server.                                                             *)

\* ensure_conversation of a request that then fails.
EnsureConversation(c) ==
    /\ server = Idle
    /\ known' = known \cup {c}
    /\ UNCHANGED <<rows, last, forks, treeVars, entries, server, copying, offered>>

\* record_turn: one transaction.
RecordTurn(c) ==
    /\ server = Idle
    /\ last < MaxTurns
    /\ c # copying.conv
    /\ known' = known \cup {c}
    /\ last' = last + 1
    /\ rows' = [rows EXCEPT ![c] = Append(@, last + 1)]
    /\ server' = [conv |-> c, user |-> 0]
    /\ UNCHANGED <<forks, treeVars, entries, copying, offered>>

\* The tree is loaded and the user's entry goes below its latest leaf.
AppendUser ==
    /\ server.conv # NoConv /\ server.user = 0
    /\ Len(entries) < MaxEntries
    /\ LET e == Len(entries) + 1
       IN  /\ entries' = Append(entries, LastLeaf(Load(server.conv)))
           /\ \E ok \in BOOLEAN :
                 /\ Write(server.conv, e, ok)
                 /\ server' = IF ok THEN [server EXCEPT !.user = e] ELSE Idle
    /\ UNCHANGED <<dbVars, copying, offered>>

AppendAssistantBelowItself ==   \* mutant: the new entry is its own parent
    /\ server.user # 0
    /\ Len(entries) < MaxEntries
    /\ entries' = Append(entries, Len(entries) + 1)
    /\ Write(server.conv, Len(entries) + 1, TRUE)
    /\ server' = Idle
    /\ UNCHANGED <<dbVars, copying, offered>>

\* The assistant's entry goes below the user's.
AppendAssistant ==
    /\ server.user # 0
    /\ Len(entries) < MaxEntries
    /\ entries' = Append(entries, server.user)
    /\ \E ok \in BOOLEAN : Write(server.conv, Len(entries) + 1, ok)
    /\ server' = Idle
    /\ UNCHANGED <<dbVars, copying, offered>>

\* The server stops between two writes and is started again.
Crash ==
    /\ server # Idle
    /\ server' = Idle
    /\ UNCHANGED <<dbVars, treeVars, entries, copying, offered>>

ForkTableOnly(s, t) ==   \* mutant: the turns are copied in a second transaction that was lost
    /\ s \in known /\ t \notin known
    /\ known' = known \cup {t}
    /\ forks' = [forks EXCEPT ![t] = [from |-> s, n |-> Len(rows[s])]]
    /\ UNCHANGED <<rows, last, treeVars, entries, server, copying, offered>>

\* fork_conversation: one transaction; an unknown source or an id that is taken
\* fails and changes nothing.
ForkRows(s, t) ==
    /\ s \in known /\ t \notin known
    /\ known' = known \cup {t}
    /\ rows' = [rows EXCEPT ![t] = rows[s]]
    /\ forks' = [forks EXCEPT ![t] = [from |-> s, n |-> Len(rows[s])]]
    /\ UNCHANGED <<last, treeVars, entries, server, copying, offered>>

-----------------------------------------------------------------------------
(* The CLI.                                                                *)

\* /fork loads the tree, takes the newest leaf and a new session id.
StartCopy(s, t) ==
    /\ copying = NoCopy
    /\ t \notin known /\ file[t] = <<>> /\ t \notin offered
    /\ LET loaded == Load(s)
           newest == CHOOSE e \in Leaves(loaded) : \A x \in Leaves(loaded) : x <= e
       IN  /\ loaded # <<>>
           /\ copying' = [conv |-> t, todo |-> Path(loaded, newest)]
    /\ UNCHANGED <<dbVars, treeVars, entries, server, offered>>

\* One entry is copied; an error ends the command.
CopyEntry ==
    /\ copying # NoCopy /\ copying.todo # <<>>
    /\ \E ok \in BOOLEAN :
          /\ Write(copying.conv, Head(copying.todo), ok)
          /\ copying' = IF ok THEN [copying EXCEPT !.todo = Tail(@)] ELSE NoCopy
    /\ UNCHANGED <<dbVars, entries, server, offered>>

\* "Resume with: atri resume ..."
OfferFork ==
    /\ copying # NoCopy /\ copying.todo = <<>>
    /\ offered' = offered \cup {copying.conv}
    /\ copying' = NoCopy
    /\ UNCHANGED <<dbVars, treeVars, entries, server>>

Next ==
    \/ \E c \in Convs : EnsureConversation(c) \/ RecordTurn(c)
    \/ AppendUser \/ AppendAssistant \/ Crash
    \/ \E s, t \in Convs : ForkRows(s, t) \/ StartCopy(s, t)
    \/ CopyEntry \/ OfferFork

Spec == Init /\ [][Next]_vars

-----------------------------------------------------------------------------
(* Properties.                                                             *)

Line == [entry : 0..MaxEntries, nl : BOOLEAN]

TypeOK ==
    /\ known \subseteq Convs
    /\ rows \in [Convs -> Seq(1..MaxTurns)]
    /\ last \in 0..MaxTurns
    /\ file \in [Convs -> Seq(Line)]
    /\ \A e \in DOMAIN entries : entries[e] \in 0..e - 1
    /\ server \in [conv : Convs \cup {NoConv}, user : 0..Len(entries)]
    /\ copying.conv \in Convs \cup {NoConv} /\ copying.todo \in Seq(1..Len(entries))
    /\ returned \in [Convs -> Seq(1..Len(entries))]
    /\ offered \subseteq Convs /\ tears \in 0..MaxTears

\* As long as no write is torn, what a tree shows as the conversation, its path
\* to the latest leaf, is everything that was ever appended, in order: turns
\* that failed half way, crashes and forks never branch or cut it.
PathIsWhole ==
    tears = 0 => \A c \in Convs : Path(Load(c), LastLeaf(Load(c))) = returned[c]

\* A torn write costs, besides the entry it was writing, at most the next one:
\* the unfinished line swallows one append, and all others are loaded in order.
TearCostsOne ==
    /\ Cardinality({p \in Convs \X DOMAIN entries :
                      p[2] \in ToSet(returned[p[1]]) /\ p[2] \notin ToSet(Load(p[1]))}) <= tears
    /\ \A c \in Convs : \A i, j \in DOMAIN Load(c) : i < j => Load(c)[i] < Load(c)[j]

\* A conversation is whole, but for what a torn write cost.
LogIntact == PathIsWhole /\ TearCostsOne

\* A forked conversation starts with the turns its source had at that moment
\* and stays independent of it, however both go on; no turn belongs to an
\* unknown conversation.
ForkIsSnapshot ==
    \A t \in Convs :
        LET f == forks[t]
        IN  /\ IsPrefix(SubSeq(rows[f.from], 1, f.n), rows[t])
            /\ \A i \in f.n + 1..Len(rows[t]) : f.from # t => rows[t][i] \notin ToSet(rows[f.from])
            /\ rows[t] # <<>> => t \in known

\* "Append a new entry to the JSONL log": an entry whose append returned is in
\* the log when it is loaded.
NothingLost == \A c \in Convs : ToSet(returned[c]) \subseteq ToSet(Load(c))

\* "Resume with: atri resume ...": a fork the CLI reports is a conversation the
\* server can resume (resume answers 404 unless the conversations table has it).
ForkResumable == offered \subseteq known

\* "Load a generous recent window and keep the latest max_turns": the history a
\* resumed conversation gets consists of its latest turns.
ResumesLatest == \A c \in Convs : BuildHistory(rows[c]) = LastOf(rows[c])
=============================================================================
