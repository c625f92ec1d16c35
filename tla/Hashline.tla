-------------------------------- MODULE Hashline --------------------------------
(***************************************************************************)
(* Hash-anchored editing: services/orchestrator/hashline.py, used through  *)
(* read_text_file(hashline=True) and edit_file_hashline of the MCP server. *)
(*                                                                         *)
(* The model reads a file with an anchor per line and sends a script of    *)
(* edits against what it read.  By then the file may have changed.  A file *)
(* is a sequence of lines that all end with a newline; Hash stands for the *)
(* first four hex digits of the MD5.                                       *)
(***************************************************************************)
EXTENDS Integers, Sequences, FiniteSets, SequencesExt

CONSTANTS
    Texts,       \* texts of lines
    Hash,        \* [Texts -> hashes]
    Files,       \* contents the file can have
    Contents,    \* what an edit inserts
    MaxEdits,    \* bound: edits in a script
    MaxChanges   \* bound: changes made by others

ASSUME HashAssumption ==
    DOMAIN Hash = Texts /\ Files \subseteq Seq(Texts) /\ Contents \subseteq Seq(Texts)
ASSUME BoundsAssumption == MaxEdits \in Nat /\ MaxChanges \in Nat

Ops == {"replace", "delete", "insert_after", "insert_before"}

VARIABLES
    file,      \* the file on disk
    seen,      \* the lines the model was shown, by the number shown with them
    script,    \* the edits it sent
    original,  \* what edit_file_hashline read
    status,    \* "idle", "shown", "sent", "editing", "applied" or "refused"
    changes    \* changes made by others

vars == <<file, seen, script, original, status, changes>>

Init ==
    /\ file \in Files
    /\ seen = <<>> /\ script = <<>> /\ original = <<>>
    /\ status = "idle" /\ changes = 0

-----------------------------------------------------------------------------
(* apply_hashline_edits.                                                   *)

\* Phase 1: every anchor names a line that is there and has the right hash.
ValidFirst(lines, edits) ==   \* mutant: only the first edit is validated
    edits # <<>> =>
        /\ edits[1].end <= Len(lines)
        /\ Hash[lines[edits[1].start]] = edits[1].startHash
        /\ Hash[lines[edits[1].end]] = edits[1].endHash

Valid(lines, edits) ==
    \A i \in DOMAIN edits :
        LET e == edits[i]
        IN  /\ e.start \in 1..Len(lines) /\ Hash[lines[e.start]] = e.startHash
            /\ e.end \in e.start..Len(lines) /\ Hash[lines[e.end]] = e.endHash

\* lines[s:e] = new
Splice(lines, s, e, new) ==
    LET n == Len(lines)
    IN  SubSeq(lines, 1, IF s < n THEN s ELSE n) \o new \o SubSeq(lines, e + 1, n)

ApplyOneNested(lines, e) ==   \* mutant: list.insert instead of a slice assignment
    CASE e.op = "replace" -> Splice(lines, e.start - 1, e.end, e.content)
      [] e.op = "delete" -> Splice(lines, e.start - 1, e.end, <<>>)
      [] e.op = "insert_after" -> Splice(lines, e.start, e.start, <<e.content>>)
      [] e.op = "insert_before" -> Splice(lines, e.start - 1, e.start - 1, <<e.content>>)

ApplyOne(lines, e) ==
    CASE e.op = "replace" -> Splice(lines, e.start - 1, e.end, e.content)
      [] e.op = "delete" -> Splice(lines, e.start - 1, e.end, <<>>)
      [] e.op = "insert_after" -> Splice(lines, e.start, e.start, e.content)
      [] e.op = "insert_before" -> Splice(lines, e.start - 1, e.start - 1, e.content)

BeforeAscending(edits, i, j) ==   \* mutant: reverse=True is forgotten
    edits[i].start < edits[j].start \/ (edits[i].start = edits[j].start /\ i < j)

\* Phase 2: by start line, last line first; a stable sort.
Before(edits, i, j) ==
    edits[i].start > edits[j].start \/ (edits[i].start = edits[j].start /\ i < j)

FinalOf(edits, S) == CHOOSE i \in S : \A j \in S \ {i} : Before(edits, j, i)

\* The lines after the first rounds of the loop, those for the edits of S.
AfterRounds(lines, edits) ==
    LET after[S \in SUBSET DOMAIN edits] ==
            IF S = {} THEN lines
            ELSE LET i == FinalOf(edits, S) IN ApplyOne(after[S \ {i}], edits[i])
    IN  after

ApplyAll(lines, edits) == AfterRounds(lines, edits)[DOMAIN edits]

-----------------------------------------------------------------------------
\* The whole file, its head or its tail: what is listed is numbered from 1.
Listings(lines) ==
    {SubSeq(lines, 1, n) : n \in 0..Len(lines)}
        \cup {SubSeq(lines, n, Len(lines)) : n \in 1..Len(lines)}

\* read_text_file(hashline=True)
Read ==
    /\ status = "idle"
    /\ seen' \in Listings(file)
    /\ status' = "shown"
    /\ UNCHANGED <<file, script, original, changes>>

\* Anchors copied from the listing: a range for = and -, one line for + and <.
EditsOf(lines) ==
    {[op |-> op, start |-> s, end |-> e, startHash |-> Hash[lines[s]],
      endHash |-> Hash[lines[e]], content |-> c] :
        op \in Ops, s \in DOMAIN lines, e \in DOMAIN lines, c \in Contents \cup {<<>>}}

WellFormed(e) ==
    /\ e.start <= e.end
    /\ e.op \in {"insert_after", "insert_before"} => e.start = e.end
    /\ e.op = "delete" <=> e.content = <<>>

Send ==
    /\ status = "shown"
    /\ Len(script) < MaxEdits
    /\ \E e \in EditsOf(seen) :
          /\ WellFormed(e)
          /\ \A i \in DOMAIN script : e.content # <<>> => script[i].content # e.content
          /\ script' = Append(script, e)
    /\ status' \in {"shown", "sent"}
    /\ UNCHANGED <<file, seen, original, changes>>

\* Another tool call, an abandoned thread or the user changes the file.
Change ==
    /\ status \in {"shown", "sent", "editing"}
    /\ changes < MaxChanges
    /\ file' \in Files
    /\ changes' = changes + 1
    /\ UNCHANGED <<seen, script, original, status>>

\* edit_file_hashline reads the file and validates the script.
Load ==
    /\ status = "sent"
    /\ original' = file
    /\ status' = IF Valid(file, script) THEN "editing" ELSE "refused"
    /\ UNCHANGED <<file, seen, script, changes>>

\* The new content is written beside the file and moved over it.
Commit ==
    /\ status = "editing"
    /\ file' = ApplyAll(original, script)
    /\ status' = "applied"
    /\ UNCHANGED <<seen, script, original, changes>>

Next == Read \/ Send \/ Change \/ Load \/ Commit

Spec == Init /\ [][Next]_vars

-----------------------------------------------------------------------------
(* Properties.                                                             *)

\* What a script of edits of disjoint ranges means, line by line.
Covering(i) == {e \in ToSet(script) : i \in e.start..e.end}
Expand(i) ==
    IF Covering(i) = {} THEN <<original[i]>>
    ELSE LET e == CHOOSE x \in Covering(i) : TRUE
         IN CASE e.op = "replace" -> IF i = e.start THEN e.content ELSE <<>>
              [] e.op = "delete" -> <<>>
              [] e.op = "insert_after" -> <<original[i]>> \o e.content
              [] e.op = "insert_before" -> e.content \o <<original[i]>>

Rest[i \in 1..Len(original) + 1] ==
    IF i = Len(original) + 1 THEN <<>> ELSE Expand(i) \o Rest[i + 1]
Meaning == Rest[1]

Disjoint ==
    \A i, j \in DOMAIN script :
        i # j => script[i].end < script[j].start \/ script[j].end < script[i].start

TypeOK ==
    /\ file \in Seq(Texts) /\ seen \in Seq(Texts) /\ original \in Seq(Texts)
    /\ \A i \in DOMAIN script : script[i].op \in Ops
    /\ status \in {"idle", "shown", "sent", "editing", "applied", "refused"}
    /\ changes \in 0..MaxChanges

\* Edits of disjoint ranges are applied to the lines they name, whatever the
\* order of the script and however much each of them shifts the lines: no
\* anchor of the original is misread after an earlier splice.
DisjointEditsApply == (status = "applied" /\ Disjoint) => file = Meaning

\* A script is applied only to a file that still has, at every anchor of every
\* edit, a line of the text the model was shown with that number (Hash being
\* injective): one stale anchor anywhere refuses the whole script.
TargetsAsSeen ==
    status \in {"editing", "applied"} =>
        \A i \in DOMAIN script :
            /\ script[i].end <= Len(original)
            /\ original[script[i].start] = seen[script[i].start]
            /\ original[script[i].end] = seen[script[i].end]

\* "content annotated with line-hash anchors [...] suitable for use with
\* edit_file_hashline" (mcp/main.py:429-430): as long as nobody changes the file,
\* a script with anchors from a listing is not refused.
ListingIsSuitable == changes = 0 => status # "refused"

\* "either every edit applies or none does": an insertion that lies between two
\* lines which no other edit removes together is in the file afterwards.
Gap(e) == IF e.op = "insert_after" THEN e.start ELSE e.start - 1
EveryInsertionApplies ==
    status = "applied" =>
        \A i \in DOMAIN script :
            (/\ script[i].op \in {"insert_after", "insert_before"}
             /\ \A j \in DOMAIN script : Gap(script[i]) \notin script[j].start..script[j].end - 1)
                => ToSet(script[i].content) \subseteq ToSet(file)
=============================================================================
