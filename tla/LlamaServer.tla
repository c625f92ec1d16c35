------------------------------ MODULE LlamaServer ------------------------------
(***************************************************************************)
(* The model server's scheduler: server_queue, server_response and         *)
(* server_response_reader (tools/server/server-queue.cpp), the main loop's *)
(* process_single_task and update_slots (tools/server/server-context.cpp). *)
(* HTTP threads post tasks and poll for results; one main thread moves     *)
(* tasks from the queue to slots and decodes one batch for all slots.      *)
(*                                                                         *)
(* A request is one HTTP call.  Its tasks are <<r, 0>> and, for n_cmpl > 1, *)
(* the children <<r, 1>>, ..., which travel inside the parent's task.      *)
(* A section under mutex_tasks or mutex_results is one step.  The main     *)
(* thread visits the slots one by one, since the HTTP threads run between  *)
(* the results it sends.  Token counts, batch capacity, prompt similarity  *)
(* and LoRA decide only WHICH outcome a visit has: they are left open.     *)
(***************************************************************************)
EXTENDS Integers, Sequences, FiniteSets, SequencesExt

CONSTANTS
    Requests,   \* HTTP calls, each made once
    NumSlots,   \* --parallel
    Mixes,      \* who calls and with which job: a set of [Callers -> Jobs]
    MaxEmpty,   \* 3: consecutive empty batches tolerated
    MayGiveUp,  \* do clients disconnect?
    MaySleep,   \* --sleep-idle-seconds
    MayStop     \* is the server ever told to terminate?

Slots == 1 .. NumSlots
AnySlot == 0    \* id_slot == -1: whichever slot is available

\* completion, infill, embedding, rerank ("work"), slot save, restore, erase
\* ("slot"), metrics and LoRA ("info"); n_cmpl - 1 children, n_predict tokens.
Jobs == [kind : {"work", "slot", "info"}, slot : Slots \cup {AnySlot},
         kids : 0 .. NumSlots - 1, stream : BOOLEAN, tokens : Nat \ {0}]

ASSUME NumSlotsAssumption == NumSlots \in Nat \ {0}
ASSUME MixesAssumption ==
    \A m \in Mixes : DOMAIN m \subseteq Requests /\ m \in [DOMAIN m -> Jobs]
ASSUME MaxEmptyAssumption == MaxEmpty \in Nat
ASSUME ChoicesAssumption == {MayGiveUp, MaySleep, MayStop} \subseteq BOOLEAN

VARIABLES
    job,        \* what each request asks for
    rd,         \* each HTTP thread: its reader's progress
    got,        \* indices of the tasks whose final result it has received
    queue,      \* queue_tasks
    deferred,   \* queue_tasks_deferred, as requests
    waiting,    \* waiting_task_ids
    results,    \* queue_results
    slot,       \* per slot: state, task, tokens generated
    pc,         \* the main thread
    cur,        \* the entry it has popped
    todo,       \* slots still to be visited in this pass
    batch,      \* slots with tokens in the batch
    empties,    \* n_empty_consecutive
    running, sleeping, wakeup   \* wakeup: req_stop_sleeping

httpVars == <<job, rd, got>>
queueVars == <<queue, deferred>>
resultVars == <<waiting, results>>
mainVars == <<pc, cur, todo, batch, empties>>
powerVars == <<running, sleeping, wakeup>>
vars == <<job, rd, got, queue, deferred, waiting, results, slot, pc, cur, todo,
          batch, empties, running, sleeping, wakeup>>

Callers == DOMAIN job
NoTask == <<>>
Nothing == [kind |-> "none", id |-> NoTask]
Idle == [state |-> "idle", task |-> NoTask, made |-> 0]
TasksOf(r) == {<<r, i>> : i \in 0 .. job[r].kids}
Busy(s) == slot[s].state # "idle"
IdleSlots == {s \in Slots : ~Busy(s)}
Entry(kind, t) == [kind |-> kind, id |-> t]

\* std::remove_if and erase: a sequence without the entries at these positions.
Without(s, positions) ==
    LET kept[i \in 0 .. Len(s)] ==
            IF i = 0 THEN <<>>
            ELSE IF i \in positions THEN kept[i - 1] ELSE Append(kept[i - 1], s[i])
    IN  kept[Len(s)]

Init ==
    /\ job \in Mixes
    /\ rd = [r \in Requests |-> "new"] /\ got = [r \in Requests |-> {}]
    /\ queue = <<>> /\ deferred = <<>>
    /\ waiting = {} /\ results = <<>>
    /\ slot = [s \in Slots |-> Idle]
    /\ pc = "tasks" /\ cur = Nothing /\ todo = {} /\ batch = {} /\ empties = 0
    /\ running = TRUE /\ sleeping = FALSE /\ wakeup = FALSE

-----------------------------------------------------------------------------
(***************************************************************************)
(* HTTP threads; GGML_ABORT ends them with the process.                    *)
(***************************************************************************)
At(r, step) == pc # "aborted" /\ rd[r] = step

\* A handler starts with wait_until_no_sleep, then tokenizes.
Arrive(r) ==
    /\ At(r, "new")
    /\ rd' = [rd EXCEPT ![r] = IF sleeping THEN "knocking" ELSE "tokenizing"]
    /\ wakeup' = (wakeup \/ sleeping)
    /\ UNCHANGED <<job, got, queueVars, resultVars, slot, mainVars, running, sleeping>>

Enter(r) ==
    /\ At(r, "knocking") /\ ~sleeping
    /\ rd' = [rd EXCEPT ![r] = "tokenizing"]
    /\ UNCHANGED <<job, got, queueVars, resultVars, slot, mainVars, powerVars>>

\* post_task(s): wait for the results, then queue the task; metrics go first.
Post(r) ==
    /\ At(r, "tokenizing")
    /\ rd' = [rd EXCEPT ![r] = "open"]
    /\ waiting' = waiting \cup TasksOf(r)
    /\ queue' = IF job[r].kind = "info" THEN <<Entry("task", <<r, 0>>)>> \o queue
                                        ELSE Append(queue, Entry("task", <<r, 0>>))
    /\ UNCHANGED <<job, got, deferred, results, slot, mainVars, powerVars>>

HasNext(r) == At(r, "open") /\ got[r] # 0 .. job[r].kids

StopReadingKeeping(r, left) ==   \* mutant: the results are left behind
    /\ waiting' = waiting \ TasksOf(r)
    /\ results' = left
    /\ rd' = [rd EXCEPT ![r] = "closing"]

\* stop(), first half: nobody waits for the tasks, their results are dropped.
StopReading(r, left) ==
    /\ waiting' = waiting \ TasksOf(r)
    /\ results' = Without(left, {n \in DOMAIN left : left[n].id \in TasksOf(r)})
    /\ rd' = [rd EXCEPT ![r] = "closing"]

\* next(): the first result of this reader's tasks; an error stops the rest.
Receive(r) ==
    /\ HasNext(r)
    /\ \E n \in DOMAIN results :
        /\ results[n].id \in TasksOf(r)
        /\ \A k \in 1 .. n - 1 : results[k].id \notin TasksOf(r)
        /\ LET left == RemoveAt(results, n) IN
           \/ /\ results[n].kind = "error"
              /\ StopReading(r, left)
              /\ UNCHANGED got
           \/ /\ results[n].kind # "error"
              /\ results' = left
              /\ got' = [got EXCEPT ![r] = IF results[n].kind = "final"
                                           THEN @ \cup {results[n].id[2]} ELSE @]
              /\ UNCHANGED <<rd, waiting>>
    /\ UNCHANGED <<job, queueVars, slot, mainVars, powerVars>>

\* The client is gone, seen at a poll or when a chunk cannot be written.
GiveUp(r) ==
    /\ MayGiveUp /\ HasNext(r)
    /\ StopReading(r, results)
    /\ UNCHANGED <<job, got, queueVars, slot, mainVars, powerVars>>

\* Where task <<r, 0>> and its children can be: an entry of the queue, in the
\* main thread's hand, deferred, or in slots.
Entries(r) == {n \in DOMAIN queue : queue[n].kind = "task" /\ queue[n].id[1] = r}
Deferrals(r) == {n \in DOMAIN deferred : deferred[n] = r}
InHand(r) == cur.kind = "task" /\ cur.id[1] = r
SlotsOf(t) == {s \in Slots : slot[s].task = t}

\* stop(), second half: cleanup_pending_task, which drops every target that is
\* not launched, and one CANCEL per task, to the front, in any order.
PostCancels(r) ==
    /\ At(r, "closing")
    /\ rd' = [rd EXCEPT ![r] = "closed"]
    /\ \E order \in SetToSeqs(TasksOf(r)) :
        queue' = [i \in DOMAIN order |-> Entry("cancel", order[i])] \o Without(queue, Entries(r))
    /\ deferred' = Without(deferred, Deferrals(r))
    /\ UNCHANGED <<job, got, resultVars, slot, mainVars, powerVars>>

\* All finals are there: the destructor's stop() only leaves the waiting list.
Finish(r) ==
    /\ At(r, "open") /\ ~HasNext(r)
    /\ rd' = [rd EXCEPT ![r] = "closed"]
    /\ waiting' = waiting \ TasksOf(r)
    /\ UNCHANGED <<job, got, queueVars, results, slot, mainVars, powerVars>>

-----------------------------------------------------------------------------
(***************************************************************************)
(* Steps of the main thread.                                               *)
(***************************************************************************)

\* server_response::send: a result nobody waits for is dropped.
Send(t, kind) ==
    results' = IF t \in waiting THEN Append(results, Entry(kind, t)) ELSE results

\* id_slot, which a slot action leaves at -1.
AsksFor(r, s) == job[r].kind = "work" /\ job[r].slot = s

PopDeferredKeeping(s) ==   \* mutant: the erase is missing
    /\ queue' = (IF deferred = <<>> THEN queue
                 ELSE <<Entry("task", <<Head(deferred), 0>>)>> \o queue)
    /\ UNCHANGED deferred

PopDeferredAsking(s) ==   \* mutant: only tasks that ask for the slot are popped
    \/ (\A n \in DOMAIN deferred : ~AsksFor(deferred[n], s)) /\ UNCHANGED queueVars
    \/ \E n \in DOMAIN deferred :
        /\ AsksFor(deferred[n], s) /\ \A k \in 1 .. n - 1 : ~AsksFor(deferred[k], s)
        /\ queue' = <<Entry("task", <<deferred[n], 0>>)>> \o queue
        /\ deferred' = RemoveAt(deferred, n)

\* pop_deferred_task: one task per released slot, the first that asks for it or,
\* if none does, the first.
Popped(n, s) ==
    IF AsksFor(deferred[n], s) THEN \A k \in 1 .. n - 1 : ~AsksFor(deferred[k], s)
    ELSE n = 1 /\ \A k \in DOMAIN deferred : ~AsksFor(deferred[k], s)
PopDeferred(s) ==
    \/ deferred = <<>> /\ UNCHANGED queueVars
    \/ \E n \in DOMAIN deferred :
        /\ Popped(n, s)
        /\ queue' = <<Entry("task", <<deferred[n], 0>>)>> \o queue
        /\ deferred' = RemoveAt(deferred, n)

\* slot.release()
Release(s) ==
    /\ slot' = [slot EXCEPT ![s] = Idle]
    /\ PopDeferred(s)

\* start_loop: the next entry, or update_slots when there is none.
NextEntry ==
    /\ pc = "tasks"
    /\ \/ ~running /\ pc' = "stopped" /\ UNCHANGED <<queue, cur>>
       \/ running /\ queue = <<>> /\ pc' = "slots" /\ UNCHANGED <<queue, cur>>
       \/ /\ running /\ queue # <<>>
          /\ cur' = Head(queue) /\ queue' = Tail(queue) /\ pc' = "process"
    /\ UNCHANGED <<httpVars, deferred, resultVars, slot, todo, batch, empties, powerVars>>

Processing(kind) == pc = "process" /\ cur.kind = kind
Request == cur.id[1]
Processed == pc' = "tasks" /\ cur' = Nothing

ProcessNext ==
    /\ Processing("next") /\ Processed
    /\ UNCHANGED <<httpVars, queueVars, resultVars, slot, todo, batch, empties, powerVars>>

ProcessCancel ==
    /\ Processing("cancel") /\ Processed
    /\ \/ \E s \in Slots : slot[s].task = cur.id /\ Release(s)
       \/ (\A s \in Slots : slot[s].task # cur.id) /\ UNCHANGED <<slot, queueVars>>
    /\ UNCHANGED <<httpVars, resultVars, todo, batch, empties, powerVars>>

\* The slots a task may start in: the one it asks for or whichever is idle,
\* with as many others idle as it has children.
Candidates(r) == {s \in IdleSlots : job[r].slot \in {AnySlot, s}}
Launchable(r) == IF Cardinality(IdleSlots) > job[r].kids THEN Candidates(r) ELSE {}
MustWait(r) ==
    \/ job[r].kind = "work" /\ Launchable(r) = {}
    \/ job[r].kind = "slot" /\ Busy(job[r].slot)

Defer ==
    /\ Processing("task") /\ MustWait(Request) /\ Processed
    /\ deferred' = Append(deferred, Request)
    /\ UNCHANGED <<httpVars, queue, resultVars, slot, todo, batch, empties, powerVars>>

\* Slot actions and metrics are answered at once; a restore may fail.
Reply ==
    /\ Processing("task") /\ job[Request].kind # "work" /\ ~MustWait(Request) /\ Processed
    /\ \E kind \in {"final", "error"} : Send(cur.id, kind)
    /\ UNCHANGED <<httpVars, queueVars, waiting, slot, todo, batch, empties, powerVars>>

\* get_free_slots: the children take the first idle slots besides the parent's.
ChildSlot(s, i) ==
    CHOOSE c \in IdleSlots \ {s} : Cardinality({d \in IdleSlots \ {s} : d <= c}) = i
Launched(s, kids) ==
    [q \in Slots |->
        IF \E i \in kids : q = ChildSlot(s, i)
        THEN [state |-> "waiting", made |-> 0,
              task |-> <<Request, CHOOSE i \in kids : q = ChildSlot(s, i)>>]
        ELSE slot[q]]

Launch ==
    /\ Processing("task") /\ job[Request].kind = "work" /\ Processed
    /\ \E s \in Launchable(Request) :
        slot' = [Launched(s, 1 .. job[Request].kids) EXCEPT
                    ![s] = [state |-> "started", task |-> cur.id, made |-> 0]]
    /\ empties' = 0
    /\ UNCHANGED <<httpVars, queueVars, resultVars, todo, batch, powerVars>>

\* launch_slot_with_task fails for a child or, last, for the parent: the task
\* is dropped and the slots launched before are released one by one.
LaunchFails ==
    /\ Processing("task") /\ job[Request].kind = "work"
    /\ \E s \in Launchable(Request), i \in 0 .. job[Request].kids :
        LET before == IF i = 0 THEN 1 .. job[Request].kids ELSE 1 .. i - 1 IN
        /\ Send(<<Request, i>>, "error")
        /\ slot' = Launched(s, before)
        /\ todo' = {ChildSlot(s, k) : k \in before}
        /\ empties' = IF before = {} THEN empties ELSE 0
    /\ pc' = (IF todo' = {} THEN "tasks" ELSE "undo") /\ cur' = Nothing
    /\ UNCHANGED <<httpVars, queueVars, waiting, batch, powerVars>>

\* A pass over the slots of todo, in order; the last visit ends it.
Visit(pass, s, next) ==
    /\ pc = pass /\ s \in todo
    /\ todo' = todo \ {s}
    /\ pc' = IF todo' = {} THEN next ELSE pc
First(s) == \A q \in todo : s <= q

Undo(s) ==
    /\ Visit("undo", s, "tasks") /\ First(s)
    /\ Release(s)
    /\ UNCHANGED <<httpVars, resultVars, cur, batch, empties, powerVars>>

\* update_slots, beginning: nothing to do, or NEXT_RESPONSE and a new batch.
UpdateSlots ==
    /\ pc = "slots"
    /\ \/ /\ IdleSlots = Slots
          /\ pc' = "rest"
          /\ UNCHANGED <<queue, todo, batch>>
       \/ /\ IdleSlots # Slots
          /\ queue' = Append(queue, Entry("next", NoTask))
          /\ todo' = {s \in Slots : slot[s].state \in {"started", "processing", "generating"}}
          /\ batch' = {}
          /\ pc' = IF todo' = {} THEN "decode" ELSE "fill"
    /\ UNCHANGED <<httpVars, deferred, resultVars, slot, cur, empties, powerVars>>

\* The slots that generate come first.
Generating(s) == slot[s].state = "generating"
FillsNext(s) ==
    /\ Visit("fill", s, "decode")
    /\ \A q \in todo : \/ Generating(s) /\ ~Generating(q)
                       \/ Generating(s) = Generating(q) /\ s <= q

\* Its tokens join the batch; a prompt may take a second batch.
Join(s) ==
    /\ FillsNext(s)
    /\ batch' = batch \cup {s}
    /\ \E state \in CASE slot[s].state = "started" -> {"processing", "done"}
                      [] slot[s].state = "processing" -> {"done"}
                      [] OTHER -> {"generating"} :
        slot' = [slot EXCEPT ![s].state = state]
    /\ UNCHANGED <<httpVars, queueVars, resultVars, cur, empties, powerVars>>

\* The batch is full, or the slot cannot be batched with those in it.
Skip(s) ==
    /\ FillsNext(s) /\ batch # {}
    /\ UNCHANGED <<httpVars, queueVars, resultVars, slot, cur, batch, empties, powerVars>>

\* An empty prompt is answered, one that is too long is refused; a full context
\* is not shifted when the prompt is shared.
EndEarly(s) ==
    /\ FillsNext(s)
    /\ \E kind \in {"final", "error"} :
        /\ \/ slot[s].state = "started"
           \/ kind = "error" /\ Generating(s) /\ job[slot[s].task[1]].kids > 0
        /\ Send(slot[s].task, kind)
    /\ Release(s)
    /\ UNCHANGED <<httpVars, waiting, cur, batch, empties, powerVars>>

\* Children whose parent's prompt is in this batch start from its state.
Copies == {s \in Slots : /\ slot[s].state = "waiting"
                         /\ \E p \in Slots : /\ slot[p].state = "done"
                                             /\ slot[p].task = <<slot[s].task[1], 0>>}

Decode ==
    /\ pc = "decode" /\ batch # {} /\ empties' = 0
    /\ slot' = [s \in Slots |-> IF s \in Copies THEN [slot[s] EXCEPT !.state = "done"] ELSE slot[s]]
    /\ todo' = {s \in batch : slot[s].state \in {"done", "generating"}} \cup Copies
    /\ pc' = IF todo' = {} THEN "rest" ELSE "sample"
    /\ UNCHANGED <<httpVars, queueVars, resultVars, cur, batch, powerVars>>

\* The batch is empty once too often: GGML_ABORT.
TooManyEmpty == empties + 1 > MaxEmpty
DecodeNothing ==
    /\ pc = "decode" /\ batch = {}
    /\ empties' = empties + 1
    /\ pc' = IF TooManyEmpty THEN "aborted" ELSE "rest"
    /\ UNCHANGED <<httpVars, queueVars, resultVars, slot, cur, todo, batch, powerVars>>

\* llama_decode fails for good: every task that has a slot gets an error.
DecodeFails ==
    /\ pc = "decode" /\ batch # {} /\ empties' = 0
    /\ pc' = "fail" /\ todo' = Slots \ IdleSlots
    /\ UNCHANGED <<httpVars, queueVars, resultVars, slot, cur, batch, powerVars>>

Fail(s) ==
    /\ Visit("fail", s, "rest") /\ First(s)
    /\ Send(slot[s].task, "error")
    /\ Release(s)
    /\ UNCHANGED <<httpVars, waiting, cur, batch, empties, powerVars>>

SampledKeeping(s) ==   \* mutant: the slot is not released
    /\ Send(slot[s].task, "final")
    /\ UNCHANGED <<slot, queueVars>>

\* A token is sampled: the task is finished, or it goes on and a stream gets
\* a chunk.
Sampled(s) ==
    /\ Send(slot[s].task, "final")
    /\ Release(s)
SampleLast(s) ==
    /\ Visit("sample", s, "rest") /\ First(s)
    /\ Sampled(s)
    /\ UNCHANGED <<httpVars, waiting, cur, batch, empties, powerVars>>

SampleMore(s) ==
    /\ Visit("sample", s, "rest") /\ First(s)
    /\ slot[s].made + 1 < job[slot[s].task[1]].tokens
    /\ slot' = [slot EXCEPT ![s].state = "generating", ![s].made = @ + 1]
    /\ \/ job[slot[s].task[1]].stream /\ Send(slot[s].task, "partial")
       \/ ~job[slot[s].task[1]].stream /\ UNCHANGED results
    /\ UNCHANGED <<httpVars, queueVars, waiting, cur, batch, empties, powerVars>>

\* start_loop's wait: for a task, for the end, or for long enough to sleep.
MayLeaveRest == ~running \/ queue # <<>>
LeaveRest ==
    /\ pc = "rest" /\ MayLeaveRest
    /\ pc' = "tasks"
    /\ UNCHANGED <<httpVars, queueVars, resultVars, slot, cur, todo, batch, empties, powerVars>>

Sleep ==
    /\ MaySleep /\ pc = "rest" /\ ~MayLeaveRest
    /\ pc' = "asleep" /\ sleeping' = TRUE /\ wakeup' = FALSE
    /\ UNCHANGED <<httpVars, queueVars, resultVars, slot, cur, todo, batch, empties, running>>

Wake ==
    /\ pc = "asleep" /\ (~running \/ wakeup)
    /\ pc' = "tasks"
    /\ \/ ~running /\ UNCHANGED <<sleeping, wakeup>>
       \/ running /\ sleeping' = FALSE /\ wakeup' = FALSE
    /\ UNCHANGED <<httpVars, queueVars, resultVars, slot, cur, todo, batch, empties, running>>

Terminate ==
    /\ MayStop /\ running /\ pc # "aborted"
    /\ running' = FALSE
    /\ UNCHANGED <<httpVars, queueVars, resultVars, slot, mainVars, sleeping, wakeup>>

MainLoop ==
    \/ NextEntry \/ ProcessNext \/ ProcessCancel \/ Defer \/ Reply \/ Launch \/ LaunchFails
    \/ UpdateSlots \/ Decode \/ DecodeNothing \/ DecodeFails \/ LeaveRest \/ Wake
    \/ \E s \in Slots : \/ Undo(s) \/ Join(s) \/ Skip(s) \/ EndEarly(s)
                        \/ Fail(s) \/ SampleLast(s) \/ SampleMore(s)

Handler(r) == Arrive(r) \/ Enter(r) \/ Post(r) \/ Receive(r) \/ PostCancels(r) \/ Finish(r)

Next ==
    \/ MainLoop \/ Sleep \/ Terminate
    \/ \E r \in Callers : Handler(r) \/ GiveUp(r)

Spec == Init /\ [][Next]_vars

\* The main thread and every HTTP thread run on; nobody has to call, to hang
\* up or to stop the server, and idleness need not last long enough to sleep.
FairSpec ==
    /\ Spec
    /\ WF_vars(MainLoop)
    /\ \A r \in Requests : WF_vars(rd[r] # "new" /\ Handler(r))

-----------------------------------------------------------------------------
(***************************************************************************)
(* Properties.                                                             *)
(***************************************************************************)

Tasks == UNION {TasksOf(r) : r \in Callers}
QueueEntries ==
    {Entry("task", <<r, 0>>) : r \in Callers} \cup {Entry("cancel", t) : t \in Tasks}
        \cup {Entry("next", NoTask)}
SlotStates == {"started", "waiting", "processing", "done", "generating"}

TypeOK ==
    /\ job \in Mixes
    /\ rd \in [Requests -> {"new", "knocking", "tokenizing", "open", "closing", "closed"}]
    /\ got \in [Requests -> SUBSET (0 .. NumSlots - 1)]
    /\ \A r \in Callers : got[r] \subseteq 0 .. job[r].kids
    /\ queue \in Seq(QueueEntries) /\ deferred \in Seq(Callers)
    /\ waiting \subseteq Tasks
    /\ results \in Seq([kind : {"partial", "final", "error"}, id : Tasks])
    /\ slot \in [Slots -> [state : SlotStates, task : Tasks, made : Nat] \cup {Idle}]
    /\ pc \in {"tasks", "process", "undo", "slots", "fill", "decode", "sample", "fail",
               "rest", "asleep", "stopped", "aborted"}
    /\ cur \in QueueEntries \cup {Nothing}
    /\ todo \subseteq Slots /\ batch \subseteq Slots
    /\ empties \in 0 .. MaxEmpty + 1
    /\ {running, sleeping, wakeup} \subseteq BOOLEAN

Unlaunched(r) == Entries(r) # {} \/ Deferrals(r) # {} \/ InHand(r)

\* server-queue.cpp, server-context.cpp: a task is in one place: it is queued
\* once, deferred once, held by the main thread, or in one slot, and a server
\* that sleeps has no slot at work.
OnePlace ==
    /\ TypeOK
    /\ \A r \in Callers :
        /\ Cardinality(Entries(r)) + Cardinality(Deferrals(r)) + (IF InHand(r) THEN 1 ELSE 0) <= 1
        /\ Unlaunched(r) => \A t \in TasksOf(r) : SlotsOf(t) = {}
        /\ \A t \in TasksOf(r) : Cardinality(SlotsOf(t)) <= 1
    /\ sleeping => IdleSlots = Slots

\* server_response: whatever order clients hang up, errors and finals come in,
\* queue_results keeps no result that no reader will ever fetch.
ResultsHaveReaders ==
    \A n \in DOMAIN results : results[n].id \in waiting /\ rd[results[n].id[1]] = "open"

\* wait_for_all: GGML_ASSERT "duplicate result received".  A task has at most
\* one final result or error, and when it has, nothing generates for it any more.
Ends(t) == {n \in DOMAIN results : results[n].id = t /\ results[n].kind # "partial"}
AnsweredOnce ==
    \A r \in Callers : \A t \in TasksOf(r) :
        /\ Cardinality(Ends(t)) <= 1
        /\ t[2] \in got[r] => \A n \in DOMAIN results : results[n].id # t
        /\ (t[2] \in got[r] \/ Ends(t) # {}) => SlotsOf(t) = {} /\ ~Unlaunched(r)

\* What the scheduler loses: a deferred task nobody pops because the popped one
\* was cancelled, refused or kept no slot; a task posted after the server fell
\* asleep.
KeptNoSlot(r) == got[r] # 0 .. job[r].kids \/ job[r].kind # "work"
Stranded(r) ==
    /\ Deferrals(r) # {} /\ queue = <<>> /\ pc \in {"rest", "asleep"}
    /\ \E q \in Callers : rd[q] \in {"closing", "closed"} /\ KeptNoSlot(q)
Overslept(r) == sleeping /\ ~wakeup /\ Unlaunched(r)

\* server_queue::start_loop, pop_deferred_task: a request that is posted ends,
\* whatever waits for a slot before it, unless the server stops or aborts or
\* loses the request in one of these two ways.
Served ==
    \A r \in Requests :
        rd[r] = "open" ~>
            (rd[r] = "closed" \/ Stranded(r) \/ Overslept(r) \/ pc \in {"stopped", "aborted"})

-----------------------------------------------------------------------------
(***************************************************************************)
(* What the sources say of the scheduler and the runs refute.              *)
(***************************************************************************)

\* server-queue.h: "Add a new task, but defer until one slot is available".
NoneLeftDeferred == pc = "rest" /\ queue = <<>> => deferred = <<>>

Cancelling(t) == cur = Entry("cancel", t) \/ \E n \in DOMAIN queue : queue[n] = Entry("cancel", t)

\* server-context.cpp, CANCEL: "release slot linked with the task id"; a slot
\* does not work for a reader that has closed, unless its CANCEL is coming.
NobodyServedAfterCancel ==
    \A s \in Slots : Busy(s) => rd[slot[s].task[1]] # "closed" \/ Cancelling(slot[s].task)

\* launch_slots_with_parent_task: a child's slot waits for a parent that is in
\* its prompt; a parent that ended before has answered, and once its request is
\* closed a CANCEL is on its way to free the slot.
NoOrphans ==
    \A s \in Slots : slot[s].state = "waiting" =>
        LET r == slot[s].task[1] IN
        \/ \E p \in SlotsOf(<<r, 0>>) : slot[p].state \in {"started", "processing", "done"}
        \/ pc = "undo" /\ s \in todo
        \/ Ends(<<r, 0>>) # {} \/ 0 \in got[r]
        \/ rd[r] = "closing" \/ Cancelling(slot[s].task)

\* update_slots: an empty batch is a "fatal error" that never happens.
NeverAborts == pc # "aborted"

\* wait_until_no_sleep: a task is only posted to a server that is awake.
NobodyOversleeps == sleeping /\ ~wakeup => queue = <<>>
=============================================================================
