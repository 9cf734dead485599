----------------------------- MODULE IoAdapters -----------------------------
(* What stands between the actor, or a run, and a backend: the sharded and    *)
(* the native adapter, and the readiness publisher.                           *)
EXTENDS Naturals, Sequences, FiniteSets, SequencesExt

CONSTANTS
    Bridges, MaxRequests, MaxFaults,
    Batch, MaxSteps,
    MaxReads   \* reads of the pump

VARIABLES
    bridges,       \* bridge |-> routed, request, admitted, native, cancel, route, finalized, generation
    free,          \* the free list
    closed, alive,
    pc, loc,       \* the actor's driver and its bridge
    shard, at,     \* the shard's thread and the bridge it calls back for
    native,        \* bridge |-> what the runtime holds: an operation and a cancel task
    heard,         \* the requests whose cancel reached the runtime
    outcome, issued, faults,
    commands,      \* what the publisher's actor still has to submit or cancel
    posting,       \* a producer published its command and has not woken the owner
    woken,         \* the backend's wake
    backend,       \* the requests it holds: bridge, request, generation
    ready,         \* its completions, to be observed
    batch,         \* what the last observe returned
    polled, steps,
    phase, waker, references, publisher_live, owner_live, cancelled, cleanup_inflight, cleanup_complete,
    registration,  \* "idle", "armed" or "closed"
    closer,        \* what a thread does after its close
    reads, closes, wakes, freed

-----------------------------------------------------------------------------
(* The sharded native adapter (cflow/src/io_native_sharded_adapter.c): the    *)
(* actor's driver submits and cancels through bridges; the owner shard calls  *)
(* back with the admission, the terminal and the finalization of an operation *)
(* and runs the cancel task routed to it.  The sharded runtime is external:   *)
(* it admits or rejects what it accepted, ends what it admitted, and then     *)
(* finalizes it.                                                              *)

sharded_vars == <<bridges, free, closed, alive, pc, loc, shard, at, native, heard, outcome, issued, faults>>

Ids == 1 .. MaxRequests
ShardedFreeBridge == [routed |-> FALSE, request |-> 0, admitted |-> FALSE, native |-> FALSE, cancel |-> FALSE, route |-> FALSE,
               finalized |-> FALSE, generation |-> 1]
Nothing == [io |-> "none", task |-> "none", generation |-> 0]

ShardedInit ==
    /\ bridges = [b \in 1 .. Bridges |-> ShardedFreeBridge] /\ free = [n \in 1 .. Bridges |-> n]
    /\ closed = FALSE /\ alive = TRUE /\ pc = "idle" /\ loc = 0 /\ shard = "idle" /\ at = 0
    /\ native = [b \in 1 .. Bridges |-> Nothing] /\ heard = {}
    /\ outcome = [i \in Ids |-> <<>>] /\ issued = 0 /\ faults = 0

actor == <<pc, loc>>
callback == <<shard, at>>
Fault == faults < MaxFaults /\ faults' = faults + 1

(* sharded_adapter_release_locked and sharded_adapter_maybe_release_locked.   *)
Released(b) == [ShardedFreeBridge EXCEPT !.generation = bridges[b].generation + 1]

(* Mutant: finalization gives the bridge back under a cancel task.            *)
UpdateRouted(b, r) ==
    IF r.finalized
    THEN bridges' = [bridges EXCEPT ![b] = Released(b)] /\ free' = <<b>> \o free
    ELSE bridges' = [bridges EXCEPT ![b] = r] /\ UNCHANGED free
Update(b, r) ==
    IF r.finalized /\ ~r.route
    THEN bridges' = [bridges EXCEPT ![b] = Released(b)] /\ free' = <<b>> \o free
    ELSE bridges' = [bridges EXCEPT ![b] = r] /\ UNCHANGED free
-----------------------------------------------------------------------------
(* sharded_adapter_actor_submit: a bridge is reserved, ...                    *)
Submit ==
    /\ pc = "idle" /\ alive /\ ~closed /\ free # <<>> /\ issued < MaxRequests
    /\ issued' = issued + 1 /\ free' = Tail(free)
    /\ bridges' = [bridges EXCEPT ![Head(free)].routed = TRUE, ![Head(free)].request = issued']
    /\ pc' = "routing" /\ loc' = Head(free)
    /\ UNCHANGED <<closed, alive, callback, native, heard, outcome, faults>>

(* ... and the runtime takes the operation or refuses it.                     *)
Route ==
    /\ pc = "routing" /\ pc' = "idle" /\ loc' = 0
    /\ native' = [native EXCEPT ![loc].io = "queued", ![loc].generation = bridges[loc].generation]
    /\ UNCHANGED <<bridges, free, closed, alive, callback, heard, outcome, issued, faults>>

RouteRefused ==
    /\ pc = "routing" /\ Fault /\ pc' = "idle" /\ loc' = 0
    /\ bridges' = [bridges EXCEPT ![loc] = Released(loc)] /\ free' = <<loc>> \o free
    /\ UNCHANGED <<closed, alive, callback, native, heard, outcome, issued>>

(* sharded_adapter_actor_cancel: noted for the admission, or routed once.     *)
Cancel(b) ==
    /\ pc = "idle" /\ alive /\ bridges[b].routed /\ ~bridges[b].cancel
    /\ LET routes == bridges[b].admitted /\ bridges[b].native /\ ~bridges[b].finalized /\ ~bridges[b].route
       IN  /\ bridges' = [bridges EXCEPT ![b].cancel = TRUE, ![b].route = @ \/ routes]
           /\ pc' = IF routes THEN "cancelling" ELSE "idle"
           /\ loc' = IF routes THEN b ELSE 0
    /\ UNCHANGED <<free, closed, alive, callback, native, heard, outcome, issued, faults>>

CancelRoutes ==
    /\ pc = "cancelling" /\ pc' = "idle" /\ loc' = 0
    /\ native' = [native EXCEPT ![loc].task = "queued"]
    /\ UNCHANGED <<bridges, free, closed, alive, callback, heard, outcome, issued, faults>>

CancelRefused ==
    /\ pc = "cancelling" /\ Fault /\ pc' = "idle" /\ loc' = 0
    /\ Update(loc, [bridges[loc] EXCEPT !.route = FALSE])
    /\ UNCHANGED <<closed, alive, callback, native, heard, outcome, issued>>
-----------------------------------------------------------------------------
Complete(b, kind) == outcome' = [outcome EXCEPT ![bridges[b].request] = Append(@, kind)]
Hears(b) == heard' = heard \cup {bridges[b].request}

(* Mutant: the admission forgets a cancel that came before it.                *)
AdmissionDeaf(b, ok) ==
    /\ shard = "idle" /\ native[b].io = "queued"
    /\ IF ok THEN UNCHANGED faults ELSE Fault
    /\ bridges' = [bridges EXCEPT ![b].admitted = TRUE, ![b].native = ok]
    /\ shard' = IF ~ok THEN "rejected" ELSE "admitted"
    /\ at' = b
    /\ UNCHANGED <<free, closed, alive, actor, native, heard, outcome, issued>>

(* sharded_adapter_admission: under the lock, then outside it the rejection   *)
(* completes, or a cancel that came before is passed on.                      *)
Admission(b, ok) ==
    /\ shard = "idle" /\ native[b].io = "queued"
    /\ IF ok THEN UNCHANGED faults ELSE Fault
    /\ bridges' = [bridges EXCEPT ![b].admitted = TRUE, ![b].native = ok]
    /\ shard' = IF ~ok THEN "rejected" ELSE IF bridges[b].cancel THEN "cancels" ELSE "admitted"
    /\ at' = b
    /\ UNCHANGED <<free, closed, alive, actor, native, heard, outcome, issued>>

AdmissionEnds ==
    /\ shard \in {"rejected", "cancels", "admitted"} /\ shard' = "idle" /\ at' = 0
    /\ native' = [native EXCEPT ![at].io = IF shard = "rejected" THEN "ended" ELSE "running"]
    /\ IF shard = "rejected" THEN Complete(at, "FAILED") ELSE UNCHANGED outcome
    /\ IF shard = "cancels" THEN Hears(at) ELSE UNCHANGED heard
    /\ UNCHANGED <<bridges, free, closed, alive, actor, issued, faults>>

(* sharded_adapter_terminal and, after it, sharded_adapter_finalize.          *)
Terminal(b, kind) ==
    /\ shard = "idle" /\ native[b].io = "running"
    /\ native' = [native EXCEPT ![b].io = "ended"]
    /\ Complete(b, kind)
    /\ UNCHANGED <<bridges, free, closed, alive, actor, callback, heard, issued, faults>>

Finalize(b) ==
    /\ shard = "idle" /\ native[b].io = "ended"
    /\ native' = [native EXCEPT ![b].io = "none"]
    /\ Update(b, [bridges[b] EXCEPT !.finalized = TRUE])
    /\ UNCHANGED <<closed, alive, actor, callback, heard, outcome, issued, faults>>

(* sharded_adapter_cancel_run (or _cancel_task_cancel), then its finalize.    *)
CancelRuns(b, ran) ==
    /\ shard = "idle" /\ native[b].task = "queued"
    /\ IF ran THEN UNCHANGED faults ELSE Fault
    /\ native' = [native EXCEPT ![b].task = "ran"]
    /\ IF ran /\ bridges[b].route /\ bridges[b].native /\ ~bridges[b].finalized THEN Hears(b) ELSE UNCHANGED heard
    /\ UNCHANGED <<bridges, free, closed, alive, actor, callback, outcome, issued>>

CancelFinalizes(b) ==
    /\ shard = "idle" /\ native[b].task = "ran"
    /\ native' = [native EXCEPT ![b].task = "none"]
    /\ Update(b, [bridges[b] EXCEPT !.route = FALSE])
    /\ UNCHANGED <<closed, alive, actor, callback, heard, outcome, issued, faults>>

(* cflow_io_native_sharded_adapter_close and _destroy.                        *)
ShardedClose ==
    /\ alive /\ ~closed /\ closed' = TRUE
    /\ UNCHANGED <<bridges, free, alive, actor, callback, native, heard, outcome, issued, faults>>

Destroy ==
    /\ alive /\ closed /\ Len(free) = Bridges /\ pc = "idle"
    /\ alive' = FALSE
    /\ UNCHANGED <<bridges, free, closed, actor, callback, native, heard, outcome, issued, faults>>

ShardedNext ==
    \/ Submit \/ Route \/ RouteRefused \/ CancelRoutes \/ CancelRefused \/ AdmissionEnds \/ ShardedClose \/ Destroy
    \/ \E b \in 1 .. Bridges : \/ Cancel(b) \/ Finalize(b) \/ CancelFinalizes(b)
                               \/ \E ok \in BOOLEAN : Admission(b, ok) \/ CancelRuns(b, ok)
                               \/ \E kind \in {"OK", "CANCELLED"} : Terminal(b, kind)

ShardedSpec == ShardedInit /\ [][ShardedNext]_sharded_vars
-----------------------------------------------------------------------------
(* A submit the adapter accepted is completed once; a bridge the runtime      *)
(* holds is the one it was given, not the next request's.                     *)
ShardedRequestsExact ==
    /\ \A i \in Ids : Len(outcome[i]) <= 1
    /\ \A b \in 1 .. Bridges : /\ native[b].io # "none" => bridges[b].routed /\ native[b].generation = bridges[b].generation
                               /\ native[b].task # "none" => bridges[b].route /\ native[b].generation = bridges[b].generation
    /\ \A b \in 1 .. Bridges : bridges[b].routed <=> ~\E n \in DOMAIN free : free[n] = b

(* A cancel is never dropped between the admission and the route: until the   *)
(* operation ends it waits for the admission, is routed, was heard, or was    *)
(* refused by the runtime.                                                    *)
ShardedNotStranded ==
    \A b \in 1 .. Bridges : bridges[b].routed /\ bridges[b].cancel /\ native[b].io \in {"queued", "running"} /\ faults = 0
        => ~bridges[b].admitted \/ bridges[b].route \/ bridges[b].request \in heard \/ (shard = "cancels" /\ at = b)

(* The storage goes when the runtime holds no bridge.                         *)
ShardedClosedQuiet == ~alive => shard = "idle" /\ \A b \in 1 .. Bridges : native[b].io = "none" /\ native[b].task = "none"

-----------------------------------------------------------------------------
(* The native adapter and its driving tick (cflow/src/io_native_adapter.c):   *)
(* one owner thread polls the backend, drives the IO publisher's owner, whose *)
(* actor submits and cancels through bridges, and waits in the backend until  *)
(* a completion, a wake or the timeout.  The backend is external.             *)

native_vars == <<bridges, free, commands, posting, woken, backend, ready, batch, pc, polled, steps, closed, outcome, issued, faults>>

NativeFreeBridge == [pending |-> FALSE, request |-> 0, generation |-> 1]

NativeInit ==
    /\ bridges = [b \in 1 .. Bridges |-> NativeFreeBridge] /\ free = [n \in 1 .. Bridges |-> n]
    /\ commands = <<>> /\ posting = FALSE /\ woken = FALSE /\ backend = {} /\ ready = <<>> /\ batch = <<>>
    /\ pc = "idle" /\ polled = FALSE /\ steps = 0 /\ closed = FALSE
    /\ outcome = [i \in Ids |-> <<>>] /\ issued = 0 /\ faults = 0

store == <<bridges, free>>
native_native == <<backend, ready>>

(* A producer gives the publisher's actor a command and wakes the owner       *)
(* (cflow_io_native_adapter_wake).                                            *)
Post(kind) ==
    /\ ~posting /\ ~closed /\ issued < MaxRequests
    /\ issued' = IF kind = "submit" THEN issued + 1 ELSE issued
    /\ kind = "cancel" => issued > 0 /\ ~Contains(commands, <<"cancel", issued>>)
    /\ commands' = Append(commands, <<kind, issued'>>) /\ posting' = TRUE
    /\ UNCHANGED <<store, woken, native_native, batch, pc, polled, steps, closed, outcome, faults>>

Wake ==
    /\ posting /\ posting' = FALSE /\ woken' = TRUE
    /\ UNCHANGED <<store, commands, native_native, batch, pc, polled, steps, closed, outcome, issued, faults>>

Completes(op) ==
    /\ op \in backend /\ backend' = backend \ {op} /\ ready' = Append(ready, op)
    /\ UNCHANGED <<store, commands, posting, woken, batch, pc, polled, steps, closed, outcome, issued, faults>>
-----------------------------------------------------------------------------
Prefix == SubSeq(ready, 1, IF Len(ready) < Batch THEN Len(ready) ELSE Batch)

(* cflow_io_native_adapter_drive_publisher: the poll takes a wake and what is *)
(* ready, ...                                                                 *)
Poll ==
    /\ pc = "idle"
    /\ batch' = Prefix /\ ready' = SubSeq(ready, Len(Prefix) + 1, Len(ready)) /\ polled' = (Prefix # <<>>)
    /\ woken' = FALSE /\ pc' = "deliver" /\ steps' = 0
    /\ UNCHANGED <<store, commands, posting, backend, closed, outcome, issued, faults>>

(* Mutant: a bridge stays pending after its completion.                       *)
ReleaseKept(b) == UNCHANGED <<bridges, free>>
(* native_adapter_release_bridge.                                             *)
NativeRelease(b) ==
    /\ bridges' = [bridges EXCEPT ![b] = [NativeFreeBridge EXCEPT !.generation = bridges[b].generation + 1]]
    /\ free' = <<b>> \o free

(* ... cflow_io_native_adapter_observe completes one after the other, ...     *)
Deliver ==
    /\ pc \in {"deliver", "deliver_last"} /\ batch # <<>>
    /\ batch' = Tail(batch)
    /\ LET op == Head(batch)
       IN  IF bridges[op.bridge].pending /\ op.generation = bridges[op.bridge].generation
           THEN NativeRelease(op.bridge) /\ outcome' = [outcome EXCEPT ![bridges[op.bridge].request] = Append(@, op.request)]
           ELSE UNCHANGED <<store, outcome>>
    /\ UNCHANGED <<commands, posting, woken, native_native, pc, polled, steps, closed, issued, faults>>

Delivered ==
    /\ pc \in {"deliver", "deliver_last"} /\ batch = <<>>
    /\ pc' = IF pc = "deliver" THEN "run" ELSE "run_last"
    /\ UNCHANGED <<store, commands, posting, woken, native_native, batch, polled, steps, closed, outcome, issued, faults>>

(* ... the publisher's owner runs: native_adapter_actor_submit,               *)
(* native_adapter_actor_cancel, ...                                           *)
RunSubmit(ok) ==
    /\ pc \in {"run", "run_last"} /\ steps < MaxSteps /\ commands # <<>> /\ Head(commands)[1] = "submit"
    /\ steps' = steps + 1 /\ commands' = Tail(commands)
    /\ LET i == Head(commands)[2]
       IN  IF free # <<>> /\ ok
           THEN /\ bridges' = [bridges EXCEPT ![Head(free)].pending = TRUE, ![Head(free)].request = i]
                /\ free' = Tail(free)
                /\ backend' = backend \cup {[bridge |-> Head(free), request |-> i,
                                             generation |-> bridges[Head(free)].generation]}
                /\ UNCHANGED <<outcome, faults>>
           ELSE /\ outcome' = [outcome EXCEPT ![i] = Append(@, i)]
                /\ IF free = <<>> THEN ok /\ UNCHANGED faults ELSE faults < MaxFaults /\ faults' = faults + 1
                /\ UNCHANGED <<store, backend>>
    /\ UNCHANGED <<posting, woken, ready, batch, pc, polled, closed, issued>>

RunCancel ==
    /\ pc \in {"run", "run_last"} /\ steps < MaxSteps /\ commands # <<>> /\ Head(commands)[1] = "cancel"
    /\ steps' = steps + 1 /\ commands' = Tail(commands)
    /\ \E ended \in SUBSET {op \in backend : op.request = Head(commands)[2] /\ bridges[op.bridge].request = op.request} :
        backend' = backend \ ended /\ ready' = ready \o SetToSeq(ended)
    /\ UNCHANGED <<store, posting, woken, batch, pc, polled, closed, outcome, issued, faults>>

Ran == commands = <<>> \/ steps = MaxSteps

(* ... and unless the poll found something, or no bridge is out, it waits.    *)
Runs ==
    /\ pc \in {"run", "run_last"} /\ Ran
    /\ pc' = IF pc = "run_last" \/ polled \/ Len(free) = Bridges THEN "idle" ELSE "observe"
    /\ polled' = FALSE
    /\ UNCHANGED <<store, commands, posting, woken, native_native, batch, steps, closed, outcome, issued, faults>>

Observe ==
    /\ pc = "observe"
    /\ batch' = Prefix /\ ready' = SubSeq(ready, Len(Prefix) + 1, Len(ready))
    /\ woken' = FALSE /\ pc' = "deliver_last" /\ steps' = 0
    /\ UNCHANGED <<store, commands, posting, backend, polled, closed, outcome, issued, faults>>

(* cflow_io_native_adapter_close and _destroy, between ticks, once drained.   *)
NativeClose ==
    /\ pc = "idle" /\ ~closed /\ ~posting /\ backend = {} /\ ready = <<>> /\ commands = <<>>
    /\ closed' = TRUE
    /\ UNCHANGED <<store, commands, posting, woken, native_native, batch, pc, polled, steps, outcome, issued, faults>>

NativeNext ==
    \/ \E kind \in {"submit", "cancel"} : Post(kind)
    \/ \E op \in backend : Completes(op)
    \/ \E ok \in BOOLEAN : RunSubmit(ok)
    \/ Wake \/ Poll \/ Deliver \/ Delivered \/ RunCancel \/ Runs \/ Observe \/ NativeClose

NativeSpec == NativeInit /\ [][NativeNext]_native_vars
-----------------------------------------------------------------------------
(* An operation is completed once and as itself, through the bridge it was    *)
(* submitted with, and a bridge is out exactly while the backend or a batch   *)
(* has its operation.                                                         *)
NativeRequestsExact ==
    LET held == backend \cup ToSet(ready) \cup ToSet(batch)
    IN  /\ \A i \in Ids : outcome[i] \in {<<>>, <<i>>}
        /\ \A b \in 1 .. Bridges : /\ bridges[b].pending <=> ~Contains(free, b)
                                   /\ bridges[b].pending <=> \E op \in held : op.bridge = b
        /\ \A op \in held : bridges[op.bridge].request = op.request

(* The owner never waits in the backend with a command it left for no reason: *)
(* its wake is there or coming, or the tick's steps were spent.               *)
NativeNotStranded == pc = "observe" /\ commands # <<>> => woken \/ posting \/ steps = MaxSteps

-----------------------------------------------------------------------------
(* The publisher over a readiness registration (cflow/src/readiness.c): the   *)
(* pump reads and arms, the reactor calls back, a cancellation closes the     *)
(* registration, the owner closes what is left.  The registration belongs to  *)
(* the platform: one arm is one callback, and its close waits for a callback  *)
(* on another thread and fails when it is called from inside one.             *)

readiness_vars == <<phase, waker, references, publisher_live, owner_live, cancelled, cleanup_inflight, cleanup_complete,
          registration, pc, closer, woken, reads, faults, closes, wakes, freed>>

Pump == "pump"
Reactor == "reactor"
Canceller == "canceller"
Owner == "owner"
Threads == {Pump, Reactor, Canceller, Owner}

ReadinessInit ==
    /\ phase = "IDLE" /\ waker = FALSE /\ references = 2
    /\ publisher_live = TRUE /\ owner_live = TRUE
    /\ cancelled = FALSE /\ cleanup_inflight = FALSE /\ cleanup_complete = FALSE
    /\ registration = "idle"
    /\ pc = [t \in Threads |-> IF t = Pump THEN "resume" ELSE "idle"]
    /\ closer = [t \in Threads |-> "none"]
    /\ woken = FALSE /\ reads = 0 /\ faults = 0 /\ closes = 0 /\ wakes = 0 /\ freed = FALSE

lives == <<publisher_live, owner_live>>
cleaning == <<cancelled, cleanup_inflight, cleanup_complete>>
counts == <<reads, faults, closes, wakes>>

Goto(t, step) == pc' = [pc EXCEPT ![t] = step]
Over == cancelled \/ phase = "CLOSED"

(* cflow_reactor_resume up to the read.                                       *)
Resume ==
    /\ pc[Pump] = "resume"
    /\ IF phase = "ERROR" \/ Over THEN Goto(Pump, "ended") /\ UNCHANGED phase
       ELSE IF phase \in {"ARMING", "ARMED"} THEN Goto(Pump, "arm") /\ UNCHANGED phase
       ELSE phase' = "IDLE" /\ Goto(Pump, "read")
    /\ UNCHANGED <<waker, references, lives, cleaning, registration, closer, woken, counts, freed>>

ReadValue ==
    /\ pc[Pump] = "read" /\ reads < MaxReads
    /\ reads' = reads + 1 /\ Goto(Pump, "resume")
    /\ UNCHANGED <<phase, waker, references, lives, cleaning, registration, closer, woken, faults, closes, wakes, freed>>

ReadEnds ==
    /\ pc[Pump] = "read" /\ Goto(Pump, "ended")
    /\ UNCHANGED <<phase, waker, references, lives, cleaning, registration, closer, woken, counts, freed>>

WouldBlock ==
    /\ pc[Pump] = "read" /\ reads < MaxReads
    /\ reads' = reads + 1 /\ Goto(Pump, "arm")
    /\ UNCHANGED <<phase, waker, references, lives, cleaning, registration, closer, woken, faults, closes, wakes, freed>>

(* cflow_reactor_arm: its first hold of the lock, the platform's arm, and     *)
(* what the second hold makes of its status.                                  *)
ArmBegins ==
    /\ pc[Pump] = "arm"
    /\ IF cancelled \/ cleanup_inflight \/ phase = "CLOSED"
       THEN phase' = "ERROR" /\ woken' = TRUE /\ Goto(Pump, "sleep") /\ UNCHANGED waker
       ELSE IF phase # "IDLE" THEN Goto(Pump, "ended") /\ UNCHANGED <<phase, woken, waker>>
       ELSE phase' = "ARMING" /\ waker' = TRUE /\ Goto(Pump, "arming") /\ UNCHANGED woken
    /\ UNCHANGED <<references, lives, cleaning, registration, closer, counts, freed>>

PlatformArms ==
    /\ pc[Pump] = "arming" /\ registration = "idle"
    /\ registration' = "armed" /\ Goto(Pump, "armed")
    /\ UNCHANGED <<phase, waker, references, lives, cleaning, closer, woken, counts, freed>>

PlatformRefuses ==
    /\ pc[Pump] = "arming" /\ (registration = "closed" \/ faults < MaxFaults)
    /\ faults' = IF registration = "closed" THEN faults ELSE faults + 1
    /\ Goto(Pump, "refused")
    /\ UNCHANGED <<phase, waker, references, lives, cleaning, registration, closer, woken, reads, closes, wakes, freed>>

ArmEnds ==
    /\ pc[Pump] = "armed"
    /\ phase' = IF phase = "ARMING" THEN "ARMED" ELSE phase
    /\ Goto(Pump, "sleep")
    /\ UNCHANGED <<waker, references, lives, cleaning, registration, closer, woken, counts, freed>>

ArmFails ==
    /\ pc[Pump] = "refused"
    /\ LET mine == phase = "ARMING" /\ ~cancelled
       IN  /\ phase' = IF phase = "ARMING" THEN "ERROR" ELSE phase
           /\ woken' = (woken \/ (mine /\ waker))
           /\ waker' = (waker /\ ~mine)
    /\ Goto(Pump, "sleep")
    /\ UNCHANGED <<references, lives, cleaning, registration, closer, counts, freed>>

Woken ==
    /\ pc[Pump] = "sleep" /\ woken
    /\ woken' = FALSE /\ Goto(Pump, "resume")
    /\ UNCHANGED <<phase, waker, references, lives, cleaning, registration, closer, counts, freed>>
-----------------------------------------------------------------------------
(* Mutant: a callback that finds the arm still under way is not heard.        *)
ListeningArmed == phase = "ARMED"
Listening == phase \in {"ARMING", "ARMED"}

(* cflow_reactor_callback: the phase, then the wake outside the lock, then    *)
(* its reference.                                                             *)
CallbackBegins(ok) ==
    /\ pc[Reactor] = "idle" /\ registration = "armed"
    /\ registration' = "idle"
    /\ references' = references + 1
    /\ LET told == ~cancelled /\ Listening
       IN  /\ phase' = IF ~told THEN phase ELSE IF ok THEN "NOTIFIED" ELSE "ERROR"
           /\ waker' = (waker /\ ~told)
           /\ Goto(Reactor, IF told /\ waker THEN "wake" ELSE "leave")
    /\ UNCHANGED <<lives, cleaning, closer, woken, counts, freed>>

(* The wake; it may cancel the subscription it wakes.                         *)
CallbackWakes ==
    /\ pc[Reactor] = "wake"
    /\ woken' = TRUE /\ wakes' = wakes + (IF cleanup_complete THEN 1 ELSE 0)
    /\ \/ Goto(Reactor, "leave") /\ UNCHANGED closer
       \/ publisher_live /\ Goto(Reactor, "close") /\ closer' = [closer EXCEPT ![Reactor] = "leave"]
    /\ UNCHANGED <<phase, waker, references, lives, cleaning, registration, reads, faults, closes, freed>>

CallbackEnds ==
    /\ pc[Reactor] = "leave"
    /\ references' = references - 1 /\ Goto(Reactor, "idle")
    /\ UNCHANGED <<phase, waker, lives, cleaning, registration, closer, woken, counts, freed>>
-----------------------------------------------------------------------------
(* cflow_reactor_close, from a cancel, from the publisher's destroy or from   *)
(* the owner's close.  The subscription never cancels a source it reads from. *)
Closes(t) ==
    /\ pc[t] = "idle" \/ (t = Pump /\ pc[t] = "ended")
    /\ CASE t = Canceller -> publisher_live /\ pc[Pump] \notin {"read", "ended", "close", "closing", "user", "closed"}
         [] t = Pump -> pc[Canceller] \in {"idle", "gone"}
         [] t = Owner -> owner_live /\ ~publisher_live
         [] OTHER -> FALSE
    /\ closer' = [closer EXCEPT ![t] = CASE t = Pump -> "destroy" [] t = Owner -> "release" [] OTHER -> "return"]
    /\ Goto(t, "close")
    /\ UNCHANGED <<phase, waker, references, lives, cleaning, registration, woken, counts, freed>>

(* Mutant: a second close closes again.                                       *)
CleanNever == FALSE
Clean == cleanup_complete

CloseBegins(t) ==
    /\ pc[t] = "close" /\ ~cleanup_inflight
    /\ IF Clean THEN Goto(t, "closed") /\ UNCHANGED <<waker, cancelled, cleanup_inflight>>
       ELSE cancelled' = TRUE /\ waker' = FALSE /\ cleanup_inflight' = TRUE /\ Goto(t, "closing")
    /\ UNCHANGED <<phase, references, lives, cleanup_complete, registration, closer, woken, counts, freed>>

(* cmeta_readiness_close: the quiescence boundary, and the user's close after it. *)
Quiet == pc[Reactor] = "idle"

PlatformCloses(t) ==
    /\ pc[t] = "closing" /\ t # Reactor /\ Quiet
    /\ registration' = "closed"
    /\ closes' = closes + 1 /\ Goto(t, "user")
    /\ UNCHANGED <<phase, waker, references, lives, cleaning, closer, woken, reads, faults, wakes, freed>>

CloseEnds(t) ==
    /\ pc[t] = "user"
    /\ cleanup_complete' = TRUE /\ phase' = "CLOSED" /\ cleanup_inflight' = FALSE
    /\ Goto(t, "closed")
    /\ UNCHANGED <<waker, references, lives, cancelled, registration, closer, woken, counts, freed>>

(* The platform refuses: inside its own callback always.                      *)
CloseFails(t) ==
    /\ pc[t] = "closing" /\ (t = Reactor \/ faults < MaxFaults)
    /\ faults' = IF t = Reactor THEN faults ELSE faults + 1
    /\ phase' = "ERROR" /\ cleanup_inflight' = FALSE
    /\ Goto(t, IF t = Owner THEN "idle" ELSE "closed")
    /\ UNCHANGED <<waker, references, lives, cancelled, cleanup_complete, registration, closer, woken, reads, closes,
                   wakes, freed>>

(* The tails of cflow_reactor_destroy and cflow_readiness_publisher_owner_close. *)
ReadinessRelease(t) ==
    /\ pc[t] = "closed"
    /\ LET drops == closer[t] \in {"destroy", "release"}
       IN  /\ references' = references - (IF drops THEN 1 ELSE 0)
           /\ freed' = (freed \/ (drops /\ references' = 0))
    /\ publisher_live' = (publisher_live /\ closer[t] # "destroy")
    /\ owner_live' = (owner_live /\ closer[t] # "release")
    /\ Goto(t, IF t = Reactor THEN "leave" ELSE "gone")
    /\ UNCHANGED <<phase, waker, cleaning, registration, closer, woken, counts>>

ReadinessNext ==
    \/ Resume \/ ReadValue \/ ReadEnds \/ WouldBlock \/ ArmBegins \/ PlatformArms \/ PlatformRefuses \/ ArmEnds
    \/ ArmFails \/ Woken
    \/ \E ok \in BOOLEAN : CallbackBegins(ok)
    \/ CallbackWakes \/ CallbackEnds
    \/ \E t \in Threads : Closes(t) \/ CloseBegins(t) \/ PlatformCloses(t) \/ CloseEnds(t) \/ CloseFails(t) \/ ReadinessRelease(t)

ReadinessSpec == ReadinessInit /\ [][ReadinessNext]_readiness_vars
-----------------------------------------------------------------------------
(* readiness.h: cancellation "quiescently closes the registration, then       *)
(* invokes close(user) once"; no wake reaches the pump after that, whoever    *)
(* closed, and the state is freed once, by the last of its holders.           *)
ReadinessClosedQuiet ==
    /\ closes <= 1 /\ wakes = 0
    /\ closes = 1 => registration = "closed" /\ pc[Reactor] \notin {"wake", "leave"}
    /\ freed => /\ references = 0 /\ ~publisher_live /\ ~owner_live /\ cleanup_complete
                /\ \A t \in Threads : pc[t] \in {"idle", "gone"}

(* A pump that was not cancelled sleeps only with a callback ahead of it.     *)
ReadinessNotStranded ==
    pc[Pump] = "sleep" /\ ~woken /\ ~cancelled => registration = "armed" \/ pc[Reactor] = "wake"
=============================================================================
