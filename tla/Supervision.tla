---------------------------- MODULE Supervision ----------------------------
(***************************************************************************)
(* The worker fleet of src/runtime/workers.rs under the supervision tree   *)
(* of world/74_supervisor.mst.                                             *)
(*                                                                         *)
(* The primary VM keeps a registry of links, one per slot; a worker's id   *)
(* is its slot and spawn reuses the first slot whose link is not alive.    *)
(* Worker threads are detached: they boot, serve their channel and, on a   *)
(* failure their body sees, post a #workerDied envelope into the primary's *)
(* inbox and unwind.  A fatal condition ends the thread where it stands:   *)
(* nothing is posted and nothing is dropped, the receiving end included.   *)
(* The primary turns envelopes into supervisor decisions.  A decision is a *)
(* run of nested message sends; `todo' is what is left of it, so that      *)
(* worker threads interleave with every start and stop it makes.           *)
(*                                                                         *)
(* A WorkerSpec's handle is represented by its id: every primitive a       *)
(* handle reaches (send, terminate, alive) takes the id.  WorkerNames      *)
(* binds a spec's name exactly while the spec records a handle (bind: and  *)
(* unbind: go with every worker:), so `worker' stands for both.            *)
(***************************************************************************)
EXTENDS Naturals, Sequences, SequencesExt, FiniteSets

CONSTANTS
    Specs,          \* worker children (WorkerSpec with an initSource)
    Sups,           \* supervisors
    Root,           \* the supervisor without a parent
    Children,       \* supervisor -> its children in start order
    Strategy,       \* supervisor -> "oneForOne", "oneForAll" or "restForOne"
    Temporary,      \* the specs whose restart policy is #temporary
    MaxRestarts,    \* supervisor -> restarts allowed within a window
    Window,         \* perSeconds, in clock ticks
    MaxWorkers      \* MAX_WORKERS

None == 0
Slots == 1..MaxWorkers
Kids(s) == ToSet(Children[s])
SupOf(x) == CHOOSE s \in Sups : x \in Kids(s)

ASSUME FleetAssumption ==
    /\ Specs \cap Sups = {} /\ None \notin Specs
    /\ Root \in Sups
    /\ Children \in [Sups -> Seq(Specs \cup Sups)]
    /\ \A x \in (Specs \cup Sups) \ {Root} : \E s \in Sups : x \in Kids(s)
    /\ \A s, r \in Sups : s # r => Kids(s) \cap Kids(r) = {}
    /\ \A s \in Sups : Root \notin Kids(s)
    /\ \A s \in Sups : \A i, j \in DOMAIN Children[s] :
          Children[s][i] = Children[s][j] => i = j
    /\ \E depth \in [Sups -> 0..Cardinality(Sups)] :
          \A s \in Sups : \A r \in Kids(s) \cap Sups : depth[s] < depth[r]
    /\ Strategy \in [Sups -> {"oneForOne", "oneForAll", "restForOne"}]
    /\ Temporary \subseteq Specs
    /\ MaxRestarts \in [Sups -> Nat]
    /\ Window \in Nat /\ MaxWorkers \in Nat

VARIABLES
    threads,    \* receiving ends not dropped yet: thread -> [id, phase, q]
    links,      \* slot -> [alive, thread], WorkerLink
    inbox,      \* ids of the #workerDied envelopes queued at the primary
    guests,     \* slots whose latest spawn was the embedder's own
    owner,      \* SupervisorRegistry Owners: slot -> spec or None
    worker,     \* WorkerSpec worker: spec -> id or None
    state,      \* WorkerSupervisor state
    restartTimes,   \* WorkerSupervisor restartTimes
    todo,       \* what is left of the decision the primary is executing
    now,        \* SupervisionClock now
    stranded,   \* a guest error ended the last drain; nothing was sent since
    charges,    \* history: every restart charged since the supervisor started
    faulted     \* history: a send found a dead receiver, or a spawn hit the cap

vars == <<threads, links, guests, inbox, owner, worker, state, restartTimes, todo,
          now, stranded, charges, faulted>>

fleet == <<threads, links, guests, inbox, stranded>>
tree == <<owner, worker, state, restartTimes, charges>>

Start(x) == [op |-> "start", of |-> x]
Stop(x) == [op |-> "stop", of |-> x]
GaveUp(s) == [op |-> "gaveUp", of |-> s]
Tasks == [op : {"start", "stop"}, of : Specs \cup Sups] \cup [op : {"gaveUp"}, of : Sups]
StartAll(xs) == [i \in DOMAIN xs |-> Start(xs[i])]
\* mutant: the reverse loop ends before the first child
StopAllShort(xs) == [i \in 1..Len(xs) - 1 |-> Stop(Reverse(xs)[i])]
StopAll(xs) == [i \in DOMAIN xs |-> Stop(Reverse(xs)[i])]

Init ==
    /\ threads = << >>
    /\ links = [i \in Slots |-> [alive |-> FALSE, thread |-> None]]
    /\ guests = {} /\ inbox = << >> /\ stranded = FALSE
    /\ owner = [i \in Slots |-> None]
    /\ worker = [c \in Specs |-> None]
    /\ state = [s \in Sups |-> "idle"]
    /\ restartTimes = [s \in Sups |-> << >>]
    /\ charges = [s \in Sups |-> << >>]
    /\ todo = << >> /\ now = 0 /\ faulted = FALSE

----------------------------------------------------------------------------
(* Worker threads: worker_main.                                            *)

Linked(t) == \E i \in Slots : links[i].thread = t

\* mutant: the failing thread unwinds without its #workerDied envelope
DiesSilently(t) ==
    /\ threads' = [threads EXCEPT ![t].phase = "dying"]
    /\ UNCHANGED <<inbox, stranded, links, guests, tree, todo, now, faulted>>

\* the envelope a failing thread posts before it unwinds and drops its receiver
Dies(t) ==
    /\ threads' = [threads EXCEPT ![t].phase = "dying"]
    /\ inbox' = Append(inbox, threads[t].id)
    /\ stranded' = FALSE
    /\ UNCHANGED <<links, guests, tree, todo, now, faulted>>

BootFails(t) == threads[t].phase = "boot" /\ Dies(t)

DispatchFails(t) == threads[t].phase = "serve" /\ threads[t].q > 0 /\ Dies(t)

\* fatal_exit in mode ExitThread, out of a boot or a dispatch: no envelope, and
\* no Drop runs, so that the channel still takes what is sent to it
FatalExit(t) ==
    /\ threads[t].phase = "boot" \/ (threads[t].phase = "serve" /\ threads[t].q > 0)
    /\ threads' = [threads EXCEPT ![t].phase = "exited"]
    /\ UNCHANGED <<links, guests, inbox, stranded, tree, todo, now, faulted>>

Booted(t) ==
    /\ threads[t].phase = "boot"
    /\ threads' = [threads EXCEPT ![t].phase = "serve"]
    /\ UNCHANGED <<links, guests, inbox, stranded, tree, todo, now, faulted>>

DispatchPending(t) ==
    /\ threads[t].phase = "serve" /\ threads[t].q > 0
    /\ threads' = [threads EXCEPT ![t].q = @ - 1]
    /\ UNCHANGED <<links, guests, inbox, stranded, tree, todo, now, faulted>>

\* recv answers Err only once the channel is both closed and drained
Unwind(t) ==
    /\ \/ threads[t].phase = "dying"
       \/ threads[t].phase = "serve" /\ threads[t].q = 0 /\ ~Linked(t)
    /\ threads' = [u \in DOMAIN threads \ {t} |-> threads[u]]
    /\ UNCHANGED <<links, guests, inbox, stranded, tree, todo, now, faulted>>

----------------------------------------------------------------------------
(* The registry's primitives: spawn, send, terminate.                      *)

FreeSlots == {i \in Slots : ~links[i].alive}
\* mutant: the index of the reused link is taken for its id
FirstFreeIndex == (CHOOSE i \in FreeSlots : \A j \in FreeSlots : i <= j) - 1
FirstFree == CHOOSE i \in FreeSlots : \A j \in FreeSlots : i <= j

ThreadIds == DOMAIN threads \cup {links[i].thread : i \in Slots} \cup {None}
NewThread == CHOOSE t \in 0..Cardinality(ThreadIds) : t \notin ThreadIds

SpawnAt(i, t) ==
    /\ threads' = [u \in DOMAIN threads \cup {t} |->
                     IF u = t THEN [id |-> i, phase |-> "boot", q |-> 0] ELSE threads[u]]
    /\ links' = [links EXCEPT ![i] = [alive |-> TRUE, thread |-> t]]

Terminated(i) == [links EXCEPT ![i] = [alive |-> FALSE, thread |-> None]]

\* cast: to a supervised name, ServiceWorker>>cast: down to workers::send
Cast(c) ==
    LET i == worker[c] IN
    /\ todo = << >> /\ i # None /\ links[i].alive
    /\ \/ /\ links[i].thread \in DOMAIN threads
          /\ threads' = [threads EXCEPT ![links[i].thread].q = @ + 1]
          /\ UNCHANGED <<links, inbox, stranded, faulted>>
       \/ /\ links[i].thread \notin DOMAIN threads
          /\ links' = [links EXCEPT ![i].alive = FALSE]
          /\ inbox' = Append(inbox, i)
          /\ stranded' = FALSE /\ faulted' = TRUE
          /\ UNCHANGED threads
    /\ UNCHANGED <<guests, tree, todo, now>>

\* Worker spawn: by the embedder itself, of a worker nobody supervises
SpawnUnsupervised ==
    /\ todo = << >> /\ FreeSlots # {}
    /\ SpawnAt(FirstFree, NewThread)
    /\ guests' = guests \cup {FirstFree}
    /\ UNCHANGED <<inbox, stranded, tree, todo, now, faulted>>

----------------------------------------------------------------------------
(* WorkerSupervisor: decisions.                                            *)

\* the restart times from the first one that `stays' on
PrunedTo(times, stays) ==
    LET first == CHOOSE i \in stays : \A j \in stays : i <= j
    IN  IF stays = {} THEN << >> ELSE SubSeq(times, first, Len(times))

\* mutant: a restart exactly perSeconds old is pruned too
RecentStrict(s) ==
    PrunedTo(restartTimes[s], {i \in DOMAIN restartTimes[s] : restartTimes[s][i] + Window > now})

\* pruneRestartsBefore: the oldest is removed while it is before the window
Recent(s) ==
    PrunedTo(restartTimes[s], {i \in DOMAIN restartTimes[s] : restartTimes[s][i] + Window >= now})

\* what a strategy's teardown starts again, in order
NotTemporary(xs) ==
    LET kept[i \in 0..Len(xs)] ==
            IF i = 0 THEN << >>
            ELSE IF xs[i] \in Temporary THEN kept[i - 1]
            ELSE Append(kept[i - 1], xs[i])
    IN  kept[Len(xs)]

\* restartAllFrom: the range comes down in reverse, then what is not
\* #temporary starts in order
RestartRange(xs) == StopAll(xs) \o StartAll(NotTemporary(xs))

\* applyStrategyFor:
ApplyStrategy(s, x) ==
    LET xs == Children[s]
    IN CASE Strategy[s] = "oneForOne" -> << Start(x) >>
         [] Strategy[s] = "oneForAll" -> RestartRange(xs)
         [] Strategy[s] = "restForOne" ->
              RestartRange(SubSeq(xs, CHOOSE i \in DOMAIN xs : xs[i] = x, Len(xs)))

\* giveUp: every child comes down, then the parent hears of it
GiveUpTasks(s) ==
    StopAll(Children[s]) \o (IF s = Root THEN << >> ELSE << GaveUp(s) >>)

\* restartOrGiveUp: for child x of s, with `rest' the sends still to return to
RestartOrGiveUp(s, x, rest) ==
    \/ /\ Len(Recent(s)) >= MaxRestarts[s]
       /\ state' = [state EXCEPT ![s] = "givenUp"]
       /\ restartTimes' = [restartTimes EXCEPT ![s] = Recent(s)]
       /\ todo' = GiveUpTasks(s) \o rest
       /\ UNCHANGED charges
    \/ /\ Len(Recent(s)) < MaxRestarts[s]
       /\ restartTimes' = [restartTimes EXCEPT ![s] = Append(Recent(s), now)]
       /\ charges' = [charges EXCEPT ![s] = Append(@, now)]
       /\ todo' = ApplyStrategy(s, x) \o rest
       /\ UNCHANGED state

\* SupervisorRegistry workerDied: for an id nobody owns
UnsupervisedDied ==
    /\ todo = << >> /\ inbox # << >> /\ owner[Head(inbox)] = None
    /\ inbox' = Tail(inbox)
    /\ UNCHANGED <<threads, links, guests, stranded, tree, todo, now, faulted>>

\* mutant: childDied: takes the notice at its word and does not terminate
ChildDiedAbandons ==
    LET id == Head(inbox)
        c == owner[id]
        s == SupOf(c) IN
    /\ todo = << >> /\ inbox # << >> /\ c # None
    /\ inbox' = Tail(inbox)
    /\ owner' = [owner EXCEPT ![id] = None]
    /\ worker' = [worker EXCEPT ![c] = None]
    /\ IF state[s] = "running" /\ c \notin Temporary
         THEN RestartOrGiveUp(s, c, << >>)
         ELSE UNCHANGED <<state, restartTimes, charges, todo>>
    /\ UNCHANGED <<links, threads, guests, stranded, now, faulted>>

\* SupervisorRegistry workerDied: and WorkerSupervisor childDied:
ChildDied ==
    LET id == Head(inbox)
        c == owner[id]
        s == SupOf(c) IN
    /\ todo = << >> /\ inbox # << >> /\ c # None
    /\ inbox' = Tail(inbox)
    /\ owner' = [owner EXCEPT ![id] = None]
    /\ links' = IF worker[c] = None THEN links ELSE Terminated(worker[c])
    /\ worker' = [worker EXCEPT ![c] = None]
    /\ IF state[s] = "running" /\ c \notin Temporary
         THEN RestartOrGiveUp(s, c, << >>)
         ELSE UNCHANGED <<state, restartTimes, charges, todo>>
    /\ UNCHANGED <<threads, guests, stranded, now, faulted>>

----------------------------------------------------------------------------
(* WorkerSupervisor: carrying a decision out, one send at a time.          *)

Doing(op) == todo # << >> /\ Head(todo).op = op
Target == Head(todo).of

\* start
StartSupervisor ==
    /\ Doing("start") /\ Target \in Sups
    /\ \/ /\ state[Target] = "running"
          /\ todo' = Tail(todo)
          /\ UNCHANGED <<state, restartTimes, charges>>
       \/ /\ state[Target] # "running"
          /\ state' = [state EXCEPT ![Target] = "running"]
          /\ restartTimes' = [restartTimes EXCEPT ![Target] = << >>]
          /\ charges' = [charges EXCEPT ![Target] = << >>]
          /\ todo' = StartAll(Children[Target]) \o Tail(todo)
    /\ UNCHANGED <<fleet, owner, worker, now, faulted>>

\* startChild: of a worker, down to workers::spawn
StartChild ==
    /\ Doing("start") /\ Target \in Specs /\ FreeSlots # {}
    /\ SpawnAt(FirstFree, NewThread)
    /\ worker' = [worker EXCEPT ![Target] = FirstFree]
    /\ owner' = [owner EXCEPT ![FirstFree] = Target]
    /\ guests' = guests \ {FirstFree}
    /\ todo' = Tail(todo)
    /\ UNCHANGED <<inbox, stranded, state, restartTimes, charges, now, faulted>>

\* startChild: at the cap: Worker spawn: raises, the decision and the drain
\* that made it are abandoned
StartChildFails ==
    /\ Doing("start") /\ Target \in Specs /\ FreeSlots = {}
    /\ todo' = << >> /\ stranded' = TRUE /\ faulted' = TRUE
    /\ UNCHANGED <<threads, links, guests, inbox, tree, now>>

\* stop
StopSupervisor ==
    /\ Doing("stop") /\ Target \in Sups
    /\ state' = [state EXCEPT ![Target] = "idle"]
    /\ todo' = StopAll(Children[Target]) \o Tail(todo)
    /\ UNCHANGED <<fleet, owner, worker, restartTimes, charges, now, faulted>>

\* mutant: stopChild: leaves the registry entry behind
StopChildStaysRegistered ==
    /\ Doing("stop") /\ Target \in Specs
    /\ links' = IF worker[Target] = None THEN links ELSE Terminated(worker[Target])
    /\ worker' = [worker EXCEPT ![Target] = None]
    /\ todo' = Tail(todo)
    /\ UNCHANGED <<owner, threads, guests, inbox, stranded, state, restartTimes,
                   charges, now, faulted>>

\* stopChild: of a worker, down to workers::terminate
StopChild ==
    /\ Doing("stop") /\ Target \in Specs
    /\ \/ /\ worker[Target] = None
          /\ UNCHANGED <<links, owner, worker>>
       \/ /\ worker[Target] # None
          /\ owner' = [owner EXCEPT ![worker[Target]] = None]
          /\ links' = Terminated(worker[Target])
          /\ worker' = [worker EXCEPT ![Target] = None]
    /\ todo' = Tail(todo)
    /\ UNCHANGED <<threads, guests, inbox, stranded, state, restartTimes, charges,
                   now, faulted>>

\* childSupervisorGaveUp:
ChildSupervisorGaveUp ==
    LET s == SupOf(Target) IN
    /\ Doing("gaveUp")
    /\ IF state[s] = "running"
         THEN RestartOrGiveUp(s, Target, Tail(todo))
         ELSE todo' = Tail(todo) /\ UNCHANGED <<state, restartTimes, charges>>
    /\ UNCHANGED <<fleet, owner, worker, now, faulted>>

----------------------------------------------------------------------------
(* The embedder's own calls, and the clock.                                *)

\* start or stop sent to any supervisor of the tree
Command(task) ==
    /\ todo = << >>
    /\ todo' = << task >>
    /\ UNCHANGED <<fleet, tree, now, faulted>>

Tick == now' = now + 1 /\ UNCHANGED <<fleet, tree, todo, faulted>>

ThreadStep == \E t \in DOMAIN threads : Booted(t) \/ DispatchPending(t) \/ Unwind(t)
Crash == \E t \in DOMAIN threads : BootFails(t) \/ DispatchFails(t) \/ FatalExit(t)
Died == ChildDied \/ UnsupervisedDied
Carry == \/ StartSupervisor \/ StartChild \/ StartChildFails
         \/ StopSupervisor \/ StopChild \/ ChildSupervisorGaveUp
Client == \/ \E s \in Sups : Command(Start(s)) \/ Command(Stop(s))
          \/ SpawnUnsupervised
          \/ \E c \in Specs : Cast(c)

Next == ThreadStep \/ Crash \/ Died \/ Carry \/ Client \/ Tick

Spec == Init /\ [][Next]_vars

(* Threads are scheduled, the primary finishes what it is doing and, while *)
(* a wake is owed (InboxWake), drains its inbox.                           *)
Fairness ==
    /\ WF_vars(ThreadStep) /\ WF_vars(Carry)
    /\ WF_vars(~stranded /\ Died)

FairSpec == Spec /\ Fairness

----------------------------------------------------------------------------
(* Properties.                                                             *)

\* Every variable keeps its shape: ids are slots, decisions are made of known
\* sends, and a queued envelope names a slot of the registry.
TypeOK ==
    /\ DOMAIN threads \subseteq Nat \ {None}
    /\ \A t \in DOMAIN threads :
         threads[t] \in [id : Slots, phase : {"boot", "serve", "dying", "exited"}, q : Nat]
    /\ links \in [Slots -> [alive : BOOLEAN, thread : Nat]]
    /\ guests \subseteq Slots
    /\ inbox \in Seq(Slots)
    /\ owner \in [Slots -> Specs \cup {None}]
    /\ worker \in [Specs -> Slots \cup {None}]
    /\ state \in [Sups -> {"idle", "running", "givenUp"}]
    /\ restartTimes \in [Sups -> Seq(Nat)]
    /\ charges \in [Sups -> Seq(Nat)]
    /\ todo \in Seq(Tasks)
    /\ now \in Nat
    /\ stranded \in BOOLEAN /\ faulted \in BOOLEAN

\* A registry entry always names the spec whose recorded handle has that id,
\* so childDied: terminates the slot the death notice was addressed to.
OwnersAreCurrent == \A i \in Slots : owner[i] # None => worker[owner[i]] = i

\* No worker VM is ever abandoned un-terminated (the leak childDied:'s first
\* line exists to prevent): a live link is registered to a spec that records
\* its id, or is the embedder's own, whatever stale or duplicate death notices
\* were delivered.
NoLeakedWorker ==
    \A i \in Slots : links[i].alive =>
      i \in guests \/ (owner[i] # None /\ worker[owner[i]] = i)

\* Once a decision is carried out, a supervisor that is stopped or has given
\* up records no worker for any of its children.
DownMeansDown ==
    todo = << >> =>
      \A s \in Sups : state[s] # "running" =>
        \A c \in Kids(s) \cap Specs : worker[c] = None

\* Restart intensity: since it started, a supervisor never charges more than
\* maxRestarts restarts within any span of perSeconds.
IntensityBounded ==
    \A s \in Sups : \A i \in DOMAIN charges[s] :
      i + MaxRestarts[s] \in DOMAIN charges[s] =>
        charges[s][i + MaxRestarts[s]] > charges[s][i] + Window

ThreadOf(c) == links[worker[c]].thread

Serving(c) ==
    /\ worker[c] # None
    /\ ThreadOf(c) \in DOMAIN threads /\ threads[ThreadOf(c)].phase \in {"boot", "serve"}

\* the worker's thread posted its #workerDied envelope: worker_main saw it fail
Reported(c) ==
    /\ worker[c] # None
    /\ ThreadOf(c) \in DOMAIN threads => threads[ThreadOf(c)].phase = "dying"

\* Availability: while no send has met a dead receiver and no spawn the cap, a
\* #permanent child of a running supervisor whose worker failed in a way its
\* thread body saw (boot, init doit or a dispatch that answers Err) is served
\* again by a fresh worker, or its supervisor comes down.  Nothing is claimed of
\* a worker that a fatal condition ended: that is SendsFindTheDead.
CrashIsHandled ==
    \A c \in Specs \ Temporary :
      (state[SupOf(c)] = "running" /\ Reported(c))
        ~> (Serving(c) \/ state[SupOf(c)] # "running" \/ faulted)

\* What SupervisorRegistry says of itself, "I route worker deaths to their
\* owning supervisors": a child that records a handle is the registered owner
\* of that id whenever the primary is between decisions.
DeathsAreRouted ==
    todo = << >> => \A c \in Specs : worker[c] # None => owner[worker[c]] = c

Ended(c) == ThreadOf(c) \in DOMAIN threads => threads[ThreadOf(c)].phase = "exited"

\* What the failure model says of a worker whose thread was ended: "its channel
\* endpoints drop", so the "primary's next `send:` fails", marks it dead and
\* synthesizes its #workerDied.
SendsFindTheDead ==
    [][\A c \in Specs : Cast(c) /\ Ended(c) =>
          ~links'[worker[c]].alive /\ inbox' = Append(inbox, worker[c])]_vars
============================================================================
