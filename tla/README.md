# A TLA+ verification project for MACVM / WINARMVM

MACVM is a Smalltalk virtual machine in Rust: a generational moving heap, an
interpreter and an optimizing compiler over a code cache, a fleet of worker VMs
(one thread and one heap each) that exchange pickled messages with a primary VM,
an Erlang-style supervision tree written in the guest language, and several
desktop hosts. This directory models the parts whose correctness depends on an
order of events that no unit test enumerates, checks them with TLC, and proves
with TLAPS what can be proved for every size.

Paths below are relative to the repository's root (`src/memory/...` is the VM
crate, `world/...` the guest-language library, `gui/...` the desktop host).

## 1. Inventory

| part | state it keeps | operations | talks to |
|---|---|---|---|
| generational heap (`src/memory/{layout,spaces,alloc,store,cards,scavenge}.rs`) | eden, two survivor spaces, the committed prefix of the old generation, card table, tenuring threshold and age table, `promotion_guarantee_met`, `pending_stall` | allocate (a cascade of up to nine stages), store with a barrier, scavenge | interpreter, compiled code, primitives; roots |
| full collection (`src/memory/fullgc.rs`) | mark bits, forwarding, preserved marks | mark, compute forwarding, rewrite, slide, reset cards and offsets | the heap, code cache, lookup cache |
| offset table (`src/memory/offsets.rs`) | one entry per card | record, resolve, clear | old generation, card scan |
| roots (`src/memory/{roots,handles}.rs`) | process stacks, handles, symbol table, code pools, frame spill slots | enumerate | both collectors |
| worker inbox (`src/runtime/workers.rs`, `gui/src/vm_host.rs`, `world/47_worker.mst`) | a channel, the `wake_pending` flag, the wake hook | send, poll, await, dispatch | worker threads, host request loop |
| worker fleet (`src/runtime/workers.rs`) | links by slot id, worker threads | spawn, send, terminate, death notices | inbox, supervision |
| supervision tree (`world/74_supervisor.mst`) | registry of owners, specs with their worker, supervisor state, restart times | start, stop, `childDied:`, strategies, give-up, escalation | fleet, clock |
| service calls (`world/74_supervisor.mst`) | pending calls, deadlines | call, reply, timeout sweep, death | inbox, fleet |
| dispatch (`src/runtime/lookup.rs`, `src/interpreter/{ic,send}.rs`, `src/compiler/feedback.rs`) | method dictionaries, the epoch, the lookup cache, one inline cache per send site | send, install a method, read feedback | both collectors, compiler |
| code life cycle (`src/codecache`, `src/interpreter/compiled_call.rs`, `src/runtime/{deps,frames,osr,recompile}.rs`) | the code table and its keys, compiled call sites, PICs, adapters, activations in flight | compile, resolve a send, invalidate, retire, deoptimize, sweep | dispatch, both collectors |
| interpreter, unwinding, primitives, FFI | activation frames, handlers | execute, non-local return, call out | everything |
| window callbacks, Cocoa watchdog, desktop hosts | pending-event flags, heartbeats | flag and drain, detect a stall, restart | OS, VM thread |
| front end, compiler, pickling, image store, class library | (sequential or pure) | | |

The hard behaviours:

* **Moving memory.** A scavenge relies on facts established much earlier: the
  remembered set by every store since the last scavenge, the promotion guarantee
  by the cascade, the boundary card by the order of promotion and card scan. A
  missed case shows up collections later as a wild reference.
* **Two threads and a flag.** Senders skip the wake-up when the flag says that
  somebody else is on the way; the host clears the flag and drains.
* **Asynchronous death.** A worker dies at any instant; its death is announced by
  itself, by a failed send, twice, or, after a fatal exit, by nobody; its slot id is
  reused; the supervisor is in the middle of another decision or at the fleet's cap.
* **Time.** Restart intensity windows and call deadlines. A call is ended by a
  reply, a deadline or a death, and the loops that end calls run blocks that issue
  new ones.
* **Redefinition under running code.** A method is replaced while caches of four
  kinds hold it, while compiled code has it inlined, and while activations of that
  code wait under others; the memory of retired code is used again.

What makes each part correct: for the heap, that collections are invisible to the
program, that the remembered set is complete at all times, that no reference
dangles and that every allocation ends; for the inbox, that no wake-up is lost and
that mail is drained; for dispatch and compiled code, that a send runs the method
the dictionaries hold, that wrong code is left at the next opportunity and that no
address of reclaimed code is used; for calls, that each ends exactly once; for the
tree, that no worker is abandoned, that the registry
names the current incarnation, that a stopped tree is down, that restarts are
bounded and that crashes are dealt with. `PROJECT.json` lists every component and,
under `hazards`, what can go wrong at which line and which property watches it.

## 2. Modules

| module | models | kind |
|---|---|---|
| `Heap` | spaces, barriers, cascade, scavenge; full collection as one step | component |
| `ObjectStore` | what the heap promises a program | abstract specification |
| `HeapStore` | how `Heap` represents `ObjectStore` | refinement mapping |
| `MCHeap` | bounds on the operations of the program | TLC instance |
| `HeapLemmas` | arithmetic of cards, tilings of the spaces, reachability, sliding compaction | TLAPS proofs |
| `HeapProofs` | the heap for any sizes of spaces, cards and objects, and any program | TLAPS proofs |
| `Lookup` | method dictionaries, their epoch, and klasses that move | shared base |
| `LookupProofs` | the walk of the superclass chain, and what a redefinition can change | TLAPS proofs |
| `Dispatch` | lookup cache, interpreter inline caches, what the compiler reads from them | component |
| `MCDispatch` | three klasses, one selector | TLC instance |
| `DispatchProofs` | the caches for any klasses, selectors and sites | TLAPS proofs |
| `CodeLife` | compiled code from compilation to reclaiming, with activations in flight | composition |
| `MCCodeLife` | three klasses; a sender and a leaf, or a recursive method | TLC instance |
| `CodeLifeProofs` | compiled code for any klasses, methods, code slots and stack depth | TLAPS proofs |
| `InboxWake` | inbox, coalesced wake, drain | component |
| `InboxWakeProofs` | the wake protocol for any number of senders | TLAPS proofs |
| `Supervision` | worker fleet composed with the supervision tree | composition |
| `MCSupervision` | trees, and bounds on calls, crashes and clock | TLC instance |
| `SupervisionProofs` | the tree and the fleet for any tree, strategies and limits | TLAPS proofs |
| `ServiceCalls` | deadline-bounded calls over the inbox dispatch and the worker registry | composition |
| `ServiceCallsProofs` | calls for any names, workers, calls and deadlines | TLAPS proofs |

Operators whose comment begins with "Mutant" are not part of a model: each is a
plausible bug in the definition after it, used to make sure that some property
would notice.

### Heap

Addresses are word addresses; an object is a mark word, its klass field (slot 1)
and its body; `0` is any value that is not a heap reference. `obj` maps header
addresses to objects. `id` is a ghost identity that survives moves; `age` is the age
of the mark word, and forwarding pointers, which the code installs in the mark
word, are the function `fwd`. Raw bodies, identity hashes and the other mark bits
are left out: no property tells them apart.

`pc` says which step of which operation comes next, because the VM's thread does
one thing at a time: `"mutator"` is the program; `bump`, `ensure`, `guarantee`,
`rebump`, `old`, `grow`, `grownold`, `full`, `fullbump`, `fullold`, `fullgrow`,
`fullgrownold` are the stages of `alloc_words` in the order of its text;
`roots`, `cards`, `code`, `cheney` are the phases of `scavenge`; `stalled` is the
terminal `GcStallError`, `panic` is `scavenge_oop`'s panic on a to-space address.
A scavenge proceeds one `scavenge_oop` at a time, so every intermediate heap is a
state in which the invariants are evaluated. The handle under which `alloc_words`
keeps the klass across collections is `root[0]`. `gc_stress` is `GcStress`; its full
variant adds no transition beyond those `gcFull` reaches.

The offset table is `offsets`, one entry per card: `record_object` runs at every
promotion and direct allocation and for every survivor of a compaction, after
`clear_through`; `resolve` follows a chain. An entry up to the size of a card is a
distance in words, a larger one a number of cards to skip back, at most
`MaxChainSkip` (191 in the code). The dirty-card scan visits the window of each
dirty card word by word and finds the object a word belongs to directly; that the
table would lead it to the same object is the invariant `OffsetsResolve`. The full
collection is one step that leaves what its five phases leave: survivors slid to
the bottom of their own space in address order, all references rewritten, the cards
of the live old range dirty, the offset table rebuilt.

`ObjectStore` has identities, fields and roots and no memory; what can be reached is
the least set that has the roots' objects in it and is closed under fields.
`HeapStore` maps the heap to it by reading every root and every reachable field as an identity, a
dangling reference as -1; the interface is what is reachable, so dropping dead
objects is no step.

### Lookup and Dispatch

`Lookup` has the part that dispatch and compiled code share. A klass is a model
value, and so is its address: a collection is a permutation of the klasses, from
`Moves`, that everything keyed by address has to follow (`Readdressed`). A method is
its holder, selector and version, so that redefining it is seen.

`Dispatch` is the interpreter's side. A site's inline cache is empty, mono (with a
method, or with a compiled method's id, which stands for its key), poly or mega, with
the epoch it was stamped with; `ic_transition` is the code's table of rows 1 to 13,
with row 8 re-resolving all pairs before stamping (`CurrentPairs`). `SendFast` is the
fast path of `send_generic`, `SendBailout` its compiled target that gives up,
`SendSlow` everything else, after which `activate_method` may seed the site with
compiled code (`Seeded`). The lookup cache is a set of entries any of which an
insertion may displace: the hash decides which, and no property depends on it.
`read_send_site` is what the compiler sees of a site.

### CodeLife

`ct` is the code table: slots with their nmethods, the key table `by_key`, and the
armed loop poll. A code block is identified with the slot that owns it. Each method
is a leaf or a single send site, taken any number of times; with receivers of any
klass that is enough to grow, retarget and share call sites. `frames` is the native
stack: interpreted, compiled, waiting in an adapter (`c2i`), or interpreting on after
a trap or a redirected return; a return slot redirected by `redirect_returns_into_nm`
is a flag of the victim.

One action per way control moves: an interpreted send (`activate_method` with its
compile trigger), a compiled call through its site (`CallDirect`), its miss
(`rt_resolve_send`), the megamorphic stub, an uncommon trap, the loop poll, OSR entry,
return. Compilation cannot be interrupted (no safepoint), so it is part of the step
that triggers it. `install_method` invalidates: every affected nmethod is retired,
the returns into its activations are redirected and the poll is armed
(`InvalidateAll`). `note_uncommon_trap` and the warm triggers retire lazily: the code
is right, only worse, until a redefinition makes it wrong too. `sweep_not_entrant_zombies` runs where the code runs
it: on entry to compiled code from the interpreter with no compiled activation, and
in a full collection.

The module composes with `Dispatch` by contract. A full lookup, which is also what
`activate_method` compares with before it runs compiled code, is `Truth`:
`CacheCurrent` establishes that. What a send site holds is only `Truth` *or an earlier
answer*, because a pair that rows 5 and 6 of `ic_transition` copied may be out of date
under a current stamp (`stale_dispatch`). `outdated` collects, at each redefinition,
every answer that a site may have held for the lookups it changes, which is more than
the caches can hold at once; `Answers` is what the site of a method may give, to the
interpreter as well as to the compiler, and `InlineChoices` what the compiler may inline
there. An inlined body records `found`, what lookup gave at the compile, so that
"the lookup it depends on has changed" and "the body is not the current one" are two
different things.

`stale` on an nmethod records that a redefinition changed a lookup it had inlined for:
`"found"` when `affected_by_install` found it, `"missed"` when it was installed but
already retired, and so outside the scan, which is over living code (`deps.rs`).

### InboxWake

One step per access to shared state. `InboxSender::send` is `Push` (channel), `Swap`
(flag), `TakeHook` (mutex), `CallHook` (the hook queues a `WorkerInbox` request). The
host's request loop takes a request, which runs `Worker dispatchInbox`: `Clear` and
`TryRecv` are the two accesses of `poll`, repeated until the queue is empty;
`pumpInbox:` is `StartAwait` and `AwaitReturns`. A handler may send (a failed send
posts a death notice to the host's own inbox), and may fail: the error unwinds out
of the whole drain, the request loop reports it and continues. The flag and the
channel are taken as sequentially consistent; `poll`'s store to the flag is only a
Release, and it is the fence inside the channel's receive that keeps it before the
read of the queue.

### Supervision

The fleet is `threads` and `links`; `spawn` takes the first slot that is not alive,
`send` to a thread that has gone marks the link dead and posts a death notice,
`terminate` drops the channel, after which the thread serves what it has and ends.
A failing thread posts its notice first and drops its receiver afterwards (`Dies`,
then `Unwind`), a window in which sends to it still succeed. A guest-fatal condition
(heap or stack exhaustion) inside a boot or a dispatch is `FatalExit`: `fatal_exit` ends
the thread where it is, in mode `ExitThread`. No envelope is posted, no `Drop` runs, so
the receiver is not dropped and the channel goes on accepting what is sent to it;
`worker_main` registers no fatal hook and nothing sweeps the fleet for threads that have
gone.

A supervisor's decision is a run of nested message sends. `todo` is what is left of
it, one `start`, `stop` or `gaveUp` at a time, so that threads interleave with it;
`childDied:` and `childSupervisorGaveUp:` push the sends of the strategy or of the
give-up in front. A spawn that meets the cap raises, which ends the decision and the
drain. A spec's handle is represented by its id, which is all that the primitives
take; name and handle are set and cleared together, so `worker` stands for both.
Names are distinct across a tree (`docs/otp_workers_design.md`), so the collision
error of `bind:` has no transition. `now` is `SupervisionClock`. `charges` and
`faulted` are history variables for the properties.

Not in the model: hosted workers (they have no thread of their own), replies, and a
cast to a link already known to be dead, which changes nothing. Service calls are
the next module.

### ServiceCalls

A call registers a continuation (`replies`) and a deadline and only then sends; the
send may raise. The primary's beat is `pumpInbox:`: `Dispatch` an envelope, or `Sweep`
when there is none. A sweep and `failPendingCallsTo:` walk the Dictionary of deadlines
entry by entry (`visit`), and the block that each ended call runs is a state
(`"callback"`) in which guest code issues calls, starts and stops workers, or raises;
an insertion during the walk may grow the Dictionary, after which the walk over the
old arrays covers any subset of what was left. Worker threads answer, stay silent,
fail and exit; a failed thread posts its notice before its receiver goes. No fairness is
assumed of them, so a worker that a fatal exit ended is one that takes no more steps;
its calls end by their deadlines. Workers are
started and terminated at will, which over-approximates the supervisors. The thread
in a deadline and in an envelope, and `ended`, are history.

## 3. Runs

Deadlock checking is off for the heap, inbox and supervision instances: a program
may do nothing more, a stalled process has ended, and the bounds stop the
environment. The other three cannot stop and are checked for deadlock.

| run | checks | instance |
|---|---|---|
| `scavenge` | `TypeOK`, `RememberedSet`, `RefsValid`, `NoDoubleVisit`, `ImplementsStore` | eden 4, survivors 2, old 8 growing to 9 words, cards of 5, one code-side root; 4 operations of the program, `gcScavenge` and `gcFull` included |
| `cascade` | `Parsable`, `OffsetsResolve`, `GuaranteeHolds`, `CollectionEnds` | eden 3, survivors 3, old 3 growing to 9 by segments of 3, cards of 2, chains that skip one card; objects of 3 and 6 words; 4 operations |
| `prim_scavenge` | `StallOnlyUnmet` is violated | eden 5, survivors 2, old 2 growing to 9, no code-side root |
| `dispatch` | `TypeOK`, `CacheCurrent`, `StampedCasesCurrent` | klass `a` with subclasses `b` and `c`, two send sites, caches of up to two pairs, 2 redefinitions, collections that rotate the three addresses |
| `stale_dispatch` | `FeedbackCurrent` is violated | same |
| `code_life` | `TypeOK`, `KeysNameCurrentCode`, `InvalidationComplete`, `SitesLeadToTheirCode`, `RunningCodeKept`, `WrongCodeIsLeft`, `CompiledSendsAreCurrent`, `ReplacementKeepsKey` | the same klasses and two programs: `f` sending the leaf `g`, which a subclass comes to override, and `h` of one klass sending itself; 2 code slots, 2 compilations, 1 redefinition, PICs of 2, stack of 2 |
| `inbox_wake` | `TypeOK`, `NoLostWakeup`, `ArmedFlagIsLive`, `EventuallyDrained` | two senders and the host, two sends each, with and without a hook |
| `inbox_wake_doc` | `NeverLostWakeup` is violated | same |
| `supervision` | `TypeOK`, `OwnersAreCurrent`, `NoLeakedWorker`, `DownMeansDown`, `IntensityBounded`, `CrashIsHandled` | root (one-for-all) over a temporary worker and a sub-supervisor (rest-for-one) over one worker; 2 slots, 2 crashes, 3 calls, 3 instants |
| `supervision_doc` | `DeathsAreRouted` is violated | one supervisor (one-for-one) over two workers |
| `fatal_exit` | `SendsFindTheDead` is violated | same |
| `service_calls` | `TypeOK`, `EndsOnce`, `LiveIsUnsettled`, `AnsweredNotDead`, `AllSettle` | one name, one slot, two workers in succession, 3 calls, 3 instants |

What they show. `scavenge`: whatever the program did and wherever the collector
is, every old-to-new reference is on a dirty card, and nothing, live or dead,
refers to a vacated address; and the program cannot tell that a collection happened.
`cascade`: after the guarantee is met no promotion
fails, the spaces can be walked, every card of the old generation resolves to the
object that covers its first word, and the retries end. `dispatch`: the lookup cache never answers what the
dictionaries do not hold, across redefinitions and moving klasses; neither does a
cache stamped with the current epoch, except for a pair that rows 5 and 6 copied.
`code_life`: whatever the order of compilation, redefinition, traps and sweeps, a
send called out of living compiled code runs the method of the dictionaries, a
redefinition leaves no living code that inlined for a lookup it changed, an activation
of living code that it made wrong is not running and is redirected, one of code that
was already retired has at least the poll armed, no living call site leads to a reused slot, and code is not reclaimed under an
activation. `inbox_wake`: the eventfd discipline works for every interleaving, except
after a failed handler. `supervision`: duplicate and late death notices, reuse of
ids, a full fleet, and give-up inside give-up leave no orphan, and a stopped tree is
down; and a death that its thread reported is dealt with. `service_calls`: every call ends, and ends once, whichever of reply, deadline
and death comes first and whatever the blocks do meanwhile.

Why the bounds are enough. The heap instances are the smallest in which each
mechanism has its two cases: one card of `scavenge` straddles the old top before
promotion (5-word cards, objects of 2 and 3 words), survivors overflow (2 words
against objects of 3), objects reach the tenuring age (`AgeMax` 2), eden (4) fills after
one or two allocations, old space fills and grows by a clipped segment, objects span two
cards of 2 words. In `cascade` an object of six words covers three cards: the first is
recorded directly, the next by a chain, and with `MaxChainSkip` 1 a chain of two
links is needed where the object starts off a card boundary. Four operations suffice to allocate, promote, store across
generations and collect. `GcStress`, a collection at every allocation, is off in the runs
and free in the theorems. Every step of the models is taken in some passing run.
Two senders suffice for one to win the swap and one to lose it, two sends for a
flag armed again during a drain. Two crashes with `maxRestarts` 1 take the
sub-supervisor through give-up and escalation to the root; the root's own give-up
is reached only through a root's own restarts and is not exercised beyond its first
charge. Two slots put the cap in reach of every restart.
Three klasses with caches of two pairs take a site through every state up to mega;
two redefinitions let one fall between two uses of a cache and one after. Two code
slots are what a method and its replacement, or a caller and its callee, need at the
same time, and the second compilation reuses the slot of the first; the stack of two
has a compiled caller under a callee of either tier, and `h` under itself, the one
way for code to be retired lazily while an activation of it waits (`rt_poll`). With one worker slot every
replacement reuses the id of its predecessor; three calls are two to walk over and
one that a block adds. State counts are from some 84 000 (`cascade`) to 568 000
(`service_calls`), all below two minutes on two cores.

Fairness. *Heap:* `WF` on the cascade and the scavenge, which run to completion on
the VM's thread; none on the program. *Inbox:* `WF` for a thread inside `send` and
for a host inside a drain or a program (programs are assumed to end); `SF` for
taking a poke, because the request loop serves requests in order while other
requests keep coming; `SF` for a hookless host to call `pumpInbox:` again, as the
headless loops do; none for starting programs, failing or exiting. *Service calls:* `WF`
for the beat as a whole, because `pumpInbox:` is called in a loop and a block comes
back or raises, and for the clock; nothing of the workers. *Supervision:*
`WF` for threads and for finishing a decision, and for draining while a wake is
owed, which is what `inbox_wake` establishes; a drain that a guest error abandoned
owes none until the next send (`stranded`). Where an abandoned decision was the
embedder's own command rather than a drain's, `stranded` assumes less than the code
guarantees.

### Disagreements found

1. `prim_scavenge`: `Smalltalk gcScavenge` calls `scavenge` without
   `ensure_promotion_guarantee`, so the flag `record_stall` asserts on is stale. The
   comments in `scavenge.rs` say the guarantee is checked before every scavenge.
2. `stale_dispatch`: a mono cache that predates a redefinition and meets a second
   klass becomes a poly cache whose first pair is the old method, stamped with the
   current epoch (`ic.rs`, `m0`, rows 5 and 6). From then on the interpreter runs the
   old method for the first klass and the compiler may inline it, against "a
   still-current epoch proves no binding has changed" (`feedback.rs`). Row 8 and the
   compiled-target case of the same row do re-resolve. `CodeLife` takes the consequence
   into account: living code may have a body inlined that was out of date when it was
   compiled. No invalidation is due for it, because the lookup it depends on does not
   change any more; it is retired by the next redefinition of that lookup, if there is
   one. `InvalidationComplete` therefore speaks of the lookup, not of the body.
3. `inbox_wake_doc`: a guest error in a handler ends the drain; what is queued waits
   for some later send, against "never a lost wakeup".
4. `supervision_doc`: a failed send frees a crashed child's slot before its notice is
   handled; a sibling restarted first takes the slot and the registry entry. Both
   notices then restart the sibling, the first child stays dead, and its name
   resolves to the sibling's worker.
5. `fatal_exit`: a worker that a fatal condition ended posts nothing, and a send to it
   is accepted, because its receiver was never dropped. The failure model
   (`docs/multi-smalltalk-worker.md`) says that "its channel endpoints drop", that the
   "primary's next `send:` fails", and that a registry sweep finds it besides;
   `workers.rs` says that any failure ends in a `#workerDied` envelope. `embed.rs` has it
   right: "`pthread_exit` runs no `Drop`". The supervisor of such a worker never learns
   of the death and never restarts it, which is why `CrashIsHandled` is restricted to
   failures that the thread body saw (`Reported`).
6. Lazily retired code, in `code_life`. `flush.rs` and `deps.rs` say of a redefinition
   that the activations of code which inlined the old method deoptimize. That holds of
   living code. Code that a recompilation retired is not among the victims
   (`affected_by_install` looks at living methods), and an activation of it that waits
   under a callee is resumed in the old body when the callee returns. The run reaches
   this state (`stale` is `"missed"`); `WrongCodeIsLeft` states the exception: for these
   activations only the armed poll is claimed, which ends a loop at its next back-edge
   and does nothing for straight-line code.

Remarks from reading, outside the runs:

* `alloc_words` grows by one segment before and one after its full collection, so a
  request larger than two segments stalls with reservation to spare.
* `flush_nmethod` resets the call sites of living callers. A retired caller whose
  activation is still in flight keeps its site; `SitesLeadToTheirCode` is therefore
  about living callers.
* An OSR compile takes over the key of a living ordinary nmethod, which stays
  installed without a key; this costs memory, not correctness.
* A block that raises inside `failPendingCallsTo:` ends the walk, and the
  `#workerDied` handler after it does not run, though the comment speaks of two
  independent observers; the remaining calls end by their deadlines. The same holds
  of entries that a growing Dictionary hides from a walk.
* A call whose send raises has registered its continuation and deadline already: its
  caller sees the error now and `onError:` later.
* A late `#workerDied` names a slot; if the slot has a new worker, the calls to that
  one are failed. They still end once.
* The GUI host drains with `dispatchInbox` and never sweeps, so there a silent worker
  is noticed by its death only.

## 4. Proofs

Every theorem below holds for all values of the constants that satisfy the module's
named `ASSUME`, and all of them follow the same plan: an inductive invariant `IInv`
(`Invariance`, or `Inductive` in `InboxWakeProofs`), preserved action by action, and
the properties of the runs as its consequences. TLC checked each `IInv` on the run's
instance before it was proved.

Loops over data (`reverify_poly`, the selection of non-temporary children) are
recursive functions in the models. What they compute is proved by the least
counterexample: `LeastNat` takes from the well-foundedness of the natural numbers that
a non-empty set of round numbers has a least member, and the round before it was
right. The same lemma shows that the recursive function exists.

### InboxWakeProofs

From `InboxAssumption` (the host is not one of the senders, the bound on sends is a
natural number): `Typed` (`TypeOK`), `NoWakeupIsLost` (`NoLostWakeup`),
`FlagNeverOrphaned` (`ArmedFlagIsLive`).

`NoLostWakeup` is not inductive: it says that *some* poke or sender is in motion,
and a sender in motion that finds the flag armed stops. So `IInv` splits the
question by the flag. `ArmedFlagIsLive`: an armed flag stands for a poke that is
queued, or that the thread which armed it is about to queue. `DisarmedMeansPushed`:
with the flag clear, the host at rest and envelopes queued, some sender has pushed
and not yet swapped; it will find the flag clear and win. `BootIsQuiet` is what makes
the installation of the hook safe: nothing was sent before it, so no flag was armed
without a hook. The interesting cases are `Swap`, which hands over from the second to
the first, and `TryRecv` on an empty queue, where the host comes to rest.

### ServiceCallsProofs

From `ServiceAssumption`. `ServiceTypeOK` (`TypeOK`), `CallEndsOnce` (`EndsOnce`), `TablesHoldUnsettled`
(`LiveIsUnsettled`) and the action property `AnswerBeatsDeath` (`AnsweredNotDead`).
`IInv` adds: the three tables have one entry per call and agree on whether it has
ended, and a walk that ends calls is over calls that have not (`TablesAgree`); a
message or an answer is about a call that was made and, while the call lives, comes
from the thread it went to (`CorrsKnown`); and a thread whose death is announced has
no answer queued behind the announcement and answers no more (`DeathIsLast`), which is
why a death cannot overtake an answer.

### LookupProofs and DispatchProofs

From `LookupAssumption` and `DispatchAssumption`. `RedefinitionScope` (a lemma of
`LookupProofs`) says that installing a method changes what the walk finds only for
klasses that have its holder on their chain, and only for its selector; `Dispatch` needs
it for its caches and `CodeLife` for its dependencies. `DispatchTypeOK` (`TypeOK`),
`LookupCacheCurrent` (`CacheCurrent`), `StampsAreCurrent` (`StampedCasesCurrent`). Beyond the
properties, `IInv` says that no inline cache is stamped with an epoch that has not
come: without it a redefinition could make a wrong entry current.

### CodeLifeProofs

From `LookupAssumption` and `CodeAssumption`. `CodeTypeOK` (`TypeOK`), `KeysAreCurrent`
(`KeysNameCurrentCode`), `InlinedIsCurrent` (`InvalidationComplete`), `SitesAreSafe`
(`SitesLeadToTheirCode`), `ActivationsKeepTheirCode` (`RunningCodeKept`),
`WrongCodeIsAbandoned` (`WrongCodeIsLeft`), and the action properties `KeysSurviveReplacement` (`ReplacementKeepsKey`) and `SendsAreCurrent`
(`CompiledSendsAreCurrent`).

`IInv` is in two parts. `TableOK`, about the code table alone: keys name living code of
their own klass and selector; living code was compiled from what dispatch gives and
depends on no lookup that has changed since; the sites of living code lead to installed code for the site's klass
and selector; the poll is armed while retired code is installed. Each operation on the
table (install, retire, rewrite of a site, flush, sweep, rehash) has a lemma that it
keeps `TableOK`. The second part relates the table to the activations: what runs is
installed and is what the frame says; code that was living when a redefinition made it
wrong is not on top and is redirected below, code that was retired already has the poll
armed; what the caches may hold of the past are methods that existed
(`OutdatedTyped`); a frame entered through an adapter has compiled code waiting for it. The last
one is what a sweep rests on when it runs under an adapter. `SendsAreCurrent` follows
from the two: a site may lead to *retired* code, which was right when it was linked,
but wrong code is never reached from living code.

### SupervisionProofs

From `FleetAssumption`: the supervisors form a tree (one parent each, no cycle: a
supervisor is added to one that exists, and a name is refused the second time), every
child is listed once, and the limits are natural numbers. `SupervisionTypeOK` (`TypeOK`),
`RegistryIsCurrent` (`OwnersAreCurrent`), `WorkersAreOwned` (`NoLeakedWorker`),
`DownSupervisorsAreEmpty` (`DownMeansDown`), `RestartsAreBounded` (`IntensityBounded`).

What makes the registry current is that `startChild:` never finds a worker recorded:
it would forget it. That is a statement about the decision in progress, `TodoOK`: in
`todo`, stops come before starts and a message to the parent last (`Ordered`); no worker
is to be started twice (`StartedOnce`); a pending start is for a running supervisor and
a child that has no worker or whose stop is pending (`StartsOK`); a supervisor that is
not running has children without a worker or whose stop is pending (`DownOK`); and a
supervisor that is to be stopped is deeper in the tree than every supervisor whose
children restart (`StopsBelow`). The last one is the reason the tree must have no
cycle: otherwise a nested stop could take down the very supervisor that is
restarting. Because stops come first, what `StartChildFails` abandons at the cap is
never a stop, and `DownMeansDown` survives it. `IntensityBounded` is about all charges, of
which the code keeps a window: `WindowOK` says that the window is the last of the
charges, and that all others are older than it.

### HeapLemmas and HeapProofs

From `HeapAssumption`: the sizes are natural numbers, cards, segments and the chain skip
are not empty, and every object has a klass field. `HeapTypeOK` (`TypeOK`),
`OldToNewIsRemembered` (`RememberedSet`), `NothingDangles` (`RefsValid`), `NoLocationTwice`
(`NoDoubleVisit`), `PromotionIsGuaranteed` (`GuaranteeHolds`), `SpacesAreParsable`
(`Parsable`), `ChainsLeadToHeaders` (`OffsetsResolve`), and
`CollectionsAreInvisible`: `Heap` implements `ObjectStore` (`ImplementsStore`).

`IInv` has four groups of conjuncts.

* *Layout.* `Tiled` says that the objects of each space follow one another from its
  bottom to its bump pointer and do not overlap. It is what `Parsable` counts, in a form
  that a bump, a copy, a flip and a compaction can be shown to keep.
* *References.* `RefsValid` and `RememberedSet` themselves. Each needs the other: a
  reference that a scavenge overlooks, because its card is clean, dangles after the flip.
* *The scavenge in progress*, `PhaseInv`. `SlotsOK`, `RootsOK` and `CodeOK` say, by the
  position of the scan, which locations have been visited: a visited one holds nothing
  that will be vacated, one not yet visited holds nothing in to-space. The second half is
  `NoDoubleVisit`; the first, once all phases are over, is why nothing dangles when eden
  and from-space are emptied. `BoundaryOK` keeps what is promoted apart from what the
  cards are scanned for, although both may lie on one card; `WindowOK` ties the decision
  to clean a card to what the window has seen; `FrontsOK` keeps the Cheney fronts between
  objects; `FwdOK` sends every forwarded address to a survivor. A promotion that failed
  (`stall`) suspends the first half: the heap is then not used again.
* *Room*, `RoomOK`. While a scavenge runs under the guarantee, the words not yet copied
  fit in what is free of the old generation. Every promotion takes as many words from the
  one as from the other, and a copy to to-space takes from the first only; so the
  reservation of `ensure_promotion_guarantee` is enough in any order of ages and overflows.

`OffsetsResolve` has an invariant of its own on top of `IInv`, `OffsetsOK`: every entry
below the old top is either the distance to the object over the base of its card, or
leads back to a card whose base is in the same object; and no entry above the top is
written, so that a compaction, which clears the table through the old top only, rebuilds
it from an empty one. A chain therefore stays in one object while its cards decrease,
and the last card is the one that holds the distance (`ResolveLeads`).

The refinement needs `StoreInv` beside `IInv`. `IdsOK`: two objects with one identity
look the same to the program, slot by slot, and one of them is forwarded; so a program
that stores into an object, which it does only between collections, stores into the one
object with that identity. `FwdIds`: forwarding keeps the identity. `KlassOK`: the klass
handle of a pending allocation names nothing that a stack slot does not, so that what
only the handle reaches is not visible. `ReqOK`: the allocation in progress has a size
and a destination. The central lemma is `StoreNow`: the visible store is the same for
*every* graph of identities that agrees with the reachable objects. For a step of a
collection, the graph of all objects before the step serves before and after
(`Invisible`): no collection makes an object that did not exist, or changes what one
looks like. For a step of the program, the graph is the store before it with the one
field, root or object changed (`StoreStep`).

`HeapLemmas` holds what this rests on: which card a word is on and which cards a range
covers, in division by any card size; tilings, and that a bump extends one (`BumpTiled`);
that the iteration of `Reach` as many times as there are objects is closed under
references (`ReachClosed`, by counting: a round that adds nothing is the last) and finds
nothing else (`ReachLeast`); and that
sliding each space's survivors down by the number of live words below them is injective,
keeps the order and gives a tiling again (`CompactTiled`). In `HeapProofs` the visit of a
location is treated once (`CopyStep`, `NoCopyStep`, `SlotsAfter`), for the four kinds of
location it is called on.

### Checked by TLC only

* Liveness (`EventuallyDrained`, `CrashIsHandled`, `CollectionEnds`, `AllSettle`): it needs fairness and
  `ENABLED`.
* `StallOnlyUnmet` and the other properties of the runs that expect a violation.

## 5. Plan

To model, in order of what it would show next:

1. Non-local return and unwinding across tiers: the sentinel that passes through
   redirected returns and adapters.
2. `FullGC`: the phases one by one, refining the single step of `Heap`, with the weak
   sweep of nmethods whose klass died.
3. Super sends in `CodeLife`: nmethods that do not own their key.
4. The primary watchdog and the window callbacks: stall detection, flag and drain.

To prove: the refinement of `Heap`'s full collection by its phases, once they are modelled.

## 6. Not modelled

* Weak memory: see `InboxWake` above.
* Oop maps and the walk over compiled frames: the models scan a set of code-side
  slots and assume that the maps name exactly these.
* In `Dispatch` and `CodeLife`: super sends, blocks and their compiles, non-local
  return, messages not understood by compiled senders, the instruction loop,
  `MACVM_DEOPT_STRESS`, the death of klasses, the
  allocator of the code cache, single instructions of stubs, and how a frame is
  rebuilt from debug information.
* In `ServiceCalls`: a beat run from inside a callback.
* The primary watchdog of the Cocoa host, and window-message callbacks.
* Front end, code generation, pickling, embedding API: sequential or pure code,
  tested by differential and round-trip tests; semantic preservation of the compiler
  is out of a model checker's reach. Most of the repository's lines are of this kind,
  which is why the models cover a small share of them.
* FFI, windowing, audio, persistence: I/O.
* The vendored back end and Tcl: third-party code.
