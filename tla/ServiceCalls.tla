---------------------------- MODULE ServiceCalls ----------------------------
(***************************************************************************)
(* Deadline-bounded service calls: ServiceWorker of                        *)
(* world/74_supervisor.mst over the inbox dispatch of world/47_worker.mst  *)
(* and the worker registry of src/runtime/workers.rs.                      *)
(*                                                                         *)
(* A call ends by its reply, by its deadline or by its worker's death, and *)
(* each ending has to retire the others.  The primary runs pumpInbox: over *)
(* and over; between its beats, and inside the blocks it calls back, guest *)
(* code issues calls.  A block that raises ends the beat.  Worker threads  *)
(* serve, answer, fail and exit on their own.                              *)
(*                                                                         *)
(* Starting, binding and terminating named workers is the supervisors'     *)
(* business (module Supervision) and may happen at any time here.  A beat  *)
(* is not run from inside a callback.  PendingReplies of other senders and *)
(* the other envelope shapes are left out: they touch none of this state.  *)
(***************************************************************************)
EXTENDS Naturals, Sequences, SequencesExt, FiniteSets

CONSTANTS
    Names,          \* service names
    MaxWorkers,     \* MAX_WORKERS
    Timeouts,       \* the timeoutMs: arguments, in clock ticks
    MaxSpawns,      \* bound: worker threads of a behaviour
    MaxCalls,       \* bound: calls of a behaviour
    MaxNow          \* bound: the clock

Slots == 1..MaxWorkers
Threads == 1..MaxSpawns
Calls == 1..MaxCalls

ASSUME ServiceAssumption ==
    /\ MaxWorkers \in Nat /\ MaxSpawns \in Nat /\ MaxCalls \in Nat /\ MaxNow \in Nat
    /\ Timeouts \subseteq Nat

VARIABLES
    bound,      \* WorkerNames Table: name -> slot or 0
    links,      \* WorkerLink: slot -> [alive, thread]
    threads,    \* thread -> [st, id, q]: q is the corrs queued in its channel
    inbox,      \* the primary's inbox
    replies,    \* PendingReplies: corr -> whether its continuation is registered
    deadlines,  \* Deadlines: corr -> [peer, due, thread] or None; thread is history
    now,        \* SupervisionClock now
    pc,         \* "idle": between envelopes or beats; "visit"; "callback"
    visit,      \* the keysAndValuesDo: in progress
    ended       \* history: corr -> how often onReply: or onError: has run

fleet == <<bound, links, threads>>
tables == <<replies, deadlines, ended>>
vars == <<fleet, inbox, tables, now, pc, visit>>

None == [peer |-> 0]
Live == {c \in DOMAIN deadlines : deadlines[c] # None}

NoVisit == [why |-> "none", id |-> 0, thread |-> 0, todo |-> {}]
Died(id, t) == [kind |-> "died", peer |-> id, corr |-> 0, thread |-> t]
Reply(id, c, t) == [kind |-> "reply", peer |-> id, corr |-> c, thread |-> t]

Init ==
    /\ bound = [n \in Names |-> 0]
    /\ links = [i \in Slots |-> [alive |-> FALSE, thread |-> 0]]
    /\ threads = [t \in Threads |-> [st |-> "none", id |-> 0, q |-> <<>>]]
    /\ inbox = <<>>
    /\ replies = <<>> /\ deadlines = <<>> /\ ended = <<>>
    /\ now = 0
    /\ pc = "idle" /\ visit = NoVisit

-----------------------------------------------------------------------------
(***************************************************************************)
(* Worker threads                                                          *)
(***************************************************************************)

Connected(t) == links[threads[t].id].alive /\ links[threads[t].id].thread = t

Post(env) == inbox' = Append(inbox, env)

(* One message: answered (a value and an {#rpcError. why} alike), or left  *)
(* without an answer.                                                      *)
DispatchPending(t) ==
    /\ threads[t].st = "serving" /\ threads[t].q # <<>>
    /\ threads' = [threads EXCEPT ![t].q = Tail(@)]
    /\ \/ Post(Reply(threads[t].id, Head(threads[t].q), t))
       \/ UNCHANGED inbox
    /\ UNCHANGED <<bound, links, tables, now, pc, visit>>

(* Boot, init source or dispatch failed: the notice is posted, then the    *)
(* thread unwinds and its receiver goes.                                   *)
Fails(t) ==
    /\ threads[t].st = "boot" \/ (threads[t].st = "serving" /\ threads[t].q # <<>>)
    /\ threads' = [threads EXCEPT ![t].st = "dying"]
    /\ Post(Died(threads[t].id, t))
    /\ UNCHANGED <<bound, links, tables, now, pc, visit>>

Booted(t) ==
    /\ threads[t].st = "boot"
    /\ threads' = [threads EXCEPT ![t].st = "serving"]
    /\ UNCHANGED <<bound, links, inbox, tables, now, pc, visit>>

(* The receiver is dropped: after a failure, or when the channel is empty  *)
(* and disconnected.                                                       *)
Gone(t) ==
    /\ \/ threads[t].st = "dying"
       \/ threads[t].st = "serving" /\ threads[t].q = <<>> /\ ~Connected(t)
    /\ threads' = [threads EXCEPT ![t] = [st |-> "gone", id |-> 0, q |-> <<>>]]
    /\ UNCHANGED <<bound, links, inbox, tables, now, pc, visit>>

-----------------------------------------------------------------------------
(***************************************************************************)
(* Guest code on the primary                                               *)
(***************************************************************************)

GuestRuns == pc \in {"idle", "callback"}

(* spawn in the first slot whose link is not alive, and bind. *)
Spawn(n) ==
    /\ GuestRuns /\ bound[n] = 0
    /\ \E t \in Threads, i \in Slots :
          /\ threads[t].st = "none" /\ \A u \in Threads : u < t => threads[u].st # "none"
          /\ ~links[i].alive /\ \A j \in Slots : j < i => links[j].alive
          /\ threads' = [threads EXCEPT ![t] = [st |-> "boot", id |-> i, q |-> <<>>]]
          /\ links' = [links EXCEPT ![i] = [alive |-> TRUE, thread |-> t]]
          /\ bound' = [bound EXCEPT ![n] = i]
    /\ UNCHANGED <<inbox, tables, now, pc, visit>>

(* terminate and unbind. *)
Terminate(n) ==
    /\ GuestRuns /\ bound[n] # 0
    /\ links' = [links EXCEPT ![bound[n]].alive = FALSE]
    /\ bound' = [bound EXCEPT ![n] = 0]
    /\ UNCHANGED <<threads, inbox, tables, now, pc, visit>>

(* Mutant: the walk an error left behind is not forgotten. *)
UnwoundMidWalk == pc' = "idle" /\ UNCHANGED visit

(* What an uncaught error does to the beat it happens in. *)
Unwound == pc' = "idle" /\ visit' = NoVisit

(* The walk of keysAndValuesDo: when a block it calls adds call c to peer  *)
(* i: the new entry may lie ahead, and growing the table moves the others. *)
WalkAfterInsert(c, i) ==
    LET new == IF visit.why = "died" /\ visit.id = i THEN {c} ELSE {}
    IN  {[visit EXCEPT !.todo = T] : T \in SUBSET (visit.todo \cup new)}

(* call:timeoutMs:onReply:onError: on a name that resolves to a worker     *)
(* believed alive (otherwise onError: runs at once and nothing is kept).   *)
(* Continuation and deadline are in place before the send, which raises    *)
(* when the payload cannot be pickled or the receiver is gone.             *)
Call(n, ms) ==
    LET i == bound[n]
        t == links[i].thread
        c == Len(deadlines) + 1
    IN  /\ GuestRuns /\ i # 0 /\ links[i].alive
        /\ c \in Calls /\ now + ms < MaxNow
        /\ replies' = Append(replies, TRUE)
        /\ deadlines' = Append(deadlines, [peer |-> i, due |-> now + ms, thread |-> t])
        /\ ended' = Append(ended, 0)
        /\ \/ /\ threads[t].st # "gone"
              /\ threads' = [threads EXCEPT ![t].q = Append(@, c)]
              /\ visit' \in WalkAfterInsert(c, i)
              /\ UNCHANGED <<links, inbox, pc>>
           \/ /\ Unwound
              /\ UNCHANGED <<links, threads, inbox>>
           \/ /\ threads[t].st = "gone"
              /\ links' = [links EXCEPT ![i].alive = FALSE]
              /\ Post(Died(i, t))
              /\ Unwound
              /\ UNCHANGED threads
        /\ UNCHANGED <<bound, now>>

(* On with a walk, or out of it when nothing is left to visit. *)
Walk(v) ==
    \/ v.todo # {} /\ pc' = "visit" /\ visit' = v
    \/ v.todo = {} /\ pc' = "idle" /\ visit' = NoVisit

(* The onReply: or onError: block returns to the loop that called it, or   *)
(* raises through it.                                                      *)
CallbackReturns ==
    /\ pc = "callback"
    /\ Walk(visit)
    /\ UNCHANGED <<fleet, inbox, tables, now>>

CallbackRaises ==
    /\ pc = "callback"
    /\ Unwound
    /\ UNCHANGED <<fleet, inbox, tables, now>>

-----------------------------------------------------------------------------
(***************************************************************************)
(* The primary's beat                                                      *)
(***************************************************************************)

(* Mutant: the continuation stays registered. *)
RetiredDeadlineOnly(c) ==
    /\ deadlines' = [deadlines EXCEPT ![c] = None]
    /\ UNCHANGED replies

(* Mutant: the deadline is not cancelled. *)
RetiredReplyOnly(c) ==
    /\ replies' = [replies EXCEPT ![c] = FALSE]
    /\ UNCHANGED deadlines

(* Both tables' entries are tombstoned, and the caller's block runs. *)
Retired(c) ==
    /\ replies' = [replies EXCEPT ![c] = FALSE]
    /\ deadlines' = [deadlines EXCEPT ![c] = None]
Ends(c) ==
    /\ ended' = [ended EXCEPT ![c] = @ + 1]
    /\ pc' = "callback"

(* dispatchOne: on a reply.  The continuation is retired first, and        *)
(* cancels the deadline before the caller's block runs.                    *)
DispatchReply(env) ==
    /\ env.kind = "reply"
    /\ \/ replies[env.corr] /\ Retired(env.corr) /\ Ends(env.corr)
       \/ ~replies[env.corr] /\ UNCHANGED <<tables, pc>>
    /\ UNCHANGED visit

(* dispatchOne: on #workerDied: failPendingCallsTo: walks the entries of   *)
(* the dead worker.                                                        *)
DispatchDied(env) ==
    /\ env.kind = "died"
    /\ Walk([why |-> "died", id |-> env.peer, thread |-> env.thread,
             todo |-> {c \in Live : deadlines[c].peer = env.peer}])
    /\ UNCHANGED tables

(* Mutant: control envelopes overtake replies. *)
NextControlFirst ==
    LET ctl == {i \in DOMAIN inbox : inbox[i].kind = "died"}
    IN  IF ctl = {} THEN 1 ELSE CHOOSE i \in ctl : \A j \in ctl : i <= j

(* Envelopes leave the inbox in the order they were posted. *)
NextEnvelope == 1

(* primAwaitInbox: or primPoll answers an envelope. *)
Dispatch ==
    /\ pc = "idle" /\ inbox # <<>>
    /\ inbox' = RemoveAt(inbox, NextEnvelope)
    /\ DispatchReply(inbox[NextEnvelope]) \/ DispatchDied(inbox[NextEnvelope])
    /\ UNCHANGED <<fleet, now>>

Expired(c) == deadlines[c].due < now

(* Mutant: an idle beat does not sweep. *)
SweepAfterMail ==
    /\ pc = "idle" /\ inbox # <<>>
    /\ Walk([why |-> "timeout", id |-> 0, thread |-> 0,
             todo |-> {c \in Live : Expired(c)}])
    /\ UNCHANGED <<fleet, inbox, tables, now>>

(* Nothing (more) in the inbox: sweepDeadlines, on every beat. *)
Sweep ==
    /\ pc = "idle" /\ inbox = <<>>
    /\ Walk([why |-> "timeout", id |-> 0, thread |-> 0,
             todo |-> {c \in Live : Expired(c)}])
    /\ UNCHANGED <<fleet, inbox, tables, now>>

(* One entry of either walk, in any order: retired, then its block runs. *)
Visit ==
    /\ pc = "visit"
    /\ \E c \in visit.todo :
          /\ visit' = [visit EXCEPT !.todo = @ \ {c}]
          /\ Retired(c) /\ Ends(c)
    /\ UNCHANGED <<fleet, inbox, now>>

Tick ==
    /\ now < MaxNow
    /\ now' = now + 1
    /\ UNCHANGED <<fleet, inbox, tables, pc, visit>>

Beat == CallbackReturns \/ CallbackRaises \/ Dispatch \/ Sweep \/ Visit

Next ==
    \/ Beat \/ Tick
    \/ \E t \in Threads : DispatchPending(t) \/ Fails(t) \/ Booted(t) \/ Gone(t)
    \/ \E n \in Names : Spawn(n) \/ Terminate(n) \/ (\E ms \in Timeouts : Call(n, ms))

(* The host's loop runs beat after beat and blocks come back (or raise);   *)
(* time passes.  Nothing is assumed of the workers.                        *)
Spec == Init /\ [][Next]_vars /\ WF_vars(Beat) /\ WF_vars(Tick)

-----------------------------------------------------------------------------
(***************************************************************************)
(* Properties                                                              *)
(***************************************************************************)

(* The types of the state.                                                 *)
TypeOK ==
    /\ bound \in [Names -> Slots \cup {0}]
    /\ links \in [Slots -> [alive : BOOLEAN, thread : Threads \cup {0}]]
    /\ \A t \in Threads :
          /\ threads[t].st \in {"none", "boot", "serving", "dying", "gone"}
          /\ threads[t].st \in {"boot", "serving", "dying"} => threads[t].id \in Slots
    /\ \A c \in Live : deadlines[c] \in [peer : Slots, due : 0..MaxNow, thread : Threads]
    /\ Len(replies) = Len(deadlines) /\ Len(ended) = Len(deadlines)
    /\ visit.todo \subseteq Live
    /\ pc \in {"idle", "visit", "callback"}
    /\ now \in 0..MaxNow

(***************************************************************************)
(* "Every call ends in exactly one of onReply:/onError: firing exactly     *)
(* once": never twice, whatever reply, deadline and death notices race,    *)
(* and whatever the blocks do in between (call:timeoutMs:onReply:onError:).*)
(***************************************************************************)
EndsOnce == \A c \in DOMAIN ended : ended[c] <= 1

(***************************************************************************)
(* Continuations and deadlines are live for exactly the calls that have    *)
(* not ended: nothing lingers, nothing is forgotten, and the two tables    *)
(* agree (retireReplyFromPeer:, cancelDeadline:).                          *)
(***************************************************************************)
LiveIsUnsettled ==
    \A c \in DOMAIN ended :
        /\ replies[c] <=> ended[c] = 0
        /\ c \in Live <=> ended[c] = 0

(***************************************************************************)
(* A call its worker answered is not reported dead by that worker's own    *)
(* death: the answer was posted first and is dispatched first.             *)
(***************************************************************************)
AnsweredNotDead ==
    [][\A c \in Live :
          (ended'[c] # ended[c] /\ visit.why = "died"
              /\ visit.thread = deadlines[c].thread) =>
          \A i \in DOMAIN inbox : ~(inbox[i].kind = "reply" /\ inbox[i].corr = c)]_vars

(***************************************************************************)
(* "Never silence": every call ends while the host keeps beating, even if  *)
(* its message was lost with the worker, its send raised or a block ended  *)
(* the beat that should have ended it.  (An ending is for good, so this    *)
(* says that each call issued gets its own.)                               *)
(***************************************************************************)
AllSettle == []<>(\A c \in DOMAIN ended : ended[c] > 0)
=============================================================================
