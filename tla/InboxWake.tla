------------------------------ MODULE InboxWake ------------------------------
(***************************************************************************)
(* The inbox of a VM and its coalesced wake (runtime/workers.rs): any       *)
(* number of threads push envelopes and fire a wake hook at most once per   *)
(* arming of the flag; the host thread parks until the hook has queued a    *)
(* request, then drains.  The same protocol serves the primary's inbox      *)
(* (InboxSender / WorkerState::poll) and a hosted worker's (HostedInbox).   *)
(*                                                                          *)
(* Each access to the shared flag, the channel and the hook is one step.    *)
(* The flag and the channel are taken to be sequentially consistent: the    *)
(* receive of the standard library's channel fences between poll's store of *)
(* the flag and its read of the queue.                                      *)
(***************************************************************************)
EXTENDS Integers, Sequences

CONSTANTS
    Senders,        \* worker threads (and the bridge) holding an InboxSender
    Host,           \* the host thread, which also sends: death notices
    MaxSends        \* bound on the envelopes each thread sends

ASSUME InboxAssumption ==
    /\ Host \notin Senders
    /\ MaxSends \in Nat

Threads == Senders \cup {Host}

VARIABLES
    inbox,      \* the channel: a queue of envelopes, named by their sender
    flag,       \* wake_pending
    hook,       \* a wake hook is installed: a GUI, else a headless loop
    pokes,      \* VmRequest::WorkerInbox requests queued by the hook
    pc,         \* where each thread is in InboxSender::send
    sent,       \* envelopes each thread has sent
    host,       \* what the host thread is doing
    aborted     \* the last drain ended in a guest error

vars == <<inbox, flag, hook, pokes, pc, sent, host, aborted>>

Init ==
    /\ inbox = <<>> /\ flag = FALSE /\ hook = FALSE /\ pokes = 0
    /\ pc = [t \in Threads |-> "idle"]
    /\ sent = [t \in Threads |-> 0]
    /\ host = "boot" /\ aborted = FALSE

-----------------------------------------------------------------------------
(* InboxSender::send.  The host sends only while it runs a program; the    *)
(* other threads are spawned by programs, so after the boot. *)

(* Mutant: a sender exists before the embedder has set the hook. *)
MaySendEarly(t) == t = Host => host \in {"job", "handler"}

MaySend(t) == IF t = Host THEN host \in {"job", "handler"} ELSE host # "boot"

Push(t) ==
    /\ pc[t] = "idle" /\ MaySend(t) /\ sent[t] < MaxSends
    /\ sent' = [sent EXCEPT ![t] = @ + 1]
    /\ \/ /\ host # "gone"
          /\ inbox' = Append(inbox, t)
          /\ pc' = [pc EXCEPT ![t] = "pushed"]
       \/ /\ host = "gone"              \* InboxClosed: nothing is queued
          /\ UNCHANGED <<inbox, pc>>
    /\ UNCHANGED <<flag, hook, pokes, host, aborted>>

(* wake_pending.swap(true): only the thread that armed it fires the hook. *)
Swap(t) ==
    /\ pc[t] = "pushed"
    /\ flag' = TRUE
    /\ pc' = [pc EXCEPT ![t] = IF flag THEN "idle" ELSE "won"]
    /\ UNCHANGED <<inbox, hook, pokes, sent, host, aborted>>

(* The hook is cloned under its lock, and called after the unlock. *)
TakeHook(t) ==
    /\ pc[t] = "won"
    /\ pc' = [pc EXCEPT ![t] = IF hook THEN "calling" ELSE "idle"]
    /\ UNCHANGED <<inbox, flag, hook, pokes, sent, host, aborted>>

CallHook(t) ==
    /\ pc[t] = "calling"
    /\ pokes' = pokes + 1
    /\ pc' = [pc EXCEPT ![t] = "idle"]
    /\ UNCHANGED <<inbox, flag, hook, sent, host, aborted>>

Send(t) == Push(t) \/ Swap(t) \/ TakeHook(t) \/ CallHook(t)

-----------------------------------------------------------------------------
(* The host thread. *)

hostIdle == pc[Host] = "idle"

(* set_worker_boot, then (in a GUI) set_inbox_wake, before the request loop *)
(* starts; a headless primary has no hook. *)
Boot ==
    /\ host = "boot"
    /\ hook' \in BOOLEAN
    /\ host' = "parked"
    /\ UNCHANGED <<inbox, flag, pokes, pc, sent, aborted>>

(* Mutant: a spurious wake is not distinguished from a queued request. *)
TakePokeSpurious ==
    /\ host = "parked"
    /\ pokes' = pokes - 1
    /\ host' = "poll"
    /\ UNCHANGED <<inbox, flag, hook, pc, sent, aborted>>

(* The request loop takes a WorkerInbox request: Worker dispatchInbox. *)
TakePoke ==
    /\ host = "parked" /\ pokes > 0
    /\ pokes' = pokes - 1
    /\ host' = "poll"
    /\ UNCHANGED <<inbox, flag, hook, pc, sent, aborted>>

(* Any other request: a program runs, may send, and ends. *)
StartJob ==
    /\ host = "parked"
    /\ host' = "job"
    /\ UNCHANGED <<inbox, flag, hook, pokes, pc, sent, aborted>>

EndJob ==
    /\ host = "job" /\ hostIdle
    /\ host' = "parked"
    /\ UNCHANGED <<inbox, flag, hook, pokes, pc, sent, aborted>>

(* Mutant: the drain does not clear the flag. *)
ClearNothing ==
    /\ host = "poll"
    /\ host' = "recv"
    /\ aborted' = FALSE
    /\ UNCHANGED <<inbox, flag, hook, pokes, pc, sent>>

(* poll: the flag is cleared first ... *)
Clear ==
    /\ host = "poll"
    /\ flag' = FALSE /\ aborted' = FALSE
    /\ host' = "recv"
    /\ UNCHANGED <<inbox, hook, pokes, pc, sent>>

(* ... then the next envelope is taken; an empty queue ends the drain. *)
TryRecv ==
    /\ host = "recv"
    /\ \/ /\ inbox # <<>>
          /\ inbox' = Tail(inbox) /\ host' = "handler"
       \/ /\ inbox = <<>>
          /\ host' = "parked"
          /\ UNCHANGED inbox
    /\ UNCHANGED <<flag, hook, pokes, pc, sent, aborted>>

(* dispatchOne: ends, and the drain polls again. *)
HandlerReturns ==
    /\ host = "handler" /\ hostIdle
    /\ host' = "poll"
    /\ UNCHANGED <<inbox, flag, hook, pokes, pc, sent, aborted>>

(* ... or fails: the error unwinds out of dispatchInbox, the request loop  *)
(* reports it and goes on to its next request. *)
HandlerFails ==
    /\ host = "handler" /\ hostIdle
    /\ host' = "parked" /\ aborted' = TRUE
    /\ UNCHANGED <<inbox, flag, hook, pokes, pc, sent>>

(* pumpInbox: await_inbox clears the flag and sleeps in the channel itself. *)
StartAwait ==
    /\ host = "parked"
    /\ flag' = FALSE /\ aborted' = FALSE
    /\ host' = "await"
    /\ UNCHANGED <<inbox, hook, pokes, pc, sent>>

AwaitReturns ==
    /\ host = "await"
    /\ \/ /\ inbox # <<>>
          /\ inbox' = Tail(inbox) /\ host' = "handler"
       \/ /\ inbox = <<>>                \* the timeout
          /\ host' = "parked"
          /\ UNCHANGED inbox
    /\ UNCHANGED <<flag, hook, pokes, pc, sent, aborted>>

(* The VM goes away, and its receiver with it. *)
Exit ==
    /\ host = "parked"
    /\ host' = "gone"
    /\ UNCHANGED <<inbox, flag, hook, pokes, pc, sent, aborted>>

HostStep ==
    \/ Boot \/ TakePoke \/ StartJob \/ EndJob \/ Clear \/ TryRecv
    \/ HandlerReturns \/ HandlerFails \/ StartAwait \/ AwaitReturns \/ Exit

Next == HostStep \/ \E t \in Threads : Send(t)

Spec == Init /\ [][Next]_vars

-----------------------------------------------------------------------------
(* Every thread that is inside send, and the host inside a drain, goes on;  *)
(* requests are served in order, so a queued poke is reached in the end; a  *)
(* headless host runs pumpInbox over and over.  The host need not stop: a   *)
(* drain ends, but no fairness says that a program starts or that VM exits. *)
Fairness ==
    /\ \A t \in Threads : WF_vars(Swap(t) \/ TakeHook(t) \/ CallHook(t))
    /\ WF_vars(Boot) /\ WF_vars(EndJob) /\ WF_vars(Clear) /\ WF_vars(TryRecv)
    /\ WF_vars(HandlerReturns) /\ WF_vars(AwaitReturns)
    /\ SF_vars(TakePoke)
    /\ SF_vars(~hook /\ StartAwait)

FairSpec == Spec /\ Fairness

-----------------------------------------------------------------------------
(* The types of the state. *)
TypeOK ==
    /\ inbox \in Seq(Threads)
    /\ flag \in BOOLEAN /\ hook \in BOOLEAN /\ aborted \in BOOLEAN
    /\ pokes \in Nat
    /\ pc \in [Threads -> {"idle", "pushed", "won", "calling"}]
    /\ sent \in [Threads -> Nat]
    /\ host \in {"boot", "parked", "job", "poll", "recv", "handler", "await", "gone"}

(* A thread is inside send, between queueing its envelope and the poke.     *)
Sending == \E t \in Threads : pc[t] # "idle"

(* Resting: the host is parked on its request queue, or busy with a program *)
(* that will not look at the inbox. *)
Resting == host \in {"parked", "job"}

(* While the host rests with envelopes queued, something still in motion    *)
(* will bring it back to the inbox: a queued poke, or a sender that has not *)
(* yet reached its swap or its hook.  The exception is a drain that a guest *)
(* error cut short.                                                         *)
NoLostWakeup ==
    hook /\ Resting /\ inbox # <<>> /\ ~aborted => pokes > 0 \/ Sending

(* The documented claim, without that exception: never a lost wakeup.       *)
NeverLostWakeup ==
    hook /\ Resting /\ inbox # <<>> => pokes > 0 \/ Sending

(* The armed flag is never orphaned: whenever it would make a sender skip   *)
(* the hook, the poke it stands for is queued or about to be, or the host   *)
(* is on its way to clear it.  An orphaned flag would silence every later   *)
(* sender, a guest error in a drain included.                               *)
ArmedFlagIsLive ==
    hook /\ flag =>
        \/ pokes > 0 \/ host = "poll"
        \/ \E t \in Threads : pc[t] \in {"won", "calling"}

(* Queued envelopes are drained in the end, with a hook or without, unless  *)
(* a guest error cuts a drain short or the VM goes away.                    *)
EventuallyDrained == inbox # <<>> ~> (inbox = <<>> \/ aborted \/ host = "gone")
=============================================================================
