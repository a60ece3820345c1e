--------------------------- MODULE InboxWakeProofs ---------------------------
(***************************************************************************)
(* The wake protocol never loses a wakeup, for any set of senders and any   *)
(* number of sends.  The argument: an armed flag always stands for a poke   *)
(* that is queued or on its way (ArmedFlagIsLive); a disarmed one, with     *)
(* envelopes queued and the host at rest, means that some sender has pushed *)
(* and not yet swapped (DisarmedMeansPushed).                               *)
(***************************************************************************)
EXTENDS InboxWake, SequenceTheorems, TLAPS

(* Before the hook is set nothing has been sent. *)
BootIsQuiet ==
    host = "boot" => /\ inbox = <<>> /\ flag = FALSE
                     /\ \A t \in Threads : pc[t] = "idle"

(* The half of NoLostWakeup that the flag does not answer for. *)
DisarmedMeansPushed ==
    hook /\ Resting /\ inbox # <<>> /\ ~aborted /\ ~flag =>
        \E t \in Threads : pc[t] = "pushed"

IInv == TypeOK /\ BootIsQuiet /\ ArmedFlagIsLive /\ DisarmedMeansPushed

LEMMA InitIInv == Init => IInv
  <1> SUFFICES ASSUME Init PROVE IInv
    OBVIOUS
  <1>1. TypeOK
    <2>1. inbox \in Seq(Threads)
      BY EmptySeq DEF Init
    <2> QED BY <2>1 DEF Init, TypeOK
  <1>2. BootIsQuiet
    BY DEF Init, BootIsQuiet
  <1>3. ArmedFlagIsLive /\ DisarmedMeansPushed
    BY DEF Init, ArmedFlagIsLive, DisarmedMeansPushed
  <1> QED BY <1>1, <1>2, <1>3 DEF IInv

(* Each step keeps the types. *)
LEMMA NextTypeOK == TypeOK /\ [Next]_vars => TypeOK'
  <1> SUFFICES ASSUME TypeOK, [Next]_vars PROVE TypeOK'
    OBVIOUS
  <1> USE DEF TypeOK
  <1>1. ASSUME NEW t \in Threads, Send(t) PROVE TypeOK'
    <2>1. CASE Push(t)
      <3>1. inbox' \in Seq(Threads)
        <4>1. inbox' = Append(inbox, t) \/ inbox' = inbox
          BY <2>1 DEF Push
        <4>2. ASSUME NEW q \in Seq(Threads) PROVE Append(q, t) \in Seq(Threads)
          BY AppendProperties
        <4> QED BY <4>1, <4>2, Zenon DEF TypeOK
      <3>2. pc' \in [Threads -> {"idle", "pushed", "won", "calling"}]
        BY <2>1 DEF Push
      <3>3. sent' \in [Threads -> Nat]
        BY <2>1 DEF Push
      <3> QED BY <2>1, <3>1, <3>2, <3>3 DEF Push
    <2>2. CASE Swap(t)
      BY <2>2 DEF Swap
    <2>3. CASE TakeHook(t)
      BY <2>3 DEF TakeHook
    <2>4. CASE CallHook(t)
      BY <2>4 DEF CallHook
    <2> QED BY <1>1, <2>1, <2>2, <2>3, <2>4 DEF Send
  <1>2. CASE Boot
    BY <1>2 DEF Boot
  <1>3. CASE TakePoke
    BY <1>3 DEF TakePoke
  <1>4. CASE StartJob \/ EndJob \/ HandlerReturns \/ HandlerFails \/ Exit
    BY <1>4 DEF StartJob, EndJob, HandlerReturns, HandlerFails, Exit
  <1>5. CASE Clear \/ StartAwait
    BY <1>5 DEF Clear, StartAwait
  <1>6. CASE TryRecv \/ AwaitReturns
    <2>1. ASSUME NEW q \in Seq(Threads), q # <<>> PROVE Tail(q) \in Seq(Threads)
      BY <2>1, HeadTailProperties
    <2>2. inbox' = inbox \/ (inbox # <<>> /\ inbox' = Tail(inbox))
      BY <1>6 DEF TryRecv, AwaitReturns
    <2>3. inbox' \in Seq(Threads)
      BY <2>1, <2>2, Zenon
    <2> QED BY <1>6, <2>3 DEF TryRecv, AwaitReturns
  <1>7. CASE UNCHANGED vars
    BY <1>7 DEF vars
  <1> QED BY <1>1, <1>2, <1>3, <1>4, <1>5, <1>6, <1>7 DEF Next, HostStep

(* Nothing is sent before the boot is over. *)
LEMMA NextBoot == IInv /\ [Next]_vars => BootIsQuiet'
  <1> SUFFICES ASSUME IInv, [Next]_vars PROVE BootIsQuiet'
    OBVIOUS
  <1> USE DEF IInv, BootIsQuiet
  <1>1. ASSUME NEW t \in Threads, Send(t) PROVE BootIsQuiet'
    BY <1>1 DEF Send, Push, Swap, TakeHook, CallHook, MaySend
  <1>2. CASE HostStep
    BY <1>2 DEF HostStep, Boot, TakePoke, StartJob, EndJob, Clear, TryRecv,
                HandlerReturns, HandlerFails, StartAwait, AwaitReturns, Exit
  <1>3. CASE UNCHANGED vars
    BY <1>3 DEF vars
  <1> QED BY <1>1, <1>2, <1>3 DEF Next

(* No step leaves the flag armed with its poke gone. *)
LEMMA NextArmed == IInv /\ [Next]_vars => ArmedFlagIsLive'
  <1> SUFFICES ASSUME IInv, [Next]_vars PROVE ArmedFlagIsLive'
    OBVIOUS
  <1> USE DEF IInv, ArmedFlagIsLive
  <1>1. ASSUME NEW t \in Threads, Send(t) PROVE ArmedFlagIsLive'
    <2>1. CASE Push(t)
      BY <2>1 DEF Push, TypeOK
    <2>2. CASE Swap(t)
      BY <2>2 DEF Swap, TypeOK
    <2>3. CASE TakeHook(t)
      BY <2>3 DEF TakeHook, TypeOK
    <2>4. CASE CallHook(t)
      BY <2>4 DEF CallHook, TypeOK
    <2> QED BY <1>1, <2>1, <2>2, <2>3, <2>4 DEF Send
  <1>2. CASE Boot
    BY <1>2 DEF Boot, BootIsQuiet
  <1>3. CASE TakePoke
    BY <1>3 DEF TakePoke
  <1>4. CASE StartJob \/ EndJob \/ HandlerReturns \/ HandlerFails \/ Exit
    BY <1>4 DEF StartJob, EndJob, HandlerReturns, HandlerFails, Exit
  <1>5. CASE Clear \/ StartAwait
    BY <1>5 DEF Clear, StartAwait
  <1>6. CASE TryRecv \/ AwaitReturns
    BY <1>6 DEF TryRecv, AwaitReturns
  <1>7. CASE UNCHANGED vars
    BY <1>7 DEF vars
  <1> QED BY <1>1, <1>2, <1>3, <1>4, <1>5, <1>6, <1>7 DEF Next, HostStep

(* No step brings the host to rest with unannounced envelopes. *)
LEMMA NextDisarmed == IInv /\ [Next]_vars => DisarmedMeansPushed'
  <1> SUFFICES ASSUME IInv, [Next]_vars PROVE DisarmedMeansPushed'
    OBVIOUS
  <1> USE DEF IInv, DisarmedMeansPushed, Resting
  <1>1. ASSUME NEW t \in Threads, Send(t) PROVE DisarmedMeansPushed'
    <2>1. CASE Push(t)
      BY <2>1 DEF Push, TypeOK
    <2>2. CASE Swap(t)
      BY <2>2 DEF Swap
    <2>3. CASE TakeHook(t)
      BY <2>3 DEF TakeHook, TypeOK
    <2>4. CASE CallHook(t)
      BY <2>4 DEF CallHook, TypeOK
    <2> QED BY <1>1, <2>1, <2>2, <2>3, <2>4 DEF Send
  <1>2. CASE Boot
    BY <1>2 DEF Boot, BootIsQuiet
  <1>3. CASE TakePoke \/ Clear \/ StartAwait \/ HandlerReturns \/ HandlerFails \/ Exit
    BY <1>3 DEF TakePoke, Clear, StartAwait, HandlerReturns, HandlerFails, Exit
  <1>4. CASE StartJob \/ EndJob
    BY <1>4 DEF StartJob, EndJob
  <1>5. CASE TryRecv \/ AwaitReturns
    BY <1>5 DEF TryRecv, AwaitReturns
  <1>6. CASE UNCHANGED vars
    BY <1>6 DEF vars
  <1> QED BY <1>1, <1>2, <1>3, <1>4, <1>5, <1>6 DEF Next, HostStep

(* The inductive invariant holds throughout: it is what the three theorems  *)
(* below are read off from.                                                 *)
THEOREM Inductive == Spec => []IInv
  <1>1. IInv /\ [Next]_vars => IInv'
    BY NextTypeOK, NextBoot, NextArmed, NextDisarmed DEF IInv
  <1> QED BY InitIInv, <1>1, PTL DEF Spec

(* The state of the inbox protocol keeps its types. *)
THEOREM Typed == Spec => []TypeOK
  <1>1. IInv => TypeOK
    BY DEF IInv
  <1> QED BY Inductive, <1>1, PTL

(* InboxSender::send and the drain together never lose a wakeup, whatever   *)
(* the number of sending threads, except after a failed handler.            *)
THEOREM NoWakeupIsLost == Spec => []NoLostWakeup
  <1>1. IInv => NoLostWakeup
    BY DEF IInv, TypeOK, NoLostWakeup, ArmedFlagIsLive, DisarmedMeansPushed,
           Resting, Sending
  <1> QED BY Inductive, <1>1, PTL

(* wake_pending is never left set with nobody about to act on it, failed    *)
(* handlers included: the flag cannot silence later senders for ever.       *)
THEOREM FlagNeverOrphaned == Spec => []ArmedFlagIsLive
  <1>1. IInv => ArmedFlagIsLive
    BY DEF IInv
  <1> QED BY Inductive, <1>1, PTL
=============================================================================
