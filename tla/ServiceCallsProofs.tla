------------------------- MODULE ServiceCallsProofs -------------------------
(***************************************************************************)
(* A service call ends at most once, its continuation and its deadline are *)
(* live exactly until then, and a worker's own death never overtakes its   *)
(* answer: for any names, workers, calls and deadlines.                    *)
(***************************************************************************)
EXTENDS ServiceCalls, SequenceTheorems, TLAPS

Deadline == [peer : Slots, due : 0..MaxNow, thread : Threads]
Envelope == [kind : {"reply", "died"}, peer : Slots, corr : Calls \cup {0}, thread : Threads]

(* The full types of the variables, sequences included. *)
Types ==
    /\ bound \in [Names -> Slots \cup {0}]
    /\ links \in [Slots -> [alive : BOOLEAN, thread : Threads \cup {0}]]
    /\ threads \in [Threads -> [st : {"none", "boot", "serving", "dying", "gone"},
                                id : Slots \cup {0}, q : Seq(Calls)]]
    /\ inbox \in Seq(Envelope)
    /\ replies \in Seq(BOOLEAN)
    /\ deadlines \in Seq(Deadline \cup {None})
    /\ ended \in Seq(Nat)
    /\ now \in 0..MaxNow
    /\ pc \in {"idle", "visit", "callback"}
    /\ visit \in [why : {"none", "died", "timeout"}, id : Slots \cup {0},
                  thread : Threads \cup {0}, todo : SUBSET Calls]

(* A running thread knows its slot, a live link its thread. *)
FleetOK ==
    /\ \A t \in Threads :
          threads[t].st \in {"boot", "serving", "dying"} => threads[t].id \in Slots
    /\ \A i \in Slots : links[i].alive => links[i].thread \in Threads

(* The three tables have an entry per call, and agree on whether the call  *)
(* has ended; a walk is over calls that have not.                          *)
TablesAgree ==
    /\ Len(replies) = Len(deadlines) /\ Len(ended) = Len(deadlines)
    /\ Len(deadlines) <= MaxCalls
    /\ \A c \in 1..Len(deadlines) :
          /\ ended[c] \in {0, 1}
          /\ replies[c] <=> ended[c] = 0
          /\ deadlines[c] # None <=> ended[c] = 0
    /\ visit.todo \subseteq Live

(* Only a walk that a death started is for a death. *)
VisitOK ==
    pc = "idle" => visit = NoVisit

(* Messages and answers are about calls that were made, and an answer      *)
(* comes from the thread the call went to.                                 *)
CorrsKnown ==
    /\ \A t \in Threads : \A j \in 1..Len(threads[t].q) :
          LET c == threads[t].q[j] IN
          /\ c \in 1..Len(deadlines)
          /\ deadlines[c] # None => deadlines[c].thread = t
    /\ \A p \in 1..Len(inbox) : inbox[p].kind = "reply" =>
          LET c == inbox[p].corr IN
          /\ c \in 1..Len(deadlines)
          /\ deadlines[c] # None => deadlines[c].thread = inbox[p].thread

(* A thread whose death was announced answers no more: no answer of its is *)
(* behind its death notice, or queued while that notice is handled.        *)
Over == {t \in Threads : threads[t].st \in {"dying", "gone"}}
DeathIsLast ==
    /\ \A p \in 1..Len(inbox) : inbox[p].kind = "died" =>
          /\ inbox[p].thread \in Over
          /\ \A r \in p..Len(inbox) :
                ~(inbox[r].kind = "reply" /\ inbox[r].thread = inbox[p].thread)
    /\ visit.why = "died" =>
          /\ visit.thread \in Over
          /\ \A r \in 1..Len(inbox) :
                ~(inbox[r].kind = "reply" /\ inbox[r].thread = visit.thread)

IInv == Types /\ FleetOK /\ TablesAgree /\ VisitOK /\ CorrsKnown /\ DeathIsLast

-----------------------------------------------------------------------------
(* Taking the first envelope shifts the others one place down. *)
LEMMA TakeFirst ==
    ASSUME NEW S, NEW s \in Seq(S), s # <<>>
    PROVE  /\ RemoveAt(s, 1) \in Seq(S)
           /\ Len(RemoveAt(s, 1)) = Len(s) - 1
           /\ \A i \in 1..Len(s) - 1 : RemoveAt(s, 1)[i] = s[i + 1]
  <1>1. RemoveAt(s, 1) = SubSeq(s, 1, 0) \o SubSeq(s, 2, Len(s))
    BY DEF RemoveAt
  <1>2. SubSeq(s, 1, 0) = <<>>
    BY SubSeqEmpty
  <1>3. Tail(s) \in Seq(S) /\ Tail(s) = SubSeq(s, 2, Len(s))
    BY TailIsSubSeq, HeadTailProperties
  <1>4. RemoveAt(s, 1) = Tail(s)
    BY <1>1, <1>2, <1>3, ConcatEmptySeq
  <1> QED BY <1>4, HeadTailProperties

(* Initially there is no call and no thread. *)
LEMMA InitIInv == Init => IInv
  <1> SUFFICES ASSUME Init PROVE IInv
    OBVIOUS
  <1>1. Types
    <2>1. inbox \in Seq(Envelope) /\ replies \in Seq(BOOLEAN) /\ ended \in Seq(Nat)
           /\ deadlines \in Seq(Deadline \cup {None})
      BY EmptySeq DEF Init
    <2>2. <<>> \in Seq(Calls)
      BY EmptySeq
    <2> QED BY <2>1, <2>2, ServiceAssumption DEF Init, Types, NoVisit, Slots, Threads
  <1>2. FleetOK
    BY DEF Init, FleetOK
  <1>3. TablesAgree
    BY ServiceAssumption, EmptySeq DEF Init, TablesAgree, NoVisit
  <1>4. CorrsKnown /\ DeathIsLast /\ VisitOK
    BY EmptySeq DEF Init, CorrsKnown, DeathIsLast, VisitOK, NoVisit
  <1> QED BY <1>1, <1>2, <1>3, <1>4 DEF IInv

-----------------------------------------------------------------------------
(***************************************************************************)
(* Worker threads                                                          *)
(***************************************************************************)

(* A thread that starts to serve keeps the invariant. *)
LEMMA BootedKeeps ==
    ASSUME IInv, NEW t \in Threads, Booted(t) PROVE IInv'
  <1> USE DEF IInv, Booted, fleet, tables
  <1>1. Types'
    BY ZenonT(30) DEF Types
  <1>2. FleetOK' /\ TablesAgree' /\ VisitOK'
    BY DEF Types, FleetOK, TablesAgree, VisitOK, Live
  <1>3. CorrsKnown'
    BY DEF Types, CorrsKnown
  <1>4. DeathIsLast'
    BY DEF Types, DeathIsLast, Over, Envelope
  <1> QED BY <1>1, <1>2, <1>3, <1>4

(* A thread whose receiver is dropped keeps the invariant. *)
LEMMA GoneKeeps ==
    ASSUME IInv, NEW t \in Threads, Gone(t) PROVE IInv'
  <1> USE DEF IInv, Gone, fleet, tables
  <1>0. <<>> \in Seq(Calls) /\ Len(<<>>) = 0
    BY EmptySeq
  <1>1. Types'
    BY <1>0 DEF Types
  <1>2. FleetOK' /\ TablesAgree' /\ VisitOK'
    BY DEF Types, FleetOK, TablesAgree, VisitOK, Live
  <1>3. CorrsKnown'
    BY <1>0 DEF Types, CorrsKnown
  <1>4. DeathIsLast'
    BY DEF Types, DeathIsLast, Over, Envelope
  <1> QED BY <1>1, <1>2, <1>3, <1>4

(* The envelopes of an inbox are envelopes. *)
LEMMA EnvelopesTyped ==
    ASSUME NEW s \in Seq(Envelope)
    PROVE  Len(s) \in Nat /\ \A p \in 1..Len(s) : s[p] \in Envelope /\ s[p].thread \in Threads
  <1>1. Len(s) \in Nat /\ \A p \in 1..Len(s) : s[p] \in Envelope
    BY LenProperties
  <1> QED BY <1>1 DEF Envelope

(* What posting does to the inbox. *)
LEMMA Posted ==
    ASSUME inbox \in Seq(Envelope), NEW env \in Envelope, Post(env)
    PROVE  /\ inbox' \in Seq(Envelope)
           /\ Len(inbox) \in Nat /\ Len(inbox') = Len(inbox) + 1
           /\ \A p \in 1..Len(inbox) : inbox'[p] = inbox[p]
           /\ inbox'[Len(inbox')] = env
  BY AppendProperties, LenProperties DEF Post

(* An answer posted, or none: the answering thread is not over, so no      *)
(* death notice of its is in front of the answer.                          *)
LEMMA DispatchPendingKeeps ==
    ASSUME IInv, NEW t \in Threads, DispatchPending(t) PROVE IInv'
  <1> USE DEF IInv
  <1> DEFINE q == threads[t].q
             env == Reply(threads[t].id, Head(q), t)
  <1>1. /\ threads[t].st = "serving" /\ q # <<>>
        /\ threads' = [threads EXCEPT ![t].q = Tail(@)]
        /\ Post(env) \/ inbox' = inbox
        /\ UNCHANGED <<bound, links, replies, deadlines, ended, now, pc, visit>>
    BY DEF DispatchPending, tables
  <1>2. q \in Seq(Calls) /\ Len(q) \in Nat
    BY LenProperties DEF Types
  <1>3. /\ Head(q) \in Calls /\ Head(q) = q[1] /\ 1 \in 1..Len(q)
        /\ Tail(q) \in Seq(Calls) /\ Len(Tail(q)) = Len(q) - 1
        /\ \A i \in 1..Len(q) - 1 : Tail(q)[i] = q[i + 1]
    BY <1>1, <1>2, HeadTailProperties, EmptySeq
  <1>4. env \in Envelope
    BY <1>1, <1>3 DEF Reply, Envelope, FleetOK
  <1>5. /\ inbox' \in Seq(Envelope)
        /\ Len(inbox) \in Nat /\ Len(inbox') \in {Len(inbox), Len(inbox) + 1}
        /\ \A p \in 1..Len(inbox) : inbox'[p] = inbox[p]
        /\ Len(inbox') = Len(inbox) + 1 => inbox'[Len(inbox')] = env
    BY <1>1, <1>4, Posted, LenProperties DEF Types
  <1>6. Types' /\ threads'[t].q = Tail(q)
               /\ \A u \in Threads : /\ threads'[u].st = threads[u].st
                                     /\ threads'[u].id = threads[u].id
                                     /\ u # t => threads'[u].q = threads[u].q
    BY ZenonT(30), <1>1, <1>3, <1>5 DEF Types
  <1>7. FleetOK' /\ TablesAgree' /\ VisitOK'
    BY <1>1, <1>6 DEF Types, FleetOK, TablesAgree, VisitOK, Live
  <1>8. CorrsKnown'
    <2> USE DEF CorrsKnown
    <2>1. deadlines' = deadlines /\ Len(deadlines) \in Nat
      BY <1>1, LenProperties DEF Types
    <2>2. ASSUME NEW u \in Threads, NEW j \in 1..Len(threads'[u].q)
          PROVE  \E k \in 1..Len(threads[u].q) : threads'[u].q[j] = threads[u].q[k]
      <3>1. CASE u = t
        <4>1. threads'[u].q = Tail(q) /\ j \in 1..Len(q) - 1
          BY <1>3, <1>6, <3>1
        <4>2. threads'[u].q[j] = threads[u].q[j + 1] /\ j + 1 \in 1..Len(q)
          BY <1>2, <1>3, <3>1, <4>1
        <4> QED BY <3>1, <4>2
      <3>2. CASE u # t
        BY <1>6, <3>2
      <3> QED BY <3>1, <3>2
    <2>3. /\ env.corr \in 1..Len(deadlines) /\ env.thread = t
          /\ deadlines[env.corr] # None => deadlines[env.corr].thread = t
      BY <1>3 DEF Reply
    <2>4. ASSUME NEW p \in 1..Len(inbox')
          PROVE  inbox'[p] = env \/ (p \in 1..Len(inbox) /\ inbox'[p] = inbox[p])
      BY <1>5
    <2> HIDE DEF env, q
    <2>5. ASSUME NEW u \in Threads, NEW j \in 1..Len(threads'[u].q)
          PROVE  LET c == threads'[u].q[j] IN
                 /\ c \in 1..Len(deadlines)
                 /\ deadlines[c] # None => deadlines[c].thread = u
      <3>1. PICK k \in 1..Len(threads[u].q) : threads'[u].q[j] = threads[u].q[k]
        BY <2>2, <2>5
      <3>2. PICK c : c = threads[u].q[k]
        OBVIOUS
      <3>3. c \in 1..Len(deadlines) /\ (deadlines[c] # None => deadlines[c].thread = u)
        BY <3>2
      <3> QED BY <3>1, <3>2, <3>3
    <2>6. ASSUME NEW p \in 1..Len(inbox'), inbox'[p].kind = "reply"
          PROVE  LET c == inbox'[p].corr IN
                 /\ c \in 1..Len(deadlines)
                 /\ deadlines[c] # None => deadlines[c].thread = inbox'[p].thread
      BY <2>3, <2>4, <2>6
    <2> QED BY <2>1, <2>5, <2>6
  <1>9. DeathIsLast'
    <2>1. t \notin Over /\ env.kind = "reply" /\ env.thread = t
      BY <1>1 DEF Over, Reply
    <2>2. Over' = Over
      BY <1>6 DEF Over
    <2>3. \A p \in 1..Len(inbox) : inbox[p].thread \in Threads
      BY EnvelopesTyped DEF Types
    <2>4. ASSUME NEW p \in 1..Len(inbox')
          PROVE  inbox'[p] = env \/ (p \in 1..Len(inbox) /\ inbox'[p] = inbox[p])
      BY <1>5
    <2> HIDE DEF env, q
    <2>5. ASSUME NEW p \in 1..Len(inbox'), inbox'[p].kind = "died"
          PROVE  /\ inbox'[p].thread \in Over'
                 /\ \A r \in p..Len(inbox') :
                       ~(inbox'[r].kind = "reply" /\ inbox'[r].thread = inbox'[p].thread)
      <3>1. p \in 1..Len(inbox) /\ inbox'[p] = inbox[p] /\ inbox[p].thread \in Over
        BY <2>1, <2>4, <2>5 DEF DeathIsLast
      <3>2. ASSUME NEW r \in p..Len(inbox')
            PROVE  ~(inbox'[r].kind = "reply" /\ inbox'[r].thread = inbox'[p].thread)
        <4>1. r \in 1..Len(inbox') /\ (r \in 1..Len(inbox) => r \in p..Len(inbox))
          BY <1>5, <3>1
        <4>2. CASE inbox'[r] = env
          BY <2>1, <3>1, <4>2
        <4>3. CASE r \in 1..Len(inbox) /\ inbox'[r] = inbox[r]
          BY <2>5, <3>1, <4>1, <4>3 DEF DeathIsLast
        <4> QED BY <2>4, <4>1, <4>2, <4>3
      <3> QED BY <2>2, <3>1, <3>2
    <2>6. ASSUME visit'.why = "died"
          PROVE  /\ visit'.thread \in Over'
                 /\ \A r \in 1..Len(inbox') :
                       ~(inbox'[r].kind = "reply" /\ inbox'[r].thread = visit'.thread)
      BY <1>1, <2>1, <2>2, <2>4, <2>6 DEF DeathIsLast
    <2> QED BY <2>5, <2>6 DEF DeathIsLast
  <1> QED BY <1>6, <1>7, <1>8, <1>9

(* A death notice is posted behind every answer of its thread. *)
LEMMA FailsKeeps ==
    ASSUME IInv, NEW t \in Threads, Fails(t) PROVE IInv'
  <1> USE DEF IInv
  <1> DEFINE env == Died(threads[t].id, t)
  <1>1. /\ threads[t].st \in {"boot", "serving"}
        /\ threads' = [threads EXCEPT ![t].st = "dying"]
        /\ Post(env)
        /\ UNCHANGED <<bound, links, replies, deadlines, ended, now, pc, visit>>
    BY DEF Fails, tables
  <1>2. env \in Envelope /\ env.kind = "died" /\ env.thread = t
    BY <1>1 DEF Died, Envelope, FleetOK
  <1>3. /\ inbox' \in Seq(Envelope)
        /\ Len(inbox) \in Nat /\ Len(inbox') = Len(inbox) + 1
        /\ \A p \in 1..Len(inbox) : inbox'[p] = inbox[p]
        /\ inbox'[Len(inbox')] = env
    BY <1>1, <1>2, Posted DEF Types
  <1>4. Types' /\ threads'[t].st = "dying"
               /\ \A u \in Threads : /\ threads'[u].q = threads[u].q
                                     /\ threads'[u].id = threads[u].id
                                     /\ u # t => threads'[u].st = threads[u].st
    BY ZenonT(30), <1>1, <1>3 DEF Types
  <1> HIDE DEF env
  <1>5. FleetOK' /\ TablesAgree' /\ VisitOK'
    BY <1>1, <1>4 DEF Types, FleetOK, TablesAgree, VisitOK, Live
  <1>6. CorrsKnown'
    BY <1>1, <1>2, <1>3, <1>4 DEF CorrsKnown
  <1>7. DeathIsLast'
    <2>1. Over \subseteq Over' /\ t \in Over'
      BY <1>4 DEF Over
    <2>2. \A p \in 1..Len(inbox) : inbox[p].thread \in Threads
      BY EnvelopesTyped DEF Types
    <2> QED BY <1>1, <1>2, <1>3, <2>1, <2>2 DEF DeathIsLast
  <1> QED BY <1>4, <1>5, <1>6, <1>7

-----------------------------------------------------------------------------
(***************************************************************************)
(* Guest code on the primary                                               *)
(***************************************************************************)

(* A new thread takes a slot whose link is not alive. *)
LEMMA SpawnKeeps ==
    ASSUME IInv, NEW n \in Names, Spawn(n) PROVE IInv'
  <1> USE DEF IInv
  <1>0. PICK t \in Threads, i \in Slots :
          /\ threads[t].st = "none"
          /\ threads' = [threads EXCEPT ![t] = [st |-> "boot", id |-> i, q |-> <<>>]]
          /\ links' = [links EXCEPT ![i] = [alive |-> TRUE, thread |-> t]]
          /\ bound' = [bound EXCEPT ![n] = i]
    BY DEF Spawn
  <1>1. UNCHANGED <<inbox, replies, deadlines, ended, now, pc, visit>>
    BY DEF Spawn, tables
  <1>2. <<>> \in Seq(Calls) /\ Len(<<>>) = 0
    BY EmptySeq
  <1>3. Types'
    BY <1>0, <1>1, <1>2 DEF Types
  <1>4. FleetOK' /\ TablesAgree' /\ VisitOK'
    BY <1>0, <1>1 DEF Types, FleetOK, TablesAgree, VisitOK, Live
  <1>5. CorrsKnown'
    BY <1>0, <1>1, <1>2 DEF Types, CorrsKnown
  <1>6. DeathIsLast'
    <2>1. Over \subseteq Over'
      BY <1>0 DEF Over, Types
    <2> QED BY <1>1, <2>1 DEF DeathIsLast
  <1> QED BY <1>3, <1>4, <1>5, <1>6

(* A link marked not alive keeps the invariant. *)
LEMMA TerminateKeeps ==
    ASSUME IInv, NEW n \in Names, Terminate(n) PROVE IInv'
  <1> USE DEF IInv
  <1>1. /\ bound[n] \in Slots
        /\ links' = [links EXCEPT ![bound[n]].alive = FALSE]
        /\ bound' = [bound EXCEPT ![n] = 0]
        /\ UNCHANGED <<threads, inbox, replies, deadlines, ended, now, pc, visit>>
    BY DEF Terminate, tables, Types
  <1>2. Types'
    BY <1>1 DEF Types
  <1>3. FleetOK' /\ TablesAgree' /\ VisitOK'
    BY <1>1 DEF Types, FleetOK, TablesAgree, VisitOK, Live
  <1>4. CorrsKnown' /\ DeathIsLast'
    BY <1>1 DEF CorrsKnown, DeathIsLast, Over
  <1> QED BY <1>2, <1>3, <1>4

(* Leaving a walk, or going on with it, keeps the invariant. *)
LEMMA CallbackKeeps ==
    ASSUME IInv, CallbackReturns \/ CallbackRaises PROVE IInv'
  <1> USE DEF IInv
  <1>1. /\ UNCHANGED <<bound, links, threads, inbox, replies, deadlines, ended, now>>
        /\ \/ pc' = "visit" /\ visit' = visit
           \/ pc' = "idle" /\ visit' = NoVisit
    BY DEF CallbackReturns, CallbackRaises, Walk, Unwound, fleet, tables
  <1>2. Types'
    BY <1>1 DEF Types, NoVisit
  <1>3. FleetOK' /\ TablesAgree' /\ VisitOK'
    BY <1>1 DEF FleetOK, TablesAgree, VisitOK, Live, NoVisit
  <1>4. CorrsKnown'
    BY <1>1 DEF CorrsKnown
  <1>5. DeathIsLast'
    BY <1>1 DEF DeathIsLast, Over, NoVisit
  <1> QED BY <1>2, <1>3, <1>4, <1>5

(* Time passes. *)
LEMMA TickKeeps == ASSUME IInv, Tick PROVE IInv'
  <1> USE DEF IInv, Tick, fleet, tables
  <1>1. Types'
    BY ServiceAssumption DEF Types
  <1>2. FleetOK' /\ TablesAgree' /\ VisitOK' /\ CorrsKnown' /\ DeathIsLast'
    BY DEF FleetOK, TablesAgree, VisitOK, CorrsKnown, DeathIsLast, Live, Over
  <1> QED BY <1>1, <1>2

(* A sweep walks calls that have not ended, and is not about a death. *)
LEMMA SweepKeeps == ASSUME IInv, Sweep PROVE IInv'
  <1> USE DEF IInv
  <1> DEFINE v == [why |-> "timeout", id |-> 0, thread |-> 0,
                   todo |-> {c \in Live : Expired(c)}]
  <1>1. /\ UNCHANGED <<bound, links, threads, inbox, replies, deadlines, ended, now>>
        /\ \/ pc' = "visit" /\ visit' = v
           \/ pc' = "idle" /\ visit' = NoVisit
    BY DEF Sweep, Walk, fleet, tables
  <1>2. Live \subseteq Calls
    BY LenProperties, ServiceAssumption DEF Types, TablesAgree, Live, Calls
  <1>3. Types'
    BY <1>1, <1>2 DEF Types, NoVisit
  <1>4. FleetOK' /\ TablesAgree' /\ VisitOK'
    BY <1>1 DEF FleetOK, TablesAgree, VisitOK, Live, NoVisit
  <1>5. CorrsKnown'
    BY <1>1 DEF CorrsKnown
  <1>6. DeathIsLast'
    BY <1>1 DEF DeathIsLast, Over, NoVisit
  <1> QED BY <1>3, <1>4, <1>5, <1>6

-----------------------------------------------------------------------------
(***************************************************************************)
(* Endings                                                                 *)
(***************************************************************************)

(* Ending a call that has not ended retires it from both tables and from   *)
(* nothing else.                                                           *)
LEMMA EndedOnce ==
    ASSUME Types, TablesAgree, NEW c \in Live, Retired(c), Ends(c)
    PROVE  /\ replies' \in Seq(BOOLEAN) /\ ended' \in Seq(Nat)
           /\ deadlines' \in Seq(Deadline \cup {None})
           /\ Len(replies') = Len(deadlines) /\ Len(ended') = Len(deadlines)
           /\ Len(deadlines') = Len(deadlines) /\ Len(deadlines) \in Nat
           /\ \A d \in 1..Len(deadlines) :
                 /\ ended'[d] \in {0, 1}
                 /\ replies'[d] <=> ended'[d] = 0
                 /\ deadlines'[d] # None <=> ended'[d] = 0
                 /\ deadlines'[d] # None => deadlines'[d] = deadlines[d]
           /\ Live' = Live \ {c}
  <1>1. /\ Len(deadlines) \in Nat /\ Len(replies) = Len(deadlines) /\ Len(ended) = Len(deadlines)
        /\ DOMAIN deadlines = 1..Len(deadlines) /\ DOMAIN ended = 1..Len(deadlines)
        /\ DOMAIN replies = 1..Len(deadlines)
    BY LenProperties DEF Types, TablesAgree
  <1>2. /\ c \in 1..Len(deadlines) /\ deadlines[c] # None /\ ended[c] = 0
    BY <1>1 DEF Live, TablesAgree
  <1>3. /\ replies' = [replies EXCEPT ![c] = FALSE]
        /\ deadlines' = [deadlines EXCEPT ![c] = None]
        /\ ended' = [ended EXCEPT ![c] = 1]
    BY <1>2 DEF Retired, Ends
  <1>4. /\ replies' \in Seq(BOOLEAN) /\ Len(replies') = Len(deadlines)
        /\ \A d \in 1..Len(deadlines) : replies'[d] = IF d = c THEN FALSE ELSE replies[d]
    BY <1>1, <1>2, <1>3, ExceptSeq DEF Types
  <1>5. /\ deadlines' \in Seq(Deadline \cup {None}) /\ Len(deadlines') = Len(deadlines)
        /\ \A d \in 1..Len(deadlines) : deadlines'[d] = IF d = c THEN None ELSE deadlines[d]
    BY <1>1, <1>2, <1>3, ExceptSeq DEF Types
  <1>6. /\ ended' \in Seq(Nat) /\ Len(ended') = Len(deadlines)
        /\ \A d \in 1..Len(deadlines) : ended'[d] = IF d = c THEN 1 ELSE ended[d]
    BY <1>1, <1>2, <1>3, ExceptSeq DEF Types
  <1>7. Live' = Live \ {c}
    <2>1. DOMAIN deadlines' = 1..Len(deadlines)
      BY <1>5, LenProperties
    <2> QED BY <1>1, <1>5, <2>1 DEF Live
  <1>8. \A d \in 1..Len(deadlines) :
           /\ ended[d] \in {0, 1}
           /\ replies[d] <=> ended[d] = 0
           /\ deadlines[d] # None <=> ended[d] = 0
    BY DEF TablesAgree
  <1>9. ASSUME NEW d \in 1..Len(deadlines)
        PROVE  /\ ended'[d] \in {0, 1}
               /\ replies'[d] <=> ended'[d] = 0
               /\ deadlines'[d] # None <=> ended'[d] = 0
               /\ deadlines'[d] # None => deadlines'[d] = deadlines[d]
    <2>1. CASE d = c
      <3>1. ~replies'[d]
        BY <1>4, <2>1, Zenon
      <3>2. ended'[d] = 1 /\ deadlines'[d] = None
        BY <1>5, <1>6, <2>1
      <3> QED BY <3>1, <3>2
    <2>2. CASE d # c
      BY <1>4, <1>5, <1>6, <1>8, <2>2
    <2> QED BY <2>1, <2>2
  <1> QED BY <1>1, <1>4, <1>5, <1>6, <1>7, <1>9

(* One entry of a walk is ended, and leaves the walk. *)
LEMMA VisitKeeps == ASSUME IInv, Visit PROVE IInv'
  <1> USE DEF IInv
  <1>0. PICK c \in visit.todo :
          /\ visit' = [visit EXCEPT !.todo = @ \ {c}]
          /\ Retired(c) /\ Ends(c)
    BY DEF Visit
  <1>1. UNCHANGED <<bound, links, threads, inbox, now>> /\ pc' = "callback"
    BY <1>0 DEF Visit, fleet, Ends
  <1>2. c \in Live
    BY DEF TablesAgree
  <1>3. /\ replies' \in Seq(BOOLEAN) /\ ended' \in Seq(Nat)
        /\ deadlines' \in Seq(Deadline \cup {None})
        /\ Len(replies') = Len(deadlines) /\ Len(ended') = Len(deadlines)
        /\ Len(deadlines') = Len(deadlines)
        /\ \A d \in 1..Len(deadlines) :
              /\ ended'[d] \in {0, 1}
              /\ replies'[d] <=> ended'[d] = 0
              /\ deadlines'[d] # None <=> ended'[d] = 0
              /\ deadlines'[d] # None => deadlines'[d] = deadlines[d]
        /\ Live' = Live \ {c}
    BY <1>0, <1>2, EndedOnce
  <1>4. Types'
    BY <1>0, <1>1, <1>3 DEF Types
  <1>5. /\ visit'.todo = visit.todo \ {c} /\ visit'.why = visit.why
        /\ visit'.thread = visit.thread
    BY <1>0 DEF Types
  <1>6. TablesAgree' /\ FleetOK' /\ VisitOK'
    BY <1>1, <1>3, <1>5 DEF TablesAgree, FleetOK, VisitOK
  <1>7. CorrsKnown'
    BY <1>1, <1>3 DEF CorrsKnown
  <1>8. DeathIsLast'
    BY <1>1, <1>5 DEF DeathIsLast, Over
  <1> QED BY <1>4, <1>6, <1>7, <1>8

(* The first envelope is taken: a reply ends its call or is dropped, a     *)
(* death notice starts a walk while no answer of that thread is left.      *)
LEMMA DispatchKeeps == ASSUME IInv, Dispatch PROVE IInv'
  <1> USE DEF IInv
  <1> DEFINE env == inbox[1]
             v == [why |-> "died", id |-> env.peer, thread |-> env.thread,
                   todo |-> {c \in Live : deadlines[c].peer = env.peer}]
  <1>1. /\ pc = "idle" /\ visit = NoVisit /\ inbox # <<>>
        /\ inbox' = RemoveAt(inbox, 1)
        /\ DispatchReply(env) \/ DispatchDied(env)
        /\ UNCHANGED <<bound, links, threads, now>>
    BY DEF Dispatch, NextEnvelope, fleet, VisitOK
  <1>2. Len(inbox) \in Nat /\ 1 \in 1..Len(inbox) /\ env \in Envelope
    BY <1>1, EmptySeq, EnvelopesTyped DEF Types
  <1>3. /\ inbox' \in Seq(Envelope) /\ Len(inbox') = Len(inbox) - 1
        /\ \A p \in 1..Len(inbox') : p + 1 \in 1..Len(inbox) /\ inbox'[p] = inbox[p + 1]
    BY <1>1, <1>2, TakeFirst DEF Types
  <1>4. FleetOK' /\ Over' = Over
    BY <1>1 DEF FleetOK, Over
  (* Taking the envelope disturbs neither order nor correspondence. *)
  <1>5. ASSUME Len(deadlines') = Len(deadlines),
               \A d \in 1..Len(deadlines) : deadlines'[d] # None => deadlines'[d] = deadlines[d]
        PROVE  CorrsKnown'
    <2>1. ASSUME NEW u \in Threads, NEW j \in 1..Len(threads'[u].q)
          PROVE  LET c == threads'[u].q[j] IN
                 /\ c \in 1..Len(deadlines')
                 /\ deadlines'[c] # None => deadlines'[c].thread = u
      BY <1>1, <1>5 DEF CorrsKnown
    <2>2. ASSUME NEW p \in 1..Len(inbox'), inbox'[p].kind = "reply"
          PROVE  LET c == inbox'[p].corr IN
                 /\ c \in 1..Len(deadlines')
                 /\ deadlines'[c] # None => deadlines'[c].thread = inbox'[p].thread
      BY <1>3, <1>5, <2>2 DEF CorrsKnown
    <2> QED BY <2>1, <2>2 DEF CorrsKnown
  <1>6. ASSUME NEW p \in 1..Len(inbox'), inbox'[p].kind = "died"
        PROVE  /\ inbox'[p].thread \in Over'
               /\ \A r \in p..Len(inbox') :
                     ~(inbox'[r].kind = "reply" /\ inbox'[r].thread = inbox'[p].thread)
    <2>1. /\ p + 1 \in 1..Len(inbox) /\ inbox'[p] = inbox[p + 1]
          /\ inbox[p + 1].thread \in Over
      BY <1>3, <1>6 DEF DeathIsLast
    <2>2. ASSUME NEW r \in p..Len(inbox')
          PROVE  ~(inbox'[r].kind = "reply" /\ inbox'[r].thread = inbox'[p].thread)
      <3>1. r \in 1..Len(inbox') /\ r + 1 \in (p + 1)..Len(inbox) /\ inbox'[r] = inbox[r + 1]
        BY <1>2, <1>3, <2>1
      <3> QED BY <1>6, <2>1, <3>1 DEF DeathIsLast
    <2> QED BY <1>4, <2>1, <2>2
  <1>7. CASE DispatchReply(env) /\ replies[env.corr]
    <2> DEFINE c == env.corr
    <2>1. env.kind = "reply" /\ Retired(c) /\ Ends(c) /\ visit' = visit
      BY <1>7 DEF DispatchReply
    <2>2. c \in Live
      <3>1. c \in 1..Len(deadlines)
        BY <1>2, <2>1 DEF CorrsKnown
      <3>2. deadlines[c] # None
        BY <1>7, <3>1 DEF TablesAgree
      <3>3. DOMAIN deadlines = 1..Len(deadlines)
        BY LenProperties DEF Types
      <3> QED BY <3>1, <3>2, <3>3 DEF Live
    <2>3. /\ replies' \in Seq(BOOLEAN) /\ ended' \in Seq(Nat)
          /\ deadlines' \in Seq(Deadline \cup {None})
          /\ Len(replies') = Len(deadlines) /\ Len(ended') = Len(deadlines)
          /\ Len(deadlines') = Len(deadlines)
          /\ \A d \in 1..Len(deadlines) :
                /\ ended'[d] \in {0, 1}
                /\ replies'[d] <=> ended'[d] = 0
                /\ deadlines'[d] # None <=> ended'[d] = 0
                /\ deadlines'[d] # None => deadlines'[d] = deadlines[d]
      BY <2>1, <2>2, EndedOnce
    <2>4. pc' = "callback"
      BY <2>1 DEF Ends
    <2>5. Types'
      BY <1>1, <1>3, <2>1, <2>3, <2>4 DEF Types
    <2>6. TablesAgree' /\ VisitOK'
      BY <1>1, <2>1, <2>3, <2>4 DEF TablesAgree, VisitOK, NoVisit
    <2>7. DeathIsLast'
      BY <1>1, <1>6, <2>1 DEF DeathIsLast, NoVisit
    <2> QED BY <1>4, <1>5, <2>3, <2>5, <2>6, <2>7
  <1>8. CASE DispatchReply(env) /\ ~replies[env.corr]
    <2>1. UNCHANGED <<replies, deadlines, ended, pc, visit>>
      BY <1>8 DEF DispatchReply, tables
    <2>2. Types'
      BY <1>1, <1>3, <2>1 DEF Types
    <2>3. TablesAgree' /\ VisitOK'
      BY <2>1 DEF TablesAgree, VisitOK, Live
    <2>4. DeathIsLast'
      BY <1>1, <1>6, <2>1 DEF DeathIsLast, NoVisit
    <2> QED BY <1>4, <1>5, <2>1, <2>2, <2>3, <2>4
  <1>9. CASE DispatchDied(env)
    <2>1. /\ env.kind = "died" /\ UNCHANGED <<replies, deadlines, ended>>
          /\ \/ pc' = "visit" /\ visit' = v
             \/ pc' = "idle" /\ visit' = NoVisit
      BY <1>9 DEF DispatchDied, Walk, tables
    <2>2. Live \subseteq Calls
      BY LenProperties, ServiceAssumption DEF Types, TablesAgree, Live, Calls
    <2>3. v.todo \subseteq Live
      OBVIOUS
    <2>4. v \in [why : {"none", "died", "timeout"}, id : Slots \cup {0},
                 thread : Threads \cup {0}, todo : SUBSET Calls]
      BY <1>2, <2>2, <2>3 DEF Envelope
    <2>5. Types'
      BY <1>1, <1>3, <2>1, <2>4 DEF Types, NoVisit
    <2>6. TablesAgree' /\ VisitOK'
      BY <2>1, <2>3 DEF TablesAgree, VisitOK, Live, NoVisit
    <2>7. /\ env.thread \in Over
          /\ \A r \in 1..Len(inbox) :
                ~(inbox[r].kind = "reply" /\ inbox[r].thread = env.thread)
      BY <1>2, <2>1 DEF DeathIsLast
    <2>8. DeathIsLast'
      <3>1. ASSUME visit'.why = "died"
            PROVE  /\ visit'.thread \in Over'
                   /\ \A r \in 1..Len(inbox') :
                         ~(inbox'[r].kind = "reply" /\ inbox'[r].thread = visit'.thread)
        BY <1>3, <1>4, <2>1, <2>7, <3>1 DEF NoVisit
      <3> QED BY <1>6, <3>1 DEF DeathIsLast
    <2> QED BY <1>4, <1>5, <2>1, <2>5, <2>6, <2>8
  <1> QED BY <1>1, <1>7, <1>8, <1>9

-----------------------------------------------------------------------------
(* What a call adds to the tables. *)
LEMMA Registered ==
    ASSUME IInv, NEW n \in Names, NEW ms \in Timeouts, Call(n, ms)
    PROVE  LET i == bound[n]
               t == links[i].thread
               c == Len(deadlines) + 1
           IN  /\ i \in Slots /\ t \in Threads /\ c \in Calls /\ Len(deadlines) \in Nat
               /\ replies' \in Seq(BOOLEAN) /\ ended' \in Seq(Nat)
               /\ deadlines' \in Seq(Deadline \cup {None})
               /\ Len(replies') = c /\ Len(ended') = c /\ Len(deadlines') = c
               /\ replies'[c] = TRUE /\ ended'[c] = 0
               /\ deadlines'[c] # None /\ deadlines'[c].thread = t
               /\ \A d \in 1..Len(deadlines) : /\ replies'[d] = replies[d]
                                               /\ ended'[d] = ended[d]
                                               /\ deadlines'[d] = deadlines[d]
               /\ Live' = Live \cup {c}
  <1> DEFINE i == bound[n]
             t == links[i].thread
             c == Len(deadlines) + 1
             rec == [peer |-> i, due |-> now + ms, thread |-> t]
  <1> USE DEF IInv
  <1>1. /\ i # 0 /\ links[i].alive /\ c \in Calls /\ now + ms < MaxNow
        /\ replies' = Append(replies, TRUE)
        /\ deadlines' = Append(deadlines, rec)
        /\ ended' = Append(ended, 0)
    BY DEF Call
  <1>2. i \in Slots /\ t \in Threads
    BY <1>1 DEF Types, FleetOK
  <1>3. rec \in Deadline /\ rec.thread = t
    <2>1. now + ms \in 0..MaxNow
      BY <1>1, ServiceAssumption DEF Types
    <2> QED BY <1>2, <2>1 DEF Deadline
  <1>4. rec # None
    <2>1. rec.peer = i /\ None.peer = 0
      BY DEF None
    <2> QED BY <1>1, <2>1
  <1>5. /\ Len(deadlines) \in Nat /\ Len(replies) = Len(deadlines) /\ Len(ended) = Len(deadlines)
        /\ DOMAIN deadlines = 1..Len(deadlines)
    BY LenProperties DEF Types, TablesAgree
  <1> HIDE DEF rec, i, t
  <1>6. /\ deadlines' \in Seq(Deadline \cup {None}) /\ Len(deadlines') = c
        /\ deadlines'[c] = rec
        /\ \A d \in 1..Len(deadlines) : deadlines'[d] = deadlines[d]
    BY <1>1, <1>3, AppendProperties DEF Types
  <1>7. /\ replies' \in Seq(BOOLEAN) /\ Len(replies') = c /\ replies'[c] = TRUE
        /\ \A d \in 1..Len(deadlines) : replies'[d] = replies[d]
    <2> DEFINE yes == TRUE
    <2>1. yes \in BOOLEAN /\ replies' = Append(replies, yes)
      BY <1>1
    <2> HIDE DEF yes
    <2>2. /\ replies' \in Seq(BOOLEAN) /\ Len(replies') = c /\ replies'[c] = yes
          /\ \A d \in 1..Len(deadlines) : replies'[d] = replies[d]
      BY <1>5, <2>1, AppendProperties DEF Types
    <2> QED BY <2>2 DEF yes
  <1>8. /\ ended' \in Seq(Nat) /\ Len(ended') = c /\ ended'[c] = 0
        /\ \A d \in 1..Len(deadlines) : ended'[d] = ended[d]
    BY <1>1, <1>5, AppendProperties DEF Types
  <1>9. Live' = Live \cup {c}
    <2>1. DOMAIN deadlines' = 1..c
      BY <1>6, LenProperties
    <2> QED BY <1>4, <1>5, <1>6, <2>1 DEF Live
  <1> QED BY <1>1, <1>2, <1>3, <1>4, <1>5, <1>6, <1>7, <1>8, <1>9 DEF i, t

(* A call is registered and sent, or its send raises: nothing it does      *)
(* answers a call or disturbs the order of the inbox.                      *)
LEMMA CallKeeps ==
    ASSUME IInv, NEW n \in Names, NEW ms \in Timeouts, Call(n, ms) PROVE IInv'
  <1> DEFINE i == bound[n]
             t == links[i].thread
             c == Len(deadlines) + 1
  <1> USE DEF IInv
  <1>1. /\ i \in Slots /\ t \in Threads /\ c \in Calls /\ Len(deadlines) \in Nat
        /\ replies' \in Seq(BOOLEAN) /\ ended' \in Seq(Nat)
        /\ deadlines' \in Seq(Deadline \cup {None})
        /\ Len(replies') = c /\ Len(ended') = c /\ Len(deadlines') = c
        /\ replies'[c] = TRUE /\ ended'[c] = 0
        /\ deadlines'[c] # None /\ deadlines'[c].thread = t
        /\ \A d \in 1..Len(deadlines) : /\ replies'[d] = replies[d]
                                        /\ ended'[d] = ended[d]
                                        /\ deadlines'[d] = deadlines[d]
        /\ Live' = Live \cup {c}
    BY Registered
  <1>2. UNCHANGED <<bound, now>>
    BY DEF Call
  <1>3. c <= MaxCalls /\ c = Len(deadlines) + 1
    BY <1>1, ServiceAssumption DEF Calls
  <1> HIDE DEF i, t, c
  <1>4. ASSUME visit'.todo \subseteq Live \cup {c} PROVE TablesAgree'
    <2>1. \A d \in 1..c : d \in 1..Len(deadlines) \/ d = c
      BY <1>1, <1>3
    <2>2. \A d \in 1..Len(deadlines) :
             /\ ended[d] \in {0, 1}
             /\ replies[d] <=> ended[d] = 0
             /\ deadlines[d] # None <=> ended[d] = 0
      BY DEF TablesAgree
    <2>3. \A d \in 1..c :
             /\ ended'[d] \in {0, 1}
             /\ replies'[d] <=> ended'[d] = 0
             /\ deadlines'[d] # None <=> ended'[d] = 0
      BY <1>1, <2>1, <2>2
    <2> QED BY <1>1, <1>3, <1>4, <2>3 DEF TablesAgree
  (* What is known of earlier calls stays known. *)
  <1>5. ASSUME NEW d \in 1..Len(deadlines), NEW u,
               deadlines[d] # None => deadlines[d].thread = u
        PROVE  d \in 1..Len(deadlines') /\ (deadlines'[d] # None => deadlines'[d].thread = u)
    BY <1>1, <1>3, <1>5
  <1>6. CASE /\ threads' = [threads EXCEPT ![t].q = Append(@, c)]
             /\ visit' \in WalkAfterInsert(c, i)
             /\ UNCHANGED <<links, inbox, pc>>
    <2> DEFINE q == threads[t].q
    <2>1. q \in Seq(Calls) /\ Len(q) \in Nat
      BY <1>1, LenProperties DEF Types
    <2>2. /\ Append(q, c) \in Seq(Calls) /\ Len(Append(q, c)) = Len(q) + 1
          /\ \A j \in 1..Len(q) : Append(q, c)[j] = q[j]
          /\ Append(q, c)[Len(q) + 1] = c
      BY <1>1, <2>1, AppendProperties
    <2> HIDE DEF q
    <2>3. PICK T \in SUBSET (visit.todo \cup {c}) :
             /\ visit' = [visit EXCEPT !.todo = T]
             /\ visit.why = "none" => T \subseteq visit.todo
      BY <1>6 DEF WalkAfterInsert
    <2>4. /\ visit' \in [why : {"none", "died", "timeout"}, id : Slots \cup {0},
                         thread : Threads \cup {0}, todo : SUBSET Calls]
          /\ visit'.why = visit.why /\ visit'.thread = visit.thread
          /\ visit'.todo \subseteq visit.todo \cup {c}
      BY <1>1, <2>3 DEF Types
    <2>10. visit = NoVisit => visit' = NoVisit
      BY <2>3 DEF NoVisit
    <2>5. Types' /\ threads'[t].q = Append(q, c)
                 /\ \A u \in Threads : /\ threads'[u].st = threads[u].st
                                       /\ threads'[u].id = threads[u].id
                                       /\ u # t => threads'[u].q = threads[u].q
      <3>1. threads' \in [Threads -> [st : {"none", "boot", "serving", "dying", "gone"},
                                      id : Slots \cup {0}, q : Seq(Calls)]]
        <4>1. PICK s \in Seq(Calls) : threads' = [threads EXCEPT ![t].q = s]
          BY <1>6, <2>2 DEF q
        <4>2. threads \in [Threads -> [st : {"none", "boot", "serving", "dying", "gone"},
                                       id : Slots \cup {0}, q : Seq(Calls)]]
          BY DEF Types
        <4>3. t \in Threads
          BY <1>1
        <4> QED BY <4>1, <4>2, <4>3
      <3>2. Types'
        BY <1>1, <1>2, <1>6, <2>4, <3>1 DEF Types
      <3>3. /\ threads'[t].q = Append(q, c)
            /\ \A u \in Threads : /\ threads'[u].st = threads[u].st
                                  /\ threads'[u].id = threads[u].id
                                  /\ u # t => threads'[u].q = threads[u].q
        <4>1. threads' = [threads EXCEPT ![t].q = Append(q, c)] /\ t \in Threads
          BY <1>1, <1>6 DEF q
        <4>2. threads \in [Threads -> [st : {"none", "boot", "serving", "dying", "gone"},
                                       id : Slots \cup {0}, q : Seq(Calls)]]
          BY DEF Types
        <4> HIDE DEF q, IInv
        <4> QED BY <4>1, <4>2
      <3> QED BY <3>2, <3>3
    <2>6. FleetOK' /\ Over' = Over
      BY <1>6, <2>5 DEF FleetOK, Over
    <2>7. TablesAgree' /\ VisitOK'
      BY <1>4, <1>6, <2>4, <2>10 DEF TablesAgree, VisitOK
    <2>8. DeathIsLast'
      BY <1>6, <2>4, <2>6 DEF DeathIsLast
    <2>9. CorrsKnown'
      <3>1. ASSUME NEW u \in Threads, NEW j \in 1..Len(threads'[u].q)
            PROVE  LET d == threads'[u].q[j] IN
                   /\ d \in 1..Len(deadlines')
                   /\ deadlines'[d] # None => deadlines'[d].thread = u
        <4>1. CASE u = t /\ j = Len(q) + 1
          BY <1>1, <1>3, <2>2, <2>5, <4>1
        <4>2. CASE ~(u = t /\ j = Len(q) + 1)
          <5>1. j \in 1..Len(threads[u].q) /\ threads'[u].q[j] = threads[u].q[j]
            <6>1. CASE u = t
              BY SMTT(20), <2>1, <2>2, <2>5, <4>2, <6>1 DEF q
            <6>2. CASE u # t
              BY <2>5, <6>2
            <6> QED BY <6>1, <6>2
          <5> QED BY ZenonT(30), <1>5, <5>1 DEF CorrsKnown
        <4> QED BY <4>1, <4>2
      <3>2. ASSUME NEW p \in 1..Len(inbox'), inbox'[p].kind = "reply"
            PROVE  LET d == inbox'[p].corr IN
                   /\ d \in 1..Len(deadlines')
                   /\ deadlines'[d] # None => deadlines'[d].thread = inbox'[p].thread
        BY <1>5, <1>6, <3>2 DEF CorrsKnown
      <3> QED BY <3>1, <3>2 DEF CorrsKnown
    <2> QED BY <2>5, <2>6, <2>7, <2>8, <2>9
  <1>7. CASE Unwound /\ UNCHANGED <<links, threads, inbox>>
    <2>1. pc' = "idle" /\ visit' = NoVisit
      BY <1>7 DEF Unwound
    <2>2. Types'
      BY <1>1, <1>2, <1>7, <2>1 DEF Types, NoVisit
    <2>3. FleetOK' /\ TablesAgree' /\ VisitOK'
      BY <1>4, <1>7, <2>1 DEF FleetOK, VisitOK, NoVisit
    <2>4. CorrsKnown'
      BY <1>5, <1>7 DEF CorrsKnown
    <2>5. DeathIsLast'
      BY <1>7, <2>1 DEF DeathIsLast, Over, NoVisit
    <2> QED BY <2>2, <2>3, <2>4, <2>5
  <1>8. CASE /\ threads[t].st = "gone"
             /\ links' = [links EXCEPT ![i].alive = FALSE]
             /\ Post(Died(i, t)) /\ Unwound /\ UNCHANGED threads
    <2> DEFINE env == Died(i, t)
    <2>1. pc' = "idle" /\ visit' = NoVisit
      BY <1>8 DEF Unwound
    <2>2. env \in Envelope /\ env.kind = "died" /\ env.thread = t
      BY <1>1 DEF Died, Envelope
    <2> HIDE DEF env
    <2>3. /\ inbox' \in Seq(Envelope)
          /\ Len(inbox) \in Nat /\ Len(inbox') = Len(inbox) + 1
          /\ \A p \in 1..Len(inbox) : inbox'[p] = inbox[p]
          /\ inbox'[Len(inbox')] = env
      BY <1>8, <2>2, Posted DEF Types, env
    <2>4. Types'
      <3>1. links' \in [Slots -> [alive : BOOLEAN, thread : Threads \cup {0}]]
        <4>1. links \in [Slots -> [alive : BOOLEAN, thread : Threads \cup {0}]]
          BY DEF Types
        <4>2. links' = [links EXCEPT ![i].alive = FALSE]
          BY <1>8
        <4> QED BY <1>1, <4>1, <4>2
      <3>2. threads' = threads
        BY <1>8
      <3> QED BY <1>1, <1>2, <2>1, <2>3, <3>1, <3>2 DEF Types, NoVisit
    <2>5. FleetOK' /\ TablesAgree' /\ VisitOK'
      BY <1>4, <1>8, <2>1 DEF FleetOK, VisitOK, NoVisit, Types
    <2>6. CorrsKnown'
      <3>1. \A p \in 1..Len(inbox') : inbox'[p] = env \/ (p \in 1..Len(inbox) /\ inbox'[p] = inbox[p])
        BY <2>3
      <3>2. ASSUME NEW u \in Threads, NEW j \in 1..Len(threads'[u].q)
            PROVE  LET d == threads'[u].q[j] IN
                   /\ d \in 1..Len(deadlines')
                   /\ deadlines'[d] # None => deadlines'[d].thread = u
        BY <1>5, <1>8 DEF CorrsKnown
      <3>3. ASSUME NEW p \in 1..Len(inbox'), inbox'[p].kind = "reply"
            PROVE  LET d == inbox'[p].corr IN
                   /\ d \in 1..Len(deadlines')
                   /\ deadlines'[d] # None => deadlines'[d].thread = inbox'[p].thread
        <4>1. p \in 1..Len(inbox) /\ inbox'[p] = inbox[p]
          BY <2>2, <3>1, <3>3
        <4> QED BY <1>5, <3>3, <4>1 DEF CorrsKnown
      <3> QED BY <3>2, <3>3 DEF CorrsKnown
    <2>7. DeathIsLast'
      <3>1. Over' = Over /\ t \in Over
        BY <1>1, <1>8 DEF Over
      <3> QED BY <2>1, <2>2, <2>3, <3>1 DEF DeathIsLast, NoVisit
    <2> QED BY <2>4, <2>5, <2>6, <2>7
  <1> QED BY <1>6, <1>7, <1>8 DEF Call, i, t, c

-----------------------------------------------------------------------------
(***************************************************************************)
(* The theorems                                                            *)
(***************************************************************************)

(* Every step of the primary and of the threads keeps the invariant. *)
LEMMA NextIInv == IInv /\ [Next]_vars => IInv'
  <1> SUFFICES ASSUME IInv, [Next]_vars PROVE IInv'
    OBVIOUS
  <1>1. CASE Beat
    BY <1>1, CallbackKeeps, DispatchKeeps, SweepKeeps, VisitKeeps DEF Beat
  <1>2. CASE Tick
    BY <1>2, TickKeeps
  <1>3. ASSUME NEW t \in Threads, DispatchPending(t) \/ Fails(t) \/ Booted(t) \/ Gone(t)
        PROVE  IInv'
    BY <1>3, DispatchPendingKeeps, FailsKeeps, BootedKeeps, GoneKeeps
  <1>4. ASSUME NEW n \in Names,
               Spawn(n) \/ Terminate(n) \/ (\E ms \in Timeouts : Call(n, ms))
        PROVE  IInv'
    BY <1>4, SpawnKeeps, TerminateKeeps, CallKeeps
  <1>5. CASE UNCHANGED vars
    BY <1>5 DEF vars, fleet, tables, IInv, Types, FleetOK, TablesAgree, VisitOK,
                CorrsKnown, DeathIsLast, Over, Live
  <1> QED BY <1>1, <1>2, <1>3, <1>4, <1>5 DEF Next

(* The inductive invariant holds in every reachable state of the service. *)
THEOREM Invariance == Spec => []IInv
  BY InitIInv, NextIInv, PTL DEF Spec

(* The state of the service keeps its types: every live deadline is one of *)
(* a worker, and a walk never holds a call that has ended.                 *)
THEOREM ServiceTypeOK == Spec => []TypeOK
  <1>1. IInv => TypeOK
    <2> SUFFICES ASSUME IInv PROVE TypeOK
      OBVIOUS
    <2>1. DOMAIN deadlines = 1..Len(deadlines)
      BY LenProperties DEF IInv, Types
    <2>2. \A c \in Live : deadlines[c] \in Deadline
      <3>1. \A c \in Live : deadlines[c] \in Deadline \cup {None} /\ deadlines[c] # None
        BY <2>1, ElementOfSeq DEF IInv, Types, Live
      <3> QED BY <3>1
    <2> QED BY <2>2 DEF IInv, Types, FleetOK, TablesAgree, TypeOK, Deadline
  <1> QED BY <1>1, Invariance, PTL

(* However replies, deadlines and death notices race, and whatever the     *)
(* blocks do in between, a call ends at most once.                         *)
THEOREM CallEndsOnce == Spec => []EndsOnce
  <1>1. IInv => EndsOnce
    <2> SUFFICES ASSUME IInv, NEW c \in DOMAIN ended PROVE ended[c] <= 1
      BY DEF EndsOnce
    <2>1. c \in 1..Len(deadlines)
      BY LenProperties DEF IInv, Types, TablesAgree
    <2> QED BY <2>1 DEF IInv, TablesAgree
  <1> QED BY <1>1, Invariance, PTL

(* The continuation table and the deadline table hold exactly the calls    *)
(* that have not ended.                                                    *)
THEOREM TablesHoldUnsettled == Spec => []LiveIsUnsettled
  <1>1. IInv => LiveIsUnsettled
    <2> SUFFICES ASSUME IInv, NEW c \in DOMAIN ended
                 PROVE  (replies[c] <=> ended[c] = 0) /\ (c \in Live <=> ended[c] = 0)
      BY DEF LiveIsUnsettled
    <2>1. c \in 1..Len(deadlines) /\ DOMAIN deadlines = 1..Len(deadlines)
      BY LenProperties DEF IInv, Types, TablesAgree
    <2> QED BY <2>1 DEF IInv, TablesAgree, Live
  <1> QED BY <1>1, Invariance, PTL

(* No step ends a call on the death of the thread that has already         *)
(* answered it: the answer is in front of the notice.                      *)
THEOREM AnswerBeatsDeath == Spec => AnsweredNotDead
  <1> DEFINE A == \A c \in Live :
                    (ended'[c] # ended[c] /\ visit.why = "died"
                        /\ visit.thread = deadlines[c].thread) =>
                    \A i \in DOMAIN inbox : ~(inbox[i].kind = "reply" /\ inbox[i].corr = c)
  <1>1. IInv /\ [Next]_vars => [A]_vars
    <2> SUFFICES ASSUME IInv, NEW c \in Live, visit.why = "died",
                        visit.thread = deadlines[c].thread, NEW i \in DOMAIN inbox,
                        inbox[i].kind = "reply", inbox[i].corr = c
                 PROVE  FALSE
      OBVIOUS
    <2>1. i \in 1..Len(inbox)
      BY LenProperties DEF IInv, Types
    <2>2. inbox[i].thread = visit.thread
      BY <2>1 DEF IInv, CorrsKnown, Live
    <2> QED BY <2>1, <2>2 DEF IInv, DeathIsLast
  <1> QED BY <1>1, Invariance, PTL DEF Spec, AnsweredNotDead
=============================================================================
