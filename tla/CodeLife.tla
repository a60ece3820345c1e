------------------------------ MODULE CodeLife ------------------------------
(***************************************************************************)
(* The life of compiled code: compilation, dispatch through compiled call  *)
(* sites and adapters, invalidation by redefinition, retirement by         *)
(* recompilation, deoptimization of activations in flight, and reclaiming  *)
(* (src/codecache, src/interpreter/{send,compiled_call}.rs, src/runtime/   *)
(* {deps,recompile,osr,frames}.rs).                                        *)
(*                                                                         *)
(* Every method body is one send, of Callee[its selector], to a receiver   *)
(* of any klass, taken any number of times, or a leaf.                     *)
(*                                                                         *)
(* A compiled method's code block is identified with its table slot: both  *)
(* are reused first-free, and a call site holds the block's address.       *)
(* Invocation and trap counters are left out: whether a threshold is       *)
(* reached is a choice.  Uncommon traps may fire wherever compiled code    *)
(* runs.  Klasses do not die, so the weak sweep finds nothing; sends to    *)
(* super, block compiles, non-local returns and messages that are not      *)
(* understood are not modelled.                                            *)
(*                                                                         *)
(* The interpreter's caches are Dispatch's matter: here a lookup is Truth  *)
(* (Dispatch's CacheCurrent), and a send site of the interpreter, or the   *)
(* compiler that reads it, is given what lookup gives or, for a pair the   *)
(* site's inline cache copied (Dispatch's FeedbackCurrent fails), what it  *)
(* gave in an earlier epoch.                                               *)
(***************************************************************************)
EXTENDS Lookup

CONSTANTS
    Callee,         \* selector -> the selector its methods send, or None: a leaf
    MaxSlots,       \* bound: compiled methods the code cache holds at a time
    MaxCompiles,    \* bound: compilations of a behaviour
    MaxVersions,    \* MAX_VERSIONS
    PicMax,         \* PIC_MAX_ENTRIES
    MaxDepth,       \* bound: activations on the stack
    Hot             \* bound: the klasses code is compiled for, or specialised for

Slots == 1..MaxSlots
NoNm == [st |-> "free"]

ASSUME CodeAssumption ==
    /\ Callee \in [Selectors -> Selectors \cup {None}]
    /\ MaxSlots \in Nat /\ MaxCompiles \in Nat /\ MaxVersions \in Nat
    /\ PicMax \in Nat /\ PicMax >= 2
    /\ MaxDepth \in Nat \ {0} /\ Hot \subseteq Klasses

VARIABLES
    ct,         \* CodeTable: [nms, by_key], and pending_deopt_flag
    frames,     \* the stack of activations, the running one last
    compiles,   \* compilations so far
    outdated    \* what the inline caches may have kept: [by, k, m], see below

lookupVars == <<dict, epoch, outdated>>
vars == <<lookupVars, ct, frames, compiles>>

-----------------------------------------------------------------------------
(***************************************************************************)
(* The code table.  Operators on a table t = [nms, by_key, pending].       *)
(***************************************************************************)

Installed(t) == {i \in Slots : t.nms[i].st # "free"}
Alive(t) == {i \in Slots : t.nms[i].st = "alive"}
NotEntrant(t) == {i \in Slots : t.nms[i].st = "notEntrant"}
KeyOf(nm) == <<nm.k, nm.s>>

Unresolved == [kind |-> "unresolved"]
MonoSite(k, t) == [kind |-> "mono", k |-> k, t |-> t]
PicSite(ps) == [kind |-> "pic", ps |-> ps]
MegaSite == [kind |-> "mega"]
C2i == 0            \* a call target: the adapter of a method, or a slot

(* Compilation of method m for receivers of klass k, installed in the      *)
(* first free slot; the key names it from now on.  `inline' is the case    *)
(* the body was specialised for (None: none); `osr' is "no", or "warm" or  *)
(* "half" for a compile that carries an OSR entry.                         *)
install(t, k, m, ver, osr, inline) ==
    LET id == CHOOSE i \in Slots \ Installed(t) : \A j \in Slots \ Installed(t) : i <= j
        nm == [st |-> "alive", k |-> k, s |-> m[2], m |-> m, ver |-> ver, osr |-> osr,
               inline |-> inline, site |-> Unresolved, stale |-> "no"]
    IN  [id |-> id,
         t  |-> [t EXCEPT !.nms[id] = nm, !.by_key[KeyOf(nm)] = id]]

CanCompile(t, k, n) == k \in Hot /\ compiles + n < MaxCompiles /\ Installed(t) # Slots

(* Every message is understood. *)
Understands(k, s) == s # None /\ Truth(k, s) # None

Below(j, k) == k \in ToSet(Chain[j])

(* A redefinition of s in k leaves its old answers behind: `by', a method  *)
(* that sends s, may have the answer m for klass k in a mono entry, which  *)
(* rows 5 and 6 of ic_transition copy, whatever its epoch, into a pair     *)
(* stamped with the current one.                                           *)
Outdated(k, s) ==
    {[by |-> m, k |-> j, m |-> Truth(j, s)] :
        m \in {x \in Methods : Callee[x[2]] = s /\ x[3] <= dict[x[1]][x[2]]},
        j \in {i \in Klasses : Below(i, k) /\ Understands(i, s)}}

(* What the site of method m may give for klass k. *)
Answers(m, k) ==
    {Truth(k, Callee[m[2]])} \cup {o.m : o \in {p \in outdated : p.by = m /\ p.k = k}}

(* What the compiler may inline at the one send of m: the body of any of   *)
(* the site's answers.  `found', a history: what lookup gave just then.    *)
InlineChoices(m) ==
    {None} \cup UNION {{[k |-> k, m |-> x, found |-> Truth(k, Callee[m[2]])] : x \in Answers(m, k)} :
                          k \in {j \in Hot : Understands(j, Callee[m[2]])}}

(* Mutant: the key is emptied even when it names a successor. *)
set_not_entrant_unguarded(t, id) ==
    [t EXCEPT !.nms[id].st = "notEntrant", !.by_key[KeyOf(t.nms[id])] = 0]

(* State and key; the successor of a replaced method keeps the key. *)
set_not_entrant(t, id) ==
    LET key == KeyOf(t.nms[id])
    IN  [t EXCEPT !.nms[id].st = "notEntrant",
                  !.by_key[key] = IF @ = id THEN 0 ELSE @]

(* Retirement without redirecting the activations in flight. *)
make_not_entrant_lazy(t, id) == [set_not_entrant(t, id) EXCEPT !.pending = TRUE]

(* Whether compiled code assumed what a lookup of s answered for k or a    *)
(* klass below it: its own key, or a dependency of what it inlined.        *)
Assumed(nm, k, s) ==
    \/ nm.s = s /\ Below(nm.k, k)
    \/ nm.inline # None /\ Callee[nm.s] = s /\ Below(nm.inline.k, k)

(* Mutant: only what was inlined for k itself, not for a klass below it. *)
affected_exact(t, k, s) ==
    {i \in Alive(t) :
        LET nm == t.nms[i] IN
        \/ nm.s = s /\ Below(nm.k, k)
        \/ nm.inline # None /\ Callee[nm.s] = s /\ nm.inline.k = k}

affected_by_install(t, k, s) == {i \in Alive(t) : Assumed(t.nms[i], k, s)}

(* make_not_entrant of every victim, as far as the table goes.  `stale', a *)
(* history of the code W whose assumptions the redefinition breaks: the    *)
(* scan for victims found it, or missed it, having been retired already.   *)
InvalidateAll(t, V, W) ==
    [nms |-> [i \in Slots |->
                IF i \in V THEN [t.nms[i] EXCEPT !.st = "notEntrant", !.stale = "found"]
                ELSE IF i \in W THEN [t.nms[i] EXCEPT !.stale = IF @ = "no" THEN "missed" ELSE @]
                ELSE t.nms[i]],
     by_key |-> [key \in DOMAIN t.by_key |-> IF t.by_key[key] \in V THEN 0 ELSE t.by_key[key]],
     pending |-> t.pending \/ V # {}]

(* Mutant: a callee entered through an adapter is skipped by the walk. *)
RedirectCompiledCallees(fs, V) ==
    [i \in DOMAIN fs |->
        IF i < Len(fs) /\ fs[i].tier = "compiled" /\ fs[i].nm \in V /\ ~fs[i + 1].c2i
        THEN [fs[i] EXCEPT !.redirected = TRUE] ELSE fs[i]]

(* redirect_returns_into_nm: every activation of a victim that waits for a *)
(* callee will deoptimize when the callee returns.                         *)
RedirectReturns(fs, V) ==
    [i \in DOMAIN fs |->
        IF i < Len(fs) /\ fs[i].tier = "compiled" /\ fs[i].nm \in V
        THEN [fs[i] EXCEPT !.redirected = TRUE] ELSE fs[i]]

(* Mutant: PIC pairs are forgotten. *)
ReachesMono(site, F) == site.kind = "mono" /\ site.t \in F

(* A call site that can reach one of the flushed methods. *)
Reaches(site, F) ==
    \/ site.kind = "mono" /\ site.t \in F
    \/ site.kind = "pic" /\ \E i \in DOMAIN site.ps : site.ps[i].t \in F

(* flush_nmethod of every method of F: zombies are unhooked, the sites of  *)
(* living methods that call them are reset, slot and block are freed.      *)
flush_nmethods(t, F) ==
    [t EXCEPT
        !.nms = [i \in Slots |->
                    IF i \in F THEN NoNm
                    ELSE IF i \in Alive(t) /\ Reaches(t.nms[i].site, F)
                         THEN [t.nms[i] EXCEPT !.site = Unresolved]
                         ELSE t.nms[i]],
        !.by_key = [key \in DOMAIN t.by_key |-> IF t.by_key[key] \in F THEN 0 ELSE t.by_key[key]]]

(* Mutant: a redirected activation is not recognised. *)
ReferencedByPc(fs) ==
    {fs[i].nm : i \in {j \in DOMAIN fs : fs[j].tier = "compiled" /\ ~fs[j].redirected}}

Referenced(fs) == {fs[i].nm : i \in {j \in DOMAIN fs : fs[j].tier = "compiled"}}

sweep_not_entrant_zombies(t, fs) ==
    LET u == flush_nmethods(t, NotEntrant(t) \ Referenced(fs))
    IN  IF NotEntrant(t) = {} THEN t
        ELSE IF NotEntrant(u) = {} THEN [u EXCEPT !.pending = FALSE] ELSE u

(* Mutant: retired methods are entered again. *)
rehash_installed(t) ==
    [t EXCEPT !.by_key =
        [key \in Keys |->
            LET own == {i \in Installed(t) : KeyOf(t.nms[i]) = key}
            IN  IF own = {} THEN 0 ELSE CHOOSE i \in own : \A j \in own : j <= i]]

(* Rebuilt after the klasses moved: living methods only, in slot order. *)
rehash(t) ==
    [t EXCEPT !.by_key =
        [key \in Keys |->
            LET own == {i \in Alive(t) : KeyOf(t.nms[i]) = key}
            IN  IF own = {} THEN 0 ELSE CHOOSE i \in own : \A j \in own : j <= i]]

-----------------------------------------------------------------------------
(***************************************************************************)
(* Activations.  A compiled one runs the code of slot nm; one that was     *)
(* deoptimized is interpreted under its native frame.  `c2i': entered      *)
(* through an adapter, whose epilogue runs when it returns.  `trap': the   *)
(* compiled method whose uncommon trap deoptimized it, or 0.               *)
(***************************************************************************)

Frame(tier, m, k, nm, c2i) ==
    [tier |-> tier, m |-> m, k |-> k, nm |-> nm, c2i |-> c2i, trap |-> 0, redirected |-> FALSE]
Interpreted(m, k, c2i) == Frame("interp", m, k, 0, c2i)
Compiled(t, id, k) == Frame("compiled", t.nms[id].m, k, id, FALSE)

Top == frames[Len(frames)]
Running(tiers) == frames # <<>> /\ Top.tier \in tiers
Interpreting == frames = <<>> \/ Running({"interp", "deopted"})
Push(f) == frames' = Append(frames, f)
SetTop(f) == frames' = [frames EXCEPT ![Len(frames)] = f]

(* The activate_method trigger and its twin after an adapter call: reuse a *)
(* living method, replace a half-warm one, or compile; id 0 is failure.    *)
TriggerOutcomes(t, n, k, m) ==
    LET id == t.by_key[<<k, m[2]>>]
        old == t.nms[id]
        Compile(ver) ==
            IF CanCompile(t, k, n) THEN {install(t, k, m, ver, "no", i) : i \in InlineChoices(m)} ELSE {}
    IN  IF id = 0
        THEN {[t |-> t, id |-> 0, n |-> n]}
                \cup {[t |-> r.t, id |-> r.id, n |-> n + 1] : r \in Compile(0)}
        ELSE IF old.osr # "half" THEN {[t |-> t, id |-> id, n |-> n]}
        ELSE {[t |-> t, id |-> id, n |-> n]}
                \cup {[t |-> make_not_entrant_lazy(r.t, id), id |-> r.id, n |-> n + 1] :
                        r \in Compile(old.ver + 1)}

(* enter_compiled reclaims retired code when nothing compiled is running. *)
SweepOnEntry(t) ==
    IF t.pending /\ \A i \in DOMAIN frames : frames[i].tier = "interp"
    THEN sweep_not_entrant_zombies(t, frames) ELSE t

(* activate_method: interpreted, or, if m is what dispatch gives, entered  *)
(* compiled when the trigger has code for it.  A compiled body that bails  *)
(* out is interpreted after all.                                           *)
activate_method(m, k) ==
    \/ /\ Push(Interpreted(m, k, FALSE))
       /\ UNCHANGED <<ct, compiles>>
    \/ \E o \in TriggerOutcomes(ct, 0, k, m) :
          /\ Truth(k, m[2]) = m /\ o.id # 0
          /\ ct' = SweepOnEntry(o.t)
          /\ compiles' = compiles + o.n
          /\ Push(Compiled(o.t, o.id, k)) \/ Push(Interpreted(m, k, FALSE))

(* What the interpreter may send: anything from a doit, else the one send  *)
(* of the running method.                                                  *)
Sending(s) == frames # <<>> => s = Callee[Top.m[2]] /\ Len(frames) < MaxDepth

(* send_generic on a method target, found in an inline cache or by lookup. *)
SendMethod(k, s) ==
    /\ Interpreting /\ Sending(s)
    /\ Understands(k, s)
    /\ \E m \in IF frames = <<>> THEN {Truth(k, s)} ELSE Answers(Top.m, k) : activate_method(m, k)
    /\ UNCHANGED lookupVars

(* send_generic's fast path on a compiled target: the id an inline cache   *)
(* holds still names living code for the klass and selector.               *)
SendCompiledTarget(k, s) ==
    /\ Interpreting /\ Sending(s)
    /\ \E id \in Alive(ct) :
          /\ KeyOf(ct.nms[id]) = <<k, s>>
          /\ Push(Compiled(ct, id, k)) \/ Push(Interpreted(Truth(k, s), k, FALSE))
    /\ ct' = SweepOnEntry(ct)
    /\ UNCHANGED <<lookupVars, compiles>>

-----------------------------------------------------------------------------
(***************************************************************************)
(* Sends from compiled code                                                *)
(***************************************************************************)

PairsFor(ps, k) == {i \in DOMAIN ps : ps[i].k = k}
HasPair(ps, k) == PairsFor(ps, k) # {}

(* Where a send of s to k goes: the entry of the living compiled method    *)
(* the key names, unless it is half-warm, else an adapter.                 *)
resolve_target_entry(t, k, s) ==
    LET id == t.by_key[<<k, s>>]
    IN  IF id # 0 /\ t.nms[id].osr # "half" THEN id ELSE C2i

(* Mutant: a pair too many. *)
PicGrownOffByOne(ps, case) ==
    IF Len(ps) <= PicMax THEN PicSite(Append(ps, case)) ELSE MegaSite

PicGrown(ps, case) ==
    IF Len(ps) < PicMax THEN PicSite(Append(ps, case)) ELSE MegaSite

(* The site as rt_resolve_send leaves it. *)
ResolvedSite(t, site, k, s) ==
    LET tgt == resolve_target_entry(t, k, s)
        Case(j, x) == [k |-> j, t |-> x]
    IN
    CASE site.kind = "unresolved" -> MonoSite(k, tgt)
      [] site.kind = "mono" /\ site.k = k -> MonoSite(k, tgt)
      [] site.kind = "mono" /\ site.k # k ->
            PicSite(<<Case(site.k, resolve_target_entry(t, site.k, s)), Case(k, tgt)>>)
      [] site.kind = "pic" /\ HasPair(site.ps, k) ->
            PicSite([i \in DOMAIN site.ps |->
                        IF site.ps[i].k = k THEN Case(k, tgt) ELSE site.ps[i]])
      [] site.kind = "pic" /\ ~HasPair(site.ps, k) ->
            PicGrown(site.ps, Case(k, tgt))

(* Mutant: a retired method's entries are not patched. *)
EntersRetired(tgt, k, verified) ==
    tgt = C2i \/ (ct.nms[tgt].st # "free" /\ (verified \/ ct.nms[tgt].k = k))

(* A jump to a method's entry gets in when the method is living and, at    *)
(* the unverified entry, its klass guard accepts the receiver; a retired   *)
(* method's entries branch to the resolve stub, and so does what is left   *)
(* of a freed block.  An adapter accepts any receiver.                     *)
Enters(tgt, k, verified) ==
    tgt = C2i \/ (ct.nms[tgt].st = "alive" /\ (verified \/ ct.nms[tgt].k = k))

(* The targets the machine code at a site jumps to without a stub's help. *)
DirectTargets(site, k) ==
    CASE site.kind = "mono" -> {tgt \in {site.t} : Enters(tgt, k, FALSE)}
      [] site.kind = "pic" ->
            {tgt \in {site.ps[i].t : i \in PairsFor(site.ps, k)} : Enters(tgt, k, TRUE)}
      [] OTHER -> {}

(* Arrival: compiled code runs; an adapter runs what lookup gives for the  *)
(* receiver, whatever method it was made for.                              *)
Land(tgt, k, s) ==
    Push(IF tgt = C2i THEN Interpreted(Truth(k, s), k, TRUE) ELSE Compiled(ct, tgt, k))

Nm == ct.nms[Top.nm]

(* A send that is not to the klass the body was specialised for. *)
CallsOut(k) ==
    /\ Running({"compiled"}) /\ Len(frames) < MaxDepth
    /\ Understands(k, Callee[Nm.s])
    /\ Nm.inline # None => Nm.inline.k # k

(* A resolved site. *)
CallDirect(k) ==
    /\ CallsOut(k)
    /\ \E tgt \in DirectTargets(Nm.site, k) : Land(tgt, k, Callee[Nm.s])
    /\ UNCHANGED <<lookupVars, ct, compiles>>

(* rt_resolve_send.  A stub that does not fit leaves the site as it was. *)
rt_resolve_send(k) ==
    /\ CallsOut(k)
    /\ Nm.site.kind # "mega" /\ DirectTargets(Nm.site, k) = {}
    /\ LET s == Callee[Nm.s]
           site == ResolvedSite(ct, Nm.site, k, s)
       IN  /\ Land(resolve_target_entry(ct, k, s), k, s)
           /\ \/ ct' = [ct EXCEPT !.nms[Top.nm].site = site]
              \/ site.kind # "mono" /\ UNCHANGED ct
    /\ UNCHANGED <<lookupVars, compiles>>

rt_mega_lookup(k) ==
    /\ CallsOut(k)
    /\ Nm.site.kind = "mega"
    /\ Land(resolve_target_entry(ct, k, Callee[Nm.s]), k, Callee[Nm.s])
    /\ UNCHANGED <<lookupVars, ct, compiles>>

-----------------------------------------------------------------------------
(***************************************************************************)
(* Deoptimization, returns, OSR                                            *)
(***************************************************************************)

(* rt_uncommon_trap up to the nested interpretation.  Bound: one trap to   *)
(* an activation.                                                          *)
rt_uncommon_trap ==
    /\ Running({"compiled"}) /\ Top.trap = 0
    /\ SetTop([Top EXCEPT !.tier = "deopted", !.nm = 0, !.trap = Top.nm])
    /\ UNCHANGED <<lookupVars, ct, compiles>>

(* A loop back-edge of retired code while the poll is armed. *)
rt_poll ==
    /\ Running({"compiled"})
    /\ ct.pending /\ Nm.st = "notEntrant"
    /\ SetTop([Top EXCEPT !.tier = "deopted", !.nm = 0])
    /\ UNCHANGED <<lookupVars, ct, compiles>>

(* Recompile on trap, for an id that may name another method by now.       *)
(* Nothing happens below the limits or with an unchanged profile; a failed *)
(* compile pins the version.                                               *)
note_uncommon_trap(t, id) ==
    LET nm == t.nms[id]
        m == Truth(nm.k, nm.s)
    IN  {[t |-> t, n |-> 0]}
        \cup IF id = 0 \/ id \notin Alive(t) THEN {}
             ELSE IF nm.ver >= MaxVersions THEN {}
             ELSE {[t |-> [t EXCEPT !.nms[id].ver = MaxVersions], n |-> 0]}
                  \cup IF ~CanCompile(t, nm.k, 0) THEN {}
                       ELSE {[t |-> make_not_entrant_lazy(
                                        install(t, nm.k, m, nm.ver + 1, "no", i).t, id),
                              n |-> 1] : i \in InlineChoices(m)}

(* The caller's site gets the compiled method, if it is still a site for   *)
(* this klass and selector; a PIC may find no room for its new stub.       *)
Repointed(t, cid, k, s, id) ==
    LET nm == t.nms[cid] IN
    IF Callee[nm.s] # s THEN {t}
    ELSE IF nm.site.kind = "mono" /\ nm.site.k = k
    THEN {[t EXCEPT !.nms[cid].site = MonoSite(k, id)]}
    ELSE IF nm.site.kind = "pic" /\ HasPair(nm.site.ps, k)
    THEN {t, [t EXCEPT !.nms[cid].site = ResolvedSite(t, nm.site, k, s)]}
    ELSE {t}

(* The end of rt_interpret_call: a hot method called through an adapter is *)
(* compiled and the calling site re-pointed.                               *)
AdapterEpilogue(t, n, f, cid) ==
    {[t |-> t, n |-> n]}
    \cup IF ~f.c2i \/ Truth(f.k, f.m[2]) # f.m THEN {}
         ELSE UNION {{[t |-> u, n |-> o.n] : u \in Repointed(o.t, cid, f.k, f.m[2], o.id)} :
                       o \in {x \in TriggerOutcomes(t, n, f.k, f.m) : x.id # 0}}

(* A redirected activation is deoptimized as its callee returns. *)
Resumed(f) ==
    IF f.redirected THEN [f EXCEPT !.tier = "deopted", !.nm = 0, !.redirected = FALSE] ELSE f

Return ==
    /\ frames # <<>>
    /\ LET below == Front(frames)
           caller == IF below = <<>> THEN 0 ELSE Last(below).nm
       IN  /\ \E o \in note_uncommon_trap(ct, Top.trap) :
                 \E p \in AdapterEpilogue(o.t, o.n, Top, caller) :
                    /\ ct' = p.t
                    /\ compiles' = compiles + p.n
           /\ frames' = IF below = <<>> THEN <<>>
                        ELSE [below EXCEPT ![Len(below)] = Resumed(@)]
    /\ UNCHANGED lookupVars

(* rt_osr_request: the loop of the running interpreted activation goes on  *)
(* in compiled code.  A half-warm OSR method is not entered again.         *)
OsrMethods(k, s) == {i \in Alive(ct) : ct.nms[i].k = k /\ ct.nms[i].s = s /\ ct.nms[i].osr # "no"}
rt_osr_request ==
    /\ Running({"interp", "deopted"})
    /\ Truth(Top.k, Top.m[2]) = Top.m
    /\ LET have == OsrMethods(Top.k, Top.m[2])
           key == ct.by_key[<<Top.k, Top.m[2]>>]
           ver == IF key = 0 THEN 0 ELSE ct.nms[key].ver
       IN  \/ \E id \in have :
                 /\ ct.nms[id].osr = "warm"
                 /\ SetTop([Top EXCEPT !.tier = "compiled", !.nm = id])
                 /\ UNCHANGED <<ct, compiles>>
           \/ /\ have = {} /\ CanCompile(ct, Top.k, 0)
              /\ \E i \in InlineChoices(Top.m), osr \in {"warm", "half"} :
                    LET r == install(ct, Top.k, Top.m, ver, osr, i)
                    IN  /\ ct' = r.t
                        /\ SetTop([Top EXCEPT !.tier = "compiled", !.nm = r.id])
              /\ compiles' = compiles + 1
    /\ UNCHANGED lookupVars

-----------------------------------------------------------------------------
(***************************************************************************)
(* Redefinition and collection                                             *)
(***************************************************************************)

(* install_method, run by a primitive of an interpreted activation. *)
install_method(k, s) ==
    /\ Interpreting
    /\ DefineMethod(k, s)
    /\ LET V == affected_by_install(ct, k, s)
           W == {i \in Installed(ct) : Assumed(ct.nms[i], k, s)}
       IN  /\ ct' = InvalidateAll(ct, V, W)
           /\ frames' = RedirectReturns(frames, V)
    /\ outdated' = outdated \cup Outdated(k, s)
    /\ UNCHANGED compiles

(* Collections: klasses move, what is keyed by their addresses is flushed  *)
(* or rebuilt; a full one reclaims retired code first.                     *)
Collect(t) ==
    /\ \E p \in Moves : ct' = rehash([t EXCEPT !.by_key = Readdressed(@, p)])
    /\ UNCHANGED <<lookupVars, frames, compiles>>

scavenge == Collect(ct)
full_gc == Collect(sweep_not_entrant_zombies(ct, frames))

Init ==
    /\ LookupInit
    /\ ct = [nms |-> [i \in Slots |-> NoNm],
             by_key |-> [key \in Keys |-> 0],
             pending |-> FALSE]
    /\ frames = <<>>
    /\ compiles = 0
    /\ outdated = {}

Next ==
    \/ \E k \in Klasses, s \in Selectors :
          SendMethod(k, s) \/ SendCompiledTarget(k, s) \/ install_method(k, s)
    \/ \E k \in Klasses : CallDirect(k) \/ rt_resolve_send(k) \/ rt_mega_lookup(k)
    \/ rt_uncommon_trap \/ rt_poll \/ Return \/ rt_osr_request
    \/ scavenge \/ full_gc

Spec == Init /\ [][Next]_vars

-----------------------------------------------------------------------------
(***************************************************************************)
(* Properties                                                              *)
(***************************************************************************)

(* The types of the state: an id names a slot of the code table, a call    *)
(* site's stub has at most PicMax arms.                                    *)
TypeOK ==
    /\ LookupTypeOK
    /\ \A i \in Slots :
          /\ ct.nms[i].st \in {"free", "alive", "notEntrant"}
          /\ i \in Installed(ct) /\ ct.nms[i].site.kind = "pic" =>
                Len(ct.nms[i].site.ps) \in 2..PicMax
    /\ ct.by_key \in [Keys -> Slots \cup {0}]
    /\ ct.pending \in BOOLEAN
    /\ Len(frames) <= MaxDepth
    /\ \A i \in DOMAIN frames :
          /\ frames[i].tier \in {"interp", "compiled", "deopted"}
          /\ frames[i].m \in Methods
          /\ frames[i].nm \in IF frames[i].tier = "compiled" THEN Slots ELSE {0}
    /\ compiles \in 0..MaxCompiles
    /\ outdated \subseteq [by : Methods, k : Klasses, m : Methods]

(***************************************************************************)
(* Through redefinition, replacement and moving collections the key table  *)
(* names, for the klass now at an address, a living method compiled from   *)
(* the method dispatch gives (nmethod.rs set_not_entrant, rehash).         *)
(***************************************************************************)
KeysNameCurrentCode ==
    \A k \in Klasses, s \in Selectors :
        LET id == ct.by_key[<<k, s>>] IN
        id # 0 => ct.nms[id].st = "alive" /\ ct.nms[id].m = Truth(k, s)

(***************************************************************************)
(* Only a redefinition takes a key's compiled code away: recompilation     *)
(* hands the key to the successor before the old version is retired, and   *)
(* neither the sweep nor a collection loses it (nmethod.rs, the successor  *)
(* guards of set_not_entrant and mark_zombie).                             *)
(***************************************************************************)
ReplacementKeepsKey ==
    [][\A k \in Klasses, s \in Selectors :
          (ct.by_key[<<k, s>>] # 0 /\ ct'.by_key[<<k, s>>] = 0) => dict' # dict]_vars

(***************************************************************************)
(* Redefinition retires every living method that inlined for a lookup it   *)
(* changes: the lookups that living code depends on give what they gave    *)
(* when it was compiled (deps.rs affected_by_install, inline_deps).  So a  *)
(* body that was current when it was inlined does not outlive its          *)
(* definition; one that came from a copied pair was outdated from the      *)
(* start, and goes with the next redefinition.                             *)
(***************************************************************************)
InvalidationComplete ==
    \A i \in Alive(ct) :
        LET nm == ct.nms[i] IN
        nm.inline # None => nm.inline.found = Truth(nm.inline.k, Callee[nm.s])

(* Installed code for klass k and selector s, or an adapter. *)
TargetOK(tgt, k, s) ==
    tgt = C2i \/ (ct.nms[tgt].st # "free" /\ ct.nms[tgt].k = k /\ ct.nms[tgt].s = s)

(***************************************************************************)
(* The call sites of living code lead to installed methods compiled for    *)
(* the site's klass and selector: flushing resets every one that led to    *)
(* reclaimed code before the slot is reused (flush.rs flush_nmethod).      *)
(***************************************************************************)
SitesLeadToTheirCode ==
    \A i \in Alive(ct) :
        LET site == ct.nms[i].site
            s == Callee[ct.nms[i].s]
        IN  /\ site.kind = "mono" => TargetOK(site.t, site.k, s)
            /\ site.kind = "pic" =>
                  \A j \in DOMAIN site.ps : TargetOK(site.ps[j].t, site.ps[j].k, s)

(***************************************************************************)
(* No activation runs in reclaimed or reused code: the sweep sees it       *)
(* through its frame (flush.rs sweep_not_entrant_zombies).                 *)
(***************************************************************************)
RunningCodeKept ==
    \A i \in DOMAIN frames :
        frames[i].tier = "compiled" =>
            /\ ct.nms[frames[i].nm].st # "free"
            /\ ct.nms[frames[i].nm].m = frames[i].m

(***************************************************************************)
(* Code a redefinition made wrong is left.  If it was living, at the first *)
(* boundary: none of its activations is running it, and the waiting ones   *)
(* will deoptimize when their callee returns (flush.rs make_not_entrant).  *)
(* If a recompilation had retired it (make_not_entrant_lazy), deps.rs does *)
(* not see it and its activations resume in it: for them the loop poll is  *)
(* armed, which ends them at their next back-edge (rt_poll), and nothing   *)
(* more is claimed.                                                        *)
(***************************************************************************)
WrongCodeIsLeft ==
    \A i \in DOMAIN frames :
        LET nm == ct.nms[frames[i].nm] IN
        frames[i].tier = "compiled" =>
            /\ nm.stale = "found" => i < Len(frames) /\ frames[i].redirected
            /\ nm.stale = "missed" => nm.st = "notEntrant" /\ ct.pending

(***************************************************************************)
(* A send from living compiled code, through any kind of site, an adapter  *)
(* or a stub, starts the method the dictionaries give at that moment.      *)
(***************************************************************************)
CompiledSendsAreCurrent ==
    [][(Running({"compiled"}) /\ Nm.st = "alive" /\ Len(frames') > Len(frames)) =>
          Last(frames').m = Truth(Last(frames').k, Callee[Nm.s])]_vars
=============================================================================
