--------------------------- MODULE CodeLifeProofs ---------------------------
(***************************************************************************)
(* Compiled code stays in step with the dictionaries and with the stack:   *)
(* for any classes, code cache, call depth and redefinitions.              *)
(***************************************************************************)
EXTENDS CodeLife, LookupProofs

(***************************************************************************)
(* The inductive invariant.  The parts about the code table are stated of  *)
(* any table t, since one step may take several operations on it.          *)
(***************************************************************************)

Target == Slots \cup {C2i}
Arm == [k : Klasses, t : Target]
MonoRec == [kind : {"mono"}, k : Klasses, t : Target]
PicRec == [kind : {"pic"}, ps : Seq(Arm)]
Inline == {None} \cup [k : Klasses, m : Methods, found : Methods]

Site == {Unresolved, MegaSite} \cup MonoRec
            \cup {site \in PicRec : Len(site.ps) \in 2..PicMax}

OsrKinds == {"no", "warm", "half"}

NmRec == [st : {"alive", "notEntrant"}, k : Klasses, s : Selectors, m : Methods,
          ver : Nat, osr : OsrKinds, inline : Inline,
          site : Site, stale : {"no", "found", "missed"}]

Table == [nms : [Slots -> NmRec \cup {NoNm}], by_key : [Keys -> Slots \cup {0}],
          pending : BOOLEAN]

(* A key names a living method of its own klass and selector. *)
KeysOK(t) ==
    \A key \in Keys : LET id == t.by_key[key] IN
        id # 0 => id \in Alive(t) /\ KeyOf(t.nms[id]) = key

(* Living code was compiled from what dispatch gives, depends on no lookup *)
(* that gives something else by now, and is not what a redefinition made   *)
(* wrong.                                                                  *)
NmCurrent(nm) ==
    /\ nm.m = Truth(nm.k, nm.s) /\ nm.stale = "no"
    /\ nm.inline # None => nm.inline.found = Truth(nm.inline.k, Callee[nm.s])
CodeCurrent(t) == \A i \in Alive(t) : NmCurrent(t.nms[i])

(* A call site's targets. *)
CodeFor(t, tgt, k, s) ==
    tgt \in Slots => t.nms[tgt].st # "free" /\ t.nms[tgt].k = k /\ t.nms[tgt].s = s
SiteOK(t, site, s) ==
    /\ site.kind = "mono" => CodeFor(t, site.t, site.k, s)
    /\ site.kind = "pic" => \A j \in 1..Len(site.ps) : CodeFor(t, site.ps[j].t, site.ps[j].k, s)
SitesOK(t) == \A i \in Alive(t) : SiteOK(t, t.nms[i].site, Callee[t.nms[i].s])

PollOK(t) == NotEntrant(t) # {} => t.pending

TableOK(t) == t \in Table /\ KeysOK(t) /\ CodeCurrent(t) /\ SitesOK(t) /\ PollOK(t)

(* Activations: an interpreted one holds no code; one entered through an   *)
(* adapter was called by compiled code, which waits for it.                *)
FrameRec == [tier : {"interp", "compiled", "deopted"}, m : Methods, k : Klasses,
             nm : Slots \cup {0}, c2i : BOOLEAN, trap : Slots \cup {0}, redirected : BOOLEAN]
FramesTyped(fs) ==
    /\ fs \in Seq(FrameRec) /\ Len(fs) <= MaxDepth
    /\ \A i \in 1..Len(fs) :
          /\ fs[i].tier = "compiled" <=> fs[i].nm \in Slots
          /\ fs[i].c2i => i # 1 /\ fs[i - 1].tier = "compiled"

(* What runs is installed, and living code a redefinition made wrong is    *)
(* left.                                                                   *)
FrameOK(t, f) ==
    f.tier = "compiled" =>
        t.nms[f.nm].st # "free" /\ t.nms[f.nm].m = f.m
CodeKept(t, fs) == \A i \in 1..Len(fs) : FrameOK(t, fs[i])
WrongLeft(t, fs) ==
    \A i \in 1..Len(fs) :
        (fs[i].tier = "compiled" /\ t.nms[fs[i].nm].stale = "found") => i < Len(fs) /\ fs[i].redirected

(* The old answers left in the inline caches are methods. *)
OutdatedTyped == outdated \subseteq [by : Methods, k : Klasses, m : Methods]

IInv ==
    /\ LookupTypeOK /\ OutdatedTyped /\ TableOK(ct) /\ compiles \in 0..MaxCompiles
    /\ FramesTyped(frames) /\ CodeKept(ct, frames) /\ WrongLeft(ct, frames)

-----------------------------------------------------------------------------
(***************************************************************************)
(* Operations on the code table                                            *)
(***************************************************************************)

(* An installed slot holds a compiled method, a free one nothing. *)
LEMMA SlotTyped ==
    ASSUME NEW t \in Table, NEW i \in Slots
    PROVE  /\ t.nms[i].st \in {"free", "alive", "notEntrant"}
           /\ t.nms[i].st # "free" => t.nms[i] \in NmRec
           /\ t.nms[i].st = "free" => t.nms[i] = NoNm
  <1>1. t.nms[i] \in NmRec \cup {NoNm}
    BY DEF Table
  <1>2. NoNm.st = "free"
    BY DEF NoNm
  <1>3. \A nm \in NmRec : nm.st \in {"alive", "notEntrant"}
    BY DEF NmRec
  <1> QED BY <1>1, <1>2, <1>3

(* What later operations on the table may not disturb: installed code      *)
(* stays what it is, and keys that name code keep naming some.             *)
Keeps(t, u) ==
    /\ \A i \in Slots : t.nms[i].st # "free" =>
          /\ u.nms[i].st # "free" /\ u.nms[i].m = t.nms[i].m
          /\ u.nms[i].stale = t.nms[i].stale
          /\ u.nms[i].k = t.nms[i].k /\ u.nms[i].s = t.nms[i].s
    /\ \A key \in Keys : t.by_key[key] # 0 => u.by_key[key] # 0

(* Keeping is transitive. *)
LEMMA KeepsTransitive ==
    ASSUME NEW t, NEW u, NEW v, Keeps(t, u), Keeps(u, v) PROVE Keeps(t, v)
  BY DEF Keeps

(* Sites that led to installed code still do. *)
LEMMA SiteStaysOK ==
    ASSUME NEW t, NEW u, Keeps(t, u), NEW site, NEW s, SiteOK(t, site, s)
    PROVE  SiteOK(u, site, s)
  BY DEF Keeps, SiteOK, CodeFor

(* Activations that ran installed code still do. *)
LEMMA FramesStayOK ==
    ASSUME NEW t, NEW u, Keeps(t, u), NEW fs, FramesTyped(fs), CodeKept(t, fs), WrongLeft(t, fs)
    PROVE  CodeKept(u, fs) /\ WrongLeft(u, fs)
  <1>1. ASSUME NEW i \in 1..Len(fs), fs[i].tier = "compiled"
        PROVE  fs[i].nm \in Slots /\ t.nms[fs[i].nm].st # "free" /\ t.nms[fs[i].nm].m = fs[i].m
    BY <1>1 DEF FramesTyped, CodeKept, FrameOK
  <1> QED BY <1>1 DEF Keeps, CodeKept, FrameOK, WrongLeft

(* A free slot is there when the code cache is not full, and the first one *)
(* is taken.                                                               *)
LEMMA FirstFree ==
    ASSUME NEW t, Installed(t) # Slots
    PROVE  (CHOOSE i \in Slots \ Installed(t) : \A j \in Slots \ Installed(t) : i <= j)
             \in Slots \ Installed(t)
  <1> DEFINE F == Slots \ Installed(t)
  <1>1. F # {} /\ F \subseteq Nat
    BY CodeAssumption DEF Installed, Slots
  <1> HIDE DEF F
  <1>2. \E i \in F : \A j \in F : i <= j
    BY <1>1, LeastNat
  <1>3. (CHOOSE i \in F : \A j \in F : i <= j) \in F
    BY <1>2
  <1> QED BY <1>3 DEF F

(* What the site of a method may give for a klass is a method. *)
LEMMA AnswersTyped ==
    ASSUME LookupTypeOK, OutdatedTyped, NEW m \in Methods, NEW k \in Klasses,
           Understands(k, Callee[m[2]])
    PROVE  Callee[m[2]] \in Selectors /\ Answers(m, k) \subseteq Methods
  <1>1. Callee[m[2]] \in Selectors
    <2>1. m[2] \in Selectors
      BY DEF Methods
    <2> QED BY <2>1, CodeAssumption DEF Understands
  <1>2. Truth(k, Callee[m[2]]) \in Methods
    BY <1>1, WalkTyped DEF Understands, Truth
  <1>3. \A p \in outdated : p.m \in Methods
    BY DEF OutdatedTyped
  <1> QED BY <1>1, <1>2, <1>3 DEF Answers

(* What the compiler inlines is a method, and what it depends on is what   *)
(* lookup gives.                                                           *)
LEMMA InlineTyped ==
    ASSUME LookupTypeOK, OutdatedTyped, NEW m \in Methods, NEW inline \in InlineChoices(m)
    PROVE  /\ inline \in Inline
           /\ inline # None => inline.found = Truth(inline.k, Callee[m[2]])
  <1>1. CASE inline = None
    BY <1>1 DEF Inline
  <1>2. CASE inline # None
    <2>1. \E k \in Hot : /\ Understands(k, Callee[m[2]])
                         /\ \E x \in Answers(m, k) :
                              inline = [k |-> k, m |-> x, found |-> Truth(k, Callee[m[2]])]
      BY <1>2, Zenon DEF InlineChoices
    <2>0. PICK k \in Hot : /\ Understands(k, Callee[m[2]])
                          /\ \E x \in Answers(m, k) :
                               inline = [k |-> k, m |-> x, found |-> Truth(k, Callee[m[2]])]
      BY <2>1
    <2>2. PICK x \in Answers(m, k) :
            /\ Understands(k, Callee[m[2]])
            /\ inline = [k |-> k, m |-> x, found |-> Truth(k, Callee[m[2]])]
      BY <2>0
    <2>3. k \in Klasses
      BY CodeAssumption
    <2>4. Callee[m[2]] \in Selectors /\ x \in Methods
      BY <2>2, <2>3, AnswersTyped
    <2>5. Truth(k, Callee[m[2]]) \in Methods
      BY <2>2, <2>3, <2>4, WalkTyped DEF Understands, Truth
    <2> QED BY <2>2, <2>3, <2>4, <2>5 DEF Inline
  <1> QED BY <1>1, <1>2

(* Installing code for what dispatch gives keeps the table in order: the   *)
(* new method is the one the key names, and no other slot is touched.      *)
LEMMA InstallOK ==
    ASSUME LookupTypeOK, OutdatedTyped, NEW t, TableOK(t), Installed(t) # Slots,
           NEW k \in Klasses, NEW m \in Methods, Truth(k, m[2]) = m,
           NEW ver \in Nat, NEW osr \in OsrKinds, NEW inline \in InlineChoices(m)
    PROVE  LET r == install(t, k, m, ver, osr, inline) IN
           /\ TableOK(r.t) /\ Keeps(t, r.t)
           /\ r.id \in Slots \ Installed(t) /\ r.id \in Alive(r.t)
           /\ r.t.nms[r.id].m = m /\ r.t.nms[r.id].k = k /\ r.t.nms[r.id].s = m[2]
           /\ r.t.by_key[<<k, m[2]>>] = r.id
           /\ \A i \in Slots : i # r.id => r.t.nms[i] = t.nms[i]
  <1> DEFINE r == install(t, k, m, ver, osr, inline)
             id == CHOOSE i \in Slots \ Installed(t) : \A j \in Slots \ Installed(t) : i <= j
             nm == [st |-> "alive", k |-> k, s |-> m[2], m |-> m, ver |-> ver, osr |-> osr,
                    inline |-> inline, site |-> Unresolved, stale |-> "no"]
             u == [t EXCEPT !.nms[id] = nm, !.by_key[<<k, m[2]>>] = id]
             key0 == <<k, m[2]>>
  <1>1. r.id = id /\ r.t = u
    BY DEF install, KeyOf
  <1>2. id \in Slots \ Installed(t)
    BY FirstFree
  <1>3. m[2] \in Selectors /\ key0 \in Keys
    BY DEF Methods, Keys
  <1>4. nm \in NmRec
    BY <1>3, InlineTyped DEF NmRec, Site
  <1>5. /\ nm.st = "alive" /\ nm.m = m /\ nm.k = k /\ nm.s = m[2] /\ nm.site = Unresolved
        /\ KeyOf(nm) = key0 /\ nm.stale = "no" /\ nm.inline = inline
    BY DEF KeyOf
  <1> HIDE DEF id, nm
  <1>6. /\ u \in Table
        /\ \A i \in Slots : u.nms[i] = IF i = id THEN nm ELSE t.nms[i]
        /\ \A key \in Keys : u.by_key[key] = IF key = key0 THEN id ELSE t.by_key[key]
        /\ u.pending = t.pending
    <2>1. t \in Table
      BY DEF TableOK
    <2> QED BY <1>2, <1>3, <1>4, <2>1 DEF Table
  <1> HIDE DEF u, key0
  <1>7. t.nms[id].st = "free" /\ id # 0
    BY <1>2, CodeAssumption DEF Installed, Slots
  <1>8. Alive(u) = Alive(t) \cup {id} /\ NotEntrant(u) = NotEntrant(t)
    BY <1>2, <1>5, <1>6, <1>7 DEF Alive, NotEntrant
  <1>9. Keeps(t, u)
    BY <1>2, <1>6, <1>7 DEF Keeps
  <1>10. KeysOK(u)
    <2> SUFFICES ASSUME NEW key \in Keys, u.by_key[key] # 0
                 PROVE  u.by_key[key] \in Alive(u) /\ KeyOf(u.nms[u.by_key[key]]) = key
      BY DEF KeysOK
    <2>1. CASE key = key0
      BY <1>2, <1>5, <1>6, <1>8, <2>1
    <2>2. CASE key # key0
      <3>1. u.by_key[key] = t.by_key[key]
        BY <1>6, <2>2
      <3>2. t.by_key[key] \in Alive(t) /\ KeyOf(t.nms[t.by_key[key]]) = key
        BY <3>1 DEF TableOK, KeysOK
      <3>3. t.by_key[key] \in Slots /\ t.by_key[key] # id
        BY <1>7, <3>2 DEF Alive
      <3> QED BY <1>6, <1>8, <3>1, <3>2, <3>3
    <2> QED BY <2>1, <2>2
  <1>11. CodeCurrent(u)
    <2>1. NmCurrent(nm)
      BY <1>5, InlineTyped DEF NmCurrent
    <2>2. ASSUME NEW i \in Alive(t) PROVE i \in Slots /\ u.nms[i] = t.nms[i] /\ NmCurrent(t.nms[i])
      BY <1>6, <1>7 DEF Alive, TableOK, CodeCurrent
    <2> QED BY <1>2, <1>6, <1>8, <2>1, <2>2 DEF CodeCurrent
  <1>12. SitesOK(u)
    <2>1. SiteOK(u, nm.site, Callee[nm.s])
      BY <1>5 DEF SiteOK, Unresolved
    <2>2. ASSUME NEW i \in Alive(t)
          PROVE  u.nms[i] = t.nms[i] /\ SiteOK(u, t.nms[i].site, Callee[t.nms[i].s])
      <3>1. i \in Slots /\ u.nms[i] = t.nms[i]
        BY <1>6, <1>7 DEF Alive
      <3>2. SiteOK(t, t.nms[i].site, Callee[t.nms[i].s])
        BY DEF TableOK, SitesOK
      <3> QED BY <1>9, <3>1, <3>2, SiteStaysOK
    <2> QED BY <1>2, <1>6, <1>8, <2>1, <2>2 DEF SitesOK
  <1>13. PollOK(u)
    BY <1>6, <1>8 DEF TableOK, PollOK
  <1>14. u.by_key[key0] = id /\ u.nms[id] = nm
    BY <1>2, <1>3, <1>6
  <1> QED BY <1>1, <1>2, <1>5, <1>6, <1>8, <1>9, <1>10, <1>11, <1>12, <1>13, <1>14 DEF TableOK, key0

(* The same of a result r. *)
LEMMA InstalledOK ==
    ASSUME LookupTypeOK, OutdatedTyped, NEW t, TableOK(t), Installed(t) # Slots,
           NEW k \in Klasses, NEW m \in Methods, Truth(k, m[2]) = m,
           NEW ver \in Nat, NEW osr \in OsrKinds, NEW inline \in InlineChoices(m),
           NEW r, r = install(t, k, m, ver, osr, inline)
    PROVE  TableOK(r.t) /\ Keeps(t, r.t) /\ r.id \in Alive(r.t) /\ r.t.nms[r.id].m = m
  <1> DEFINE q == install(t, k, m, ver, osr, inline)
  <1>1. /\ TableOK(q.t) /\ Keeps(t, q.t)
        /\ q.id \in Slots \ Installed(t) /\ q.id \in Alive(q.t)
        /\ q.t.nms[q.id].m = m /\ q.t.nms[q.id].k = k /\ q.t.nms[q.id].s = m[2]
        /\ q.t.by_key[<<k, m[2]>>] = q.id
        /\ \A i \in Slots : i # q.id => q.t.nms[i] = t.nms[i]
    BY InstallOK
  <1>2. r = q
    OBVIOUS
  <1> HIDE DEF q
  <1> QED BY <1>1, <1>2

(* Retiring a method that is not its key's, because the key names its      *)
(* successor, keeps the table in order and the key.                        *)
LEMMA RetireOK ==
    ASSUME NEW t, TableOK(t), NEW id \in Alive(t), t.by_key[KeyOf(t.nms[id])] # id
    PROVE  LET u == make_not_entrant_lazy(t, id) IN
           /\ TableOK(u) /\ Keeps(t, u)
           /\ \A i \in Slots : i # id => u.nms[i] = t.nms[i]
           /\ u.by_key = t.by_key
  <1> DEFINE u == make_not_entrant_lazy(t, id)
             key0 == KeyOf(t.nms[id])
             nm == [t.nms[id] EXCEPT !.st = "notEntrant"]
  <1>0. t \in Table /\ id \in Slots /\ t.nms[id].st = "alive" /\ t.nms[id] \in NmRec
    BY SlotTyped DEF TableOK, Alive
  <1>1. key0 \in Keys
    BY <1>0 DEF KeyOf, NmRec, Keys
  <1>2. /\ u.nms = [t.nms EXCEPT ![id].st = "notEntrant"]
        /\ u.by_key = [t.by_key EXCEPT ![key0] = IF @ = id THEN 0 ELSE @]
        /\ u.pending = TRUE
        /\ u = [nms |-> u.nms, by_key |-> u.by_key, pending |-> u.pending]
    <2> DEFINE f == [t.nms EXCEPT ![id].st = "notEntrant"]
               g == [t.by_key EXCEPT ![key0] = IF @ = id THEN 0 ELSE @]
    <2>1. t = [nms |-> t.nms, by_key |-> t.by_key, pending |-> t.pending]
      BY <1>0 DEF Table
    <2>2. set_not_entrant(t, id) = [t EXCEPT !.nms = f, !.by_key = g]
      BY <2>1 DEF set_not_entrant
    <2>3. u = [[t EXCEPT !.nms = f, !.by_key = g] EXCEPT !.pending = TRUE]
      BY <2>2 DEF make_not_entrant_lazy
    <2> HIDE DEF f, g, u
    <2>4. u = [nms |-> f, by_key |-> g, pending |-> TRUE]
      BY <2>1, <2>3
    <2> QED BY <2>4 DEF f, g
  <1>3. u.by_key = t.by_key
    BY <1>0, <1>1, <1>2 DEF Table
  <1>4. /\ nm \in NmRec /\ nm.st = "notEntrant" /\ nm.m = t.nms[id].m
        /\ nm.stale = t.nms[id].stale /\ nm.k = t.nms[id].k /\ nm.s = t.nms[id].s
    BY <1>0 DEF NmRec
  <1>5. \A i \in Slots : u.nms[i] = IF i = id THEN nm ELSE t.nms[i]
    BY <1>0, <1>2 DEF Table
  <1> HIDE DEF nm, key0
  <1>6. u \in Table
    <2>1. u.nms = [i \in Slots |-> u.nms[i]]
      BY <1>0, <1>2 DEF Table
    <2>2. u.nms \in [Slots -> NmRec \cup {NoNm}]
      BY <1>0, <1>4, <1>5, <2>1 DEF Table
    <2> HIDE DEF u
    <2> QED BY <1>0, <1>2, <1>3, <2>2 DEF Table
  <1> HIDE DEF u
  <1>7. Alive(u) = Alive(t) \ {id} /\ Alive(u) \subseteq Slots
    BY <1>0, <1>4, <1>5 DEF Alive
  <1>8. Keeps(t, u)
    BY <1>3, <1>4, <1>5 DEF Keeps
  <1>9. KeysOK(u)
    <2> SUFFICES ASSUME NEW key \in Keys, u.by_key[key] # 0
                 PROVE  u.by_key[key] \in Alive(u) /\ KeyOf(u.nms[u.by_key[key]]) = key
      BY DEF KeysOK
    <2>1. t.by_key[key] \in Alive(t) /\ KeyOf(t.nms[t.by_key[key]]) = key
      BY <1>3 DEF TableOK, KeysOK
    <2>2. t.by_key[key] # id
      BY <2>1
    <2> QED BY <1>3, <1>5, <1>7, <2>1, <2>2 DEF Alive
  <1>10. CodeCurrent(u)
    BY <1>5, <1>7 DEF TableOK, CodeCurrent
  <1>11. SitesOK(u)
    <2> SUFFICES ASSUME NEW i \in Alive(u) PROVE SiteOK(u, u.nms[i].site, Callee[u.nms[i].s])
      BY DEF SitesOK
    <2>1. SiteOK(t, t.nms[i].site, Callee[t.nms[i].s])
      BY <1>7 DEF TableOK, SitesOK
    <2> QED BY <1>5, <1>7, <1>8, <2>1, SiteStaysOK
  <1>12. PollOK(u)
    BY <1>2 DEF PollOK
  <1> QED BY <1>3, <1>5, <1>6, <1>8, <1>9, <1>10, <1>11, <1>12 DEF TableOK, u

(* Writing a call site with targets of its klasses and selector, or a      *)
(* version number, keeps the table in order.                               *)
LEMMA RewriteOK ==
    ASSUME NEW t, TableOK(t), NEW id \in Slots, t.nms[id].st # "free", NEW nm \in NmRec,
           nm.st = t.nms[id].st, nm.k = t.nms[id].k, nm.s = t.nms[id].s, nm.m = t.nms[id].m,
           nm.inline = t.nms[id].inline, nm.stale = t.nms[id].stale,
           nm.st = "alive" => SiteOK(t, nm.site, Callee[nm.s]),
           NEW u, u = [t EXCEPT !.nms[id] = nm]
    PROVE  TableOK(u) /\ Keeps(t, u)
  <1>0. t \in Table
    BY DEF TableOK
  <1>1. /\ u \in Table /\ u.by_key = t.by_key /\ u.pending = t.pending
        /\ \A i \in Slots : u.nms[i] = IF i = id THEN nm ELSE t.nms[i]
    BY <1>0 DEF Table
  <1>2. \A i \in Slots : u.nms[i].st = t.nms[i].st
    BY <1>1
  <1>3. Alive(u) = Alive(t) /\ NotEntrant(u) = NotEntrant(t) /\ Alive(u) \subseteq Slots
    BY <1>2 DEF Alive, NotEntrant
  <1>4. Keeps(t, u)
    BY <1>1 DEF Keeps
  <1>5. KeysOK(u)
    <2> SUFFICES ASSUME NEW key \in Keys, u.by_key[key] # 0
                 PROVE  u.by_key[key] \in Alive(u) /\ KeyOf(u.nms[u.by_key[key]]) = key
      BY DEF KeysOK
    <2>1. t.by_key[key] \in Alive(t) /\ KeyOf(t.nms[t.by_key[key]]) = key
      BY <1>1 DEF TableOK, KeysOK
    <2> QED BY <1>1, <1>3, <2>1 DEF KeyOf
  <1>6. CodeCurrent(u)
    BY <1>1, <1>3 DEF TableOK, CodeCurrent, NmCurrent
  <1>7. SitesOK(u)
    <2> SUFFICES ASSUME NEW i \in Alive(u) PROVE SiteOK(u, u.nms[i].site, Callee[u.nms[i].s])
      BY DEF SitesOK
    <2>1. SiteOK(t, u.nms[i].site, Callee[u.nms[i].s])
      BY <1>1, <1>3 DEF TableOK, SitesOK, Alive
    <2> QED BY <1>4, <2>1, SiteStaysOK
  <1>8. PollOK(u)
    BY <1>1, <1>3 DEF TableOK, PollOK
  <1> QED BY <1>1, <1>4, <1>5, <1>6, <1>7, <1>8 DEF TableOK

(* flush_nmethods of retired code: the sites that led there are reset, so  *)
(* nothing living leads to a freed slot, and no key is lost.               *)
LEMMA FlushOK ==
    ASSUME NEW t, TableOK(t), NEW F, F \subseteq NotEntrant(t)
    PROVE  LET u == flush_nmethods(t, F) IN
           /\ TableOK(u) /\ u.by_key = t.by_key
           /\ NotEntrant(u) = NotEntrant(t) \ F
           /\ \A i \in Slots \ F : /\ u.nms[i].st = t.nms[i].st
                                   /\ u.nms[i].st # "free" =>
                                        /\ u.nms[i].m = t.nms[i].m
                                        /\ u.nms[i].k = t.nms[i].k /\ u.nms[i].s = t.nms[i].s
                                        /\ u.nms[i].stale = t.nms[i].stale
           /\ u \in Table
  <1> DEFINE u == flush_nmethods(t, F)
             New(i) == IF i \in F THEN NoNm
                       ELSE IF i \in Alive(t) /\ Reaches(t.nms[i].site, F)
                            THEN [t.nms[i] EXCEPT !.site = Unresolved]
                            ELSE t.nms[i]
  <1>0. t \in Table /\ F \subseteq Slots
    BY DEF TableOK, NotEntrant
  <1>1. /\ u = [t EXCEPT !.nms = [i \in Slots |-> New(i)],
                         !.by_key = [key \in DOMAIN t.by_key |->
                                       IF t.by_key[key] \in F THEN 0 ELSE t.by_key[key]]]
    BY DEF flush_nmethods
  <1>2. [key \in DOMAIN t.by_key |-> IF t.by_key[key] \in F THEN 0 ELSE t.by_key[key]] = t.by_key
    <2>1. t.by_key \in [Keys -> Slots \cup {0}]
      BY <1>0 DEF Table
    <2>2. \A key \in Keys : t.by_key[key] \notin F
      <3> SUFFICES ASSUME NEW key \in Keys, t.by_key[key] \in F PROVE FALSE
        OBVIOUS
      <3>1. t.by_key[key] # 0 /\ t.nms[t.by_key[key]].st = "notEntrant"
        <4>1. t.by_key[key] \in NotEntrant(t) /\ t.by_key[key] \in Slots
          BY <1>0
        <4>2. \A i \in Slots : i # 0
          BY CodeAssumption DEF Slots
        <4> QED BY <4>1, <4>2 DEF NotEntrant
      <3> QED BY <3>1 DEF TableOK, KeysOK, Alive
    <2> QED BY <2>1, <2>2
  <1>3. /\ u.by_key = t.by_key /\ u.pending = t.pending
        /\ u.nms = [i \in Slots |-> New(i)]
        /\ u = [nms |-> u.nms, by_key |-> u.by_key, pending |-> u.pending]
    BY <1>0, <1>1, <1>2 DEF Table
  <1> HIDE DEF u
  <1>4. ASSUME NEW i \in Slots, i \notin F, t.nms[i].st # "free"
        PROVE  /\ New(i) \in NmRec /\ New(i).st = t.nms[i].st /\ New(i).m = t.nms[i].m
               /\ New(i).k = t.nms[i].k /\ New(i).s = t.nms[i].s
               /\ New(i).stale = t.nms[i].stale /\ New(i).inline = t.nms[i].inline
               /\ New(i).site \in {t.nms[i].site, Unresolved}
               /\ i \in Alive(t) => New(i).site = Unresolved \/ ~Reaches(New(i).site, F)
    <2>1. t.nms[i] \in NmRec
      BY <1>0, <1>4, SlotTyped
    <2>2. CASE i \in Alive(t) /\ Reaches(t.nms[i].site, F)
      BY <1>4, <2>1, <2>2 DEF NmRec, Site
    <2>3. CASE ~(i \in Alive(t) /\ Reaches(t.nms[i].site, F))
      BY <1>4, <2>1, <2>3
    <2> QED BY <2>2, <2>3
  <1>5. ASSUME NEW i \in Slots, i \notin F, t.nms[i].st = "free" PROVE New(i) = t.nms[i]
    BY <1>5 DEF Alive
  <1>6. \A i \in Slots : i \in F => New(i) = NoNm
    OBVIOUS
  <1> HIDE DEF New
  <1>7. u \in Table
    <2>1. \A i \in Slots : New(i) \in NmRec \cup {NoNm}
      BY <1>0, <1>4, <1>5, <1>6 DEF Table
    <2> QED BY <1>0, <1>3, <2>1 DEF Table
  <1>8. \A i \in Slots : u.nms[i] = New(i)
    BY <1>3
  <1>9. NoNm.st = "free"
    BY DEF NoNm
  <1>10. \A i \in Slots \ F : u.nms[i].st = t.nms[i].st
    BY <1>4, <1>5, <1>8
  <1>11. Alive(u) = Alive(t) /\ NotEntrant(u) = NotEntrant(t) \ F /\ Alive(t) \subseteq Slots \ F
    BY <1>0, <1>6, <1>8, <1>9, <1>10 DEF Alive, NotEntrant
  <1>12. KeysOK(u)
    <2> SUFFICES ASSUME NEW key \in Keys, u.by_key[key] # 0
                 PROVE  u.by_key[key] \in Alive(u) /\ KeyOf(u.nms[u.by_key[key]]) = key
      BY DEF KeysOK
    <2>1. t.by_key[key] \in Alive(t) /\ KeyOf(t.nms[t.by_key[key]]) = key
      BY <1>3 DEF TableOK, KeysOK
    <2> QED BY <1>3, <1>4, <1>8, <1>11, <2>1 DEF KeyOf, Alive
  <1>13. CodeCurrent(u)
    BY <1>4, <1>8, <1>11 DEF TableOK, CodeCurrent, NmCurrent, Alive
  <1>14. SitesOK(u)
    <2> SUFFICES ASSUME NEW i \in Alive(t) PROVE SiteOK(u, New(i).site, Callee[New(i).s])
      BY <1>8, <1>11 DEF SitesOK, Alive
    <2>0. i \in Slots /\ i \notin F /\ t.nms[i].st # "free"
      BY <1>11 DEF Alive
    <2>1. CASE New(i).site = Unresolved
      BY <2>1 DEF SiteOK, Unresolved
    <2>2. CASE New(i).site = t.nms[i].site /\ ~Reaches(New(i).site, F)
      <3> DEFINE site == New(i).site
                 s == Callee[New(i).s]
      <3>1. SiteOK(t, site, s)
        BY <1>4, <2>0, <2>2 DEF TableOK, SitesOK
      <3>2. ASSUME NEW tgt, NEW k, CodeFor(t, tgt, k, s), tgt \notin F
            PROVE  CodeFor(u, tgt, k, s)
        BY <1>4, <1>8, <3>2 DEF CodeFor
      <3>3. site.kind = "pic" => DOMAIN site.ps = 1..Len(site.ps)
        <4>1. site \in Site
          BY <1>4, <2>0 DEF NmRec
        <4>2. Unresolved.kind # "pic" /\ MegaSite.kind # "pic"
                /\ \A x \in MonoRec : x.kind # "pic"
          BY DEF Unresolved, MegaSite, MonoRec
        <4>3. site.kind = "pic" => site \in PicRec
          BY <4>1, <4>2 DEF Site
        <4>4. \A x \in PicRec : x.ps \in Seq(Arm)
          BY DEF PicRec
        <4> QED BY <4>3, <4>4, LenProperties
      <3> HIDE DEF site, s
      <3>4. /\ site.kind = "mono" => site.t \notin F
            /\ site.kind = "pic" => \A j \in 1..Len(site.ps) : site.ps[j].t \notin F
        BY <2>2, <3>3 DEF Reaches, site
      <3>5. SiteOK(u, site, s)
        BY <3>1, <3>2, <3>4 DEF SiteOK
      <3> QED BY <3>5 DEF site, s
    <2> QED BY <1>4, <2>0, <2>1, <2>2
  <1>15. PollOK(u)
    BY <1>3, <1>11 DEF TableOK, PollOK
  <1>16. \A i \in Slots \ F : u.nms[i].st # "free" =>
            /\ u.nms[i].m = t.nms[i].m /\ u.nms[i].stale = t.nms[i].stale
            /\ u.nms[i].k = t.nms[i].k /\ u.nms[i].s = t.nms[i].s
    BY <1>4, <1>8, <1>10
  <1> QED BY <1>3, <1>7, <1>10, <1>11, <1>12, <1>13, <1>14, <1>15, <1>16 DEF TableOK, u

(* What is said of the code of a table depends on its slots only. *)
LEMMA SameCodeOK ==
    ASSUME NEW t, TableOK(t), NEW u, u.nms = t.nms
    PROVE  /\ Alive(u) = Alive(t) /\ NotEntrant(u) = NotEntrant(t)
           /\ CodeCurrent(u) /\ SitesOK(u)
  <1>1. Alive(u) = Alive(t) /\ NotEntrant(u) = NotEntrant(t)
    BY DEF Alive, NotEntrant
  <1>2. CodeCurrent(u)
    BY <1>1 DEF TableOK, CodeCurrent
  <1>3. ASSUME NEW site, NEW s, SiteOK(t, site, s) PROVE SiteOK(u, site, s)
    BY <1>3 DEF SiteOK, CodeFor
  <1>4. SitesOK(u)
    BY <1>1, <1>3 DEF TableOK, SitesOK
  <1> QED BY <1>1, <1>2, <1>4

(* The sweep takes away only what no activation runs in; what is alive is  *)
(* as it was.                                                              *)
LEMMA SweepOK ==
    ASSUME NEW t, TableOK(t), NEW fs, FramesTyped(fs), CodeKept(t, fs), WrongLeft(t, fs)
    PROVE  LET u == sweep_not_entrant_zombies(t, fs) IN
           /\ TableOK(u) /\ u.by_key = t.by_key /\ CodeKept(u, fs) /\ WrongLeft(u, fs)
           /\ \A i \in Alive(t) : /\ i \in Alive(u) /\ u.nms[i].m = t.nms[i].m
                                  /\ u.nms[i].k = t.nms[i].k /\ u.nms[i].s = t.nms[i].s
                                  /\ u.nms[i].stale = t.nms[i].stale
  <1> DEFINE F == NotEntrant(t) \ Referenced(fs)
             v == flush_nmethods(t, F)
             u == sweep_not_entrant_zombies(t, fs)
  <1>1. CASE NotEntrant(t) = {}
    BY <1>1 DEF sweep_not_entrant_zombies
  <1>2. CASE NotEntrant(t) # {}
    <2>1. u = IF NotEntrant(v) = {} THEN [v EXCEPT !.pending = FALSE] ELSE v
      BY <1>2 DEF sweep_not_entrant_zombies
    <2>2. /\ TableOK(v) /\ v.by_key = t.by_key /\ v \in Table
          /\ \A i \in Slots \ F : /\ v.nms[i].st = t.nms[i].st
                                  /\ v.nms[i].st # "free" =>
                                       /\ v.nms[i].m = t.nms[i].m
                                       /\ v.nms[i].k = t.nms[i].k /\ v.nms[i].s = t.nms[i].s
                                       /\ v.nms[i].stale = t.nms[i].stale
      BY FlushOK
    <2> HIDE DEF v, u
    <2>3. u.nms = v.nms /\ u.by_key = v.by_key /\ u \in Table /\ PollOK(u)
      <3>1. CASE NotEntrant(v) = {}
        <4>1. u = [v EXCEPT !.pending = FALSE]
          BY <2>1, <3>1
        <4>2. u.nms = v.nms /\ u.by_key = v.by_key /\ u \in Table
          BY <2>2, <4>1 DEF Table
        <4> QED BY <3>1, <4>2 DEF PollOK, NotEntrant
      <3>2. CASE NotEntrant(v) # {}
        BY <2>1, <2>2, <3>2 DEF TableOK
      <3> QED BY <3>1, <3>2
    <2>4. Alive(u) = Alive(v)
      BY <2>3 DEF Alive
    <2>5. TableOK(u)
      <3>1. CodeCurrent(u) /\ SitesOK(u)
        BY <2>2, <2>3, SameCodeOK
      <3>2. KeysOK(u)
        BY <2>2, <2>3, <2>4 DEF TableOK, KeysOK
      <3> QED BY <2>3, <3>1, <3>2 DEF TableOK
    <2>6. DOMAIN fs = 1..Len(fs)
      BY LenProperties DEF FramesTyped
    <2>7. ASSUME NEW i \in 1..Len(fs), fs[i].tier = "compiled"
          PROVE  /\ u.nms[fs[i].nm].st # "free" /\ u.nms[fs[i].nm].m = fs[i].m
                 /\ u.nms[fs[i].nm].stale = t.nms[fs[i].nm].stale
      <3>1. fs[i].nm \in Slots /\ t.nms[fs[i].nm].st # "free" /\ t.nms[fs[i].nm].m = fs[i].m
        BY <2>7 DEF FramesTyped, CodeKept, FrameOK
      <3>2. fs[i].nm \in Slots \ F
        BY <2>6, <2>7, <3>1 DEF Referenced
      <3> HIDE DEF F
      <3> QED BY <2>2, <2>3, <3>1, <3>2
    <2>8. CodeKept(u, fs) /\ WrongLeft(u, fs)
      BY <2>7 DEF CodeKept, FrameOK, WrongLeft
    <2>9. Alive(t) \subseteq Slots \ F
      BY DEF Alive, NotEntrant
    <2> HIDE DEF F
    <2>10. \A i \in Alive(t) : /\ i \in Alive(u) /\ u.nms[i].m = t.nms[i].m
                               /\ u.nms[i].k = t.nms[i].k /\ u.nms[i].s = t.nms[i].s
                               /\ u.nms[i].stale = t.nms[i].stale
      BY <2>2, <2>3, <2>9 DEF Alive
    <2> QED BY <2>2, <2>3, <2>5, <2>8, <2>10 DEF u
  <1> QED BY <1>1, <1>2

(* A set of slots that is not empty has a greatest one. *)
LEMMA GreatestSlot ==
    ASSUME NEW S, S \subseteq Slots, S # {}
    PROVE  \E i \in S : \A j \in S : j <= i
  <1> DEFINE T == {n \in Nat : \E i \in S : n = MaxSlots - i}
  <1>1. \A i \in S : i \in Nat /\ MaxSlots - i \in T /\ MaxSlots \in Nat
    BY CodeAssumption DEF Slots
  <1>2. T # {} /\ T \subseteq Nat
    BY <1>1
  <1> HIDE DEF T
  <1>3. PICK n \in T : \A y \in T : n <= y
    BY <1>2, LeastNat
  <1>4. PICK i \in S : n = MaxSlots - i
    BY DEF T
  <1> QED BY <1>1, <1>3, <1>4

(* Rebuilding the keys from the living methods loses none, whatever the    *)
(* klasses' addresses have become.                                         *)
LEMMA RehashOK ==
    ASSUME NEW t, TableOK(t), NEW x
    PROVE  LET u == rehash([t EXCEPT !.by_key = x]) IN
           TableOK(u) /\ Keeps(t, u) /\ u.nms = t.nms
  <1> DEFINE u == rehash([t EXCEPT !.by_key = x])
             own(key) == {i \in Alive(t) : KeyOf(t.nms[i]) = key}
             new(key) == IF own(key) = {} THEN 0
                         ELSE CHOOSE i \in own(key) : \A j \in own(key) : j <= i
  <1>0. /\ t \in Table /\ t = [nms |-> t.nms, by_key |-> t.by_key, pending |-> t.pending]
    BY DEF TableOK, Table
  <1>1. u = [nms |-> t.nms, by_key |-> [key \in Keys |-> new(key)], pending |-> t.pending]
    <2>1. [t EXCEPT !.by_key = x] = [nms |-> t.nms, by_key |-> x, pending |-> t.pending]
      BY <1>0
    <2> DEFINE w == [nms |-> t.nms, by_key |-> x, pending |-> t.pending]
    <2>2. Alive(w) = Alive(t) /\ w.nms = t.nms /\ w.pending = t.pending
      BY DEF Alive
    <2>3. rehash(w) = [w EXCEPT !.by_key = [key \in Keys |-> new(key)]]
      <3> HIDE DEF w
      <3> QED BY <2>2 DEF rehash
    <2> HIDE DEF new
    <2>4. rehash(w) = [nms |-> t.nms, by_key |-> [key \in Keys |-> new(key)], pending |-> t.pending]
      BY <2>3
    <2> QED BY <2>1, <2>4
  <1>2. ASSUME NEW key \in Keys
        PROVE  /\ new(key) \in Slots \cup {0}
               /\ new(key) # 0 => new(key) \in Alive(t) /\ KeyOf(t.nms[new(key)]) = key
               /\ own(key) # {} => new(key) # 0
    <2>1. CASE own(key) = {}
      BY <2>1
    <2>2. CASE own(key) # {}
      <3>1. own(key) \subseteq Slots
        BY DEF Alive
      <3>2. new(key) \in own(key)
        <4> HIDE DEF own
        <4> QED BY <2>2, <3>1, GreatestSlot
      <3>3. new(key) # 0
        <4>1. \A i \in Slots : i # 0
          BY CodeAssumption DEF Slots
        <4> HIDE DEF new
        <4> QED BY <3>1, <3>2, <4>1
      <3> HIDE DEF new
      <3> QED BY <3>1, <3>2, <3>3
    <2> QED BY <2>1, <2>2
  <1> HIDE DEF new, u
  <1>3. /\ u \in Table /\ u.nms = t.nms /\ u.pending = t.pending
        /\ \A key \in Keys : u.by_key[key] = new(key)
    BY <1>0, <1>1, <1>2 DEF Table
  <1>4. Alive(u) = Alive(t) /\ NotEntrant(u) = NotEntrant(t)
    BY <1>3 DEF Alive, NotEntrant
  <1>5. KeysOK(u)
    BY <1>2, <1>3, <1>4 DEF KeysOK
  <1>6. CodeCurrent(u) /\ SitesOK(u)
    BY <1>3, SameCodeOK
  <1>7. PollOK(u)
    BY <1>3, <1>4 DEF TableOK, PollOK
  <1>8. Keeps(t, u)
    <2>1. ASSUME NEW key \in Keys, t.by_key[key] # 0 PROVE u.by_key[key] # 0
      <3>1. t.by_key[key] \in own(key)
        BY <2>1 DEF TableOK, KeysOK
      <3> QED BY <1>2, <1>3, <3>1
    <2> QED BY <1>3, <2>1 DEF Keeps
  <1> QED BY <1>3, <1>5, <1>6, <1>7, <1>8 DEF TableOK, u

-----------------------------------------------------------------------------
(***************************************************************************)
(* Steps                                                                   *)
(***************************************************************************)

(* A step that leaves the dictionaries alone keeps the invariant when it   *)
(* leaves the table in order and the activations in it.                    *)
LEMMA StableStep ==
    ASSUME LookupTypeOK, OutdatedTyped, UNCHANGED lookupVars,
           NEW u, ct' = u, TableOK(u), compiles' \in 0..MaxCompiles,
           NEW fs, frames' = fs, FramesTyped(fs), CodeKept(u, fs), WrongLeft(u, fs)
    PROVE  IInv'
  <1>1. dict' = dict /\ epoch' = epoch /\ outdated' = outdated
    BY DEF lookupVars
  <1>2. LookupTypeOK' /\ OutdatedTyped'
    BY <1>1 DEF LookupTypeOK, OutdatedTyped
  <1>3. CodeCurrent(ct)'
    <2>1. CodeCurrent(u)
      BY DEF TableOK
    <2>2. \A k, s : Truth(k, s)' = Truth(k, s)
      BY <1>1 DEF Truth, lookup_uncached, MethodIn
    <2> QED BY <2>1, <2>2 DEF CodeCurrent, NmCurrent, Alive
  <1>4. TableOK(ct)'
    BY <1>3 DEF TableOK, KeysOK, SitesOK, SiteOK, CodeFor, PollOK, Alive, NotEntrant
  <1>5. (FramesTyped(frames) /\ CodeKept(ct, frames) /\ WrongLeft(ct, frames))'
    BY DEF FramesTyped, CodeKept, FrameOK, WrongLeft
  <1> QED BY <1>2, <1>4, <1>5 DEF IInv

(* Redefinition: the living methods that are not invalidated assumed       *)
(* nothing that changed, and every activation of one that is waits for a   *)
(* callee, whose return is redirected.                                     *)
LEMMA InstallMethodStep ==
    ASSUME IInv, NEW k \in Klasses, NEW s \in Selectors, install_method(k, s)
    PROVE  IInv'
  <1> DEFINE V == affected_by_install(ct, k, s)
             W == {i \in Installed(ct) : Assumed(ct.nms[i], k, s)}
  <1>1. /\ DefineMethod(k, s) /\ Interpreting /\ ct' = InvalidateAll(ct, V, W)
        /\ frames' = RedirectReturns(frames, V) /\ compiles' = compiles
        /\ outdated' = outdated \cup Outdated(k, s)
    BY DEF install_method
  <1>2. /\ V \subseteq Alive(ct) /\ V \subseteq Slots
        /\ W \subseteq Installed(ct) /\ W \cap Alive(ct) \subseteq V
        /\ \A i \in Alive(ct) \ V : LET nm == ct.nms[i] IN
              /\ ~(nm.s = s /\ Below(nm.k, k))
              /\ ~(nm.inline # None /\ Callee[nm.s] = s /\ Below(nm.inline.k, k))
    BY DEF affected_by_install, Assumed, Alive, Installed
  <1> HIDE DEF V, W
  <1>3. LookupTypeOK'
    <2>1. epoch' \in 0..MaxInstalls
      BY <1>1, LookupAssumption DEF IInv, LookupTypeOK, DefineMethod
    <2>2. dict' \in [Klasses -> [Selectors -> 0..MaxVersion]]
      <3>1. dict[k][s] \in 0..MaxVersion /\ dict[k][s] < MaxVersion
        BY <1>1 DEF IInv, LookupTypeOK, DefineMethod
      <3>2. dict[k][s] + 1 \in 0..MaxVersion
        BY SMTT(20), <3>1, LookupAssumption
      <3> QED BY <1>1, <3>2 DEF IInv, LookupTypeOK, DefineMethod
    <2> QED BY <2>1, <2>2 DEF LookupTypeOK
  <1>4. ct \in Table
    BY DEF IInv, TableOK
  <1> DEFINE Missed(i) == [ct.nms[i] EXCEPT !.stale = IF @ = "no" THEN "missed" ELSE @]
  <1>5. /\ ct'.nms = [i \in Slots |->
                IF i \in V THEN [ct.nms[i] EXCEPT !.st = "notEntrant", !.stale = "found"]
                ELSE IF i \in W THEN Missed(i) ELSE ct.nms[i]]
        /\ ct'.by_key = [key \in Keys |-> IF ct.by_key[key] \in V THEN 0 ELSE ct.by_key[key]]
        /\ ct'.pending = (ct.pending \/ V # {})
        /\ ct' = [nms |-> ct'.nms, by_key |-> ct'.by_key, pending |-> ct'.pending]
    BY <1>1, <1>4 DEF InvalidateAll, Table
  <1>6. ASSUME NEW i \in V
        PROVE  LET nm == ct'.nms[i] IN
               /\ nm \in NmRec /\ nm.st = "notEntrant" /\ nm.stale = "found"
               /\ nm.k = ct.nms[i].k /\ nm.s = ct.nms[i].s /\ nm.m = ct.nms[i].m
    <2>1. ct.nms[i] \in NmRec
      BY <1>2, <1>4, SlotTyped DEF Alive
    <2>2. ct'.nms[i] = [ct.nms[i] EXCEPT !.st = "notEntrant", !.stale = "found"]
      BY <1>2, <1>5
    <2> QED BY <2>1, <2>2 DEF NmRec
  <1>7. ASSUME NEW i \in Slots \ V
        PROVE  /\ ct'.nms[i] \in NmRec \cup {NoNm} /\ ct'.nms[i].st = ct.nms[i].st
               /\ i \in Alive(ct) => ct'.nms[i] = ct.nms[i]
               /\ ct.nms[i].st # "free" =>
                     /\ ct'.nms[i].k = ct.nms[i].k /\ ct'.nms[i].s = ct.nms[i].s
                     /\ ct'.nms[i].m = ct.nms[i].m
                     /\ ct'.nms[i].stale = "found" => ct.nms[i].stale = "found"
    <2>1. CASE i \in W
      <3>1. ct.nms[i] \in NmRec /\ i \notin Alive(ct)
        BY <1>2, <1>4, <2>1, SlotTyped DEF Installed
      <3>2. ct'.nms[i] = Missed(i)
        BY <1>5, <2>1
      <3> QED BY <3>1, <3>2 DEF NmRec
    <2>2. CASE i \notin W
      <3>1. ct'.nms[i] = ct.nms[i]
        BY <1>5, <2>2
      <3> QED BY <1>4, <3>1 DEF Table
    <2> QED BY <2>1, <2>2
  <1> HIDE DEF Missed
  <1>8. ct' \in Table
    <2>1. ct'.nms \in [Slots -> NmRec \cup {NoNm}]
      <3>1. \A i \in Slots : ct'.nms[i] \in NmRec \cup {NoNm}
        BY <1>6, <1>7
      <3> QED BY <1>5, <3>1
    <2>2. ct'.by_key \in [Keys -> Slots \cup {0}]
      BY <1>4, <1>5 DEF Table
    <2> QED BY <1>4, <1>5, <2>1, <2>2 DEF Table
  <1>9. Alive(ct') = Alive(ct) \ V /\ NotEntrant(ct') = NotEntrant(ct) \cup V
    <2>1. \A i \in Slots : ct'.nms[i].st = IF i \in V THEN "notEntrant" ELSE ct.nms[i].st
      BY <1>6, <1>7
    <2>2. \A i \in V : i \in Slots /\ ct.nms[i].st = "alive"
      BY <1>2 DEF Alive
    <2> QED BY <2>1, <2>2 DEF Alive, NotEntrant
  <1>10. KeysOK(ct')
    <2> SUFFICES ASSUME NEW key \in Keys, ct'.by_key[key] # 0
                 PROVE  ct'.by_key[key] \in Alive(ct') /\ KeyOf(ct'.nms[ct'.by_key[key]]) = key
      BY DEF KeysOK
    <2>1. ct'.by_key[key] = ct.by_key[key] /\ ct.by_key[key] \notin V
      BY <1>5
    <2>2. ct.by_key[key] \in Alive(ct) /\ KeyOf(ct.nms[ct.by_key[key]]) = key
      BY <2>1 DEF IInv, TableOK, KeysOK
    <2>3. ct'.nms[ct.by_key[key]] = ct.nms[ct.by_key[key]]
      BY <1>7, <2>1, <2>2 DEF Alive
    <2> QED BY <1>9, <2>1, <2>2, <2>3
  <1>11. ASSUME NEW i \in Alive(ct) \ V, NEW nm, nm = ct.nms[i]
         PROVE  NmCurrent(nm)'
    <2>1. nm \in NmRec /\ NmCurrent(nm)
      BY <1>4, <1>11, SlotTyped DEF Alive, IInv, TableOK, CodeCurrent
    <2>2. nm.k \in Klasses /\ nm.s \in Selectors /\ nm.inline \in Inline
      BY <2>1 DEF NmRec
    <2>3. /\ nm.s # s \/ k \notin ToSet(Chain[nm.k])
          /\ nm.inline # None => Callee[nm.s] # s \/ k \notin ToSet(Chain[nm.inline.k])
      BY <1>2, <1>11 DEF Below
    <2>4. LookupTypeOK
      BY DEF IInv
    <2>5. Truth(nm.k, nm.s)' = Truth(nm.k, nm.s)
      BY <1>1, <2>2, <2>3, <2>4, RedefinitionScope
    <2>6. ASSUME nm.inline # None
          PROVE  Truth(nm.inline.k, Callee[nm.s])' = Truth(nm.inline.k, Callee[nm.s])
      <3>1. nm.inline.k \in Klasses /\ nm.inline.found \in Methods
        BY <2>2, <2>6 DEF Inline
      <3>2. nm.inline.found = Truth(nm.inline.k, Callee[nm.s])
        BY <2>1, <2>6 DEF NmCurrent
      <3>3. Callee[nm.s] \in Selectors
        <4>1. \A m \in Methods : m[2] \in Selectors
          BY DEF Methods
        <4> QED BY <3>1, <3>2, <4>1, NoneIsNoMethod, WalkSelector
      <3> QED BY <1>1, <2>3, <2>4, <2>6, <3>1, <3>3, RedefinitionScope
    <2> QED BY <2>1, <2>5, <2>6 DEF NmCurrent
  <1>12. CodeCurrent(ct)'
    <2> SUFFICES ASSUME NEW i \in Alive(ct') PROVE NmCurrent(ct.nms[i])'
      BY DEF CodeCurrent, Alive
    <2>1. i \in Alive(ct) \ V /\ ct'.nms[i] = ct.nms[i]
      BY <1>7, <1>9 DEF Alive
    <2>2. PICK nm : nm = ct.nms[i]
      OBVIOUS
    <2>3. NmCurrent(nm)'
      BY <1>11, <2>1, <2>2
    <2> QED BY <2>1, <2>2, <2>3 DEF NmCurrent
  <1>13. SitesOK(ct')
    <2> SUFFICES ASSUME NEW i \in Alive(ct') PROVE SiteOK(ct', ct'.nms[i].site, Callee[ct'.nms[i].s])
      BY DEF SitesOK
    <2>1. i \in Alive(ct) /\ ct'.nms[i] = ct.nms[i]
      BY <1>7, <1>9 DEF Alive
    <2>2. SiteOK(ct, ct.nms[i].site, Callee[ct.nms[i].s])
      BY <2>1 DEF IInv, TableOK, SitesOK
    <2>3. ASSUME NEW tgt, NEW j, NEW r, CodeFor(ct, tgt, j, r) PROVE CodeFor(ct', tgt, j, r)
      BY <1>6, <1>7, <2>3 DEF CodeFor
    <2> QED BY <2>1, <2>2, <2>3 DEF SiteOK
  <1>14. PollOK(ct')
    BY <1>4, <1>5, <1>9 DEF PollOK, IInv, TableOK
  <1>15. TableOK(ct)'
    BY <1>8, <1>10, <1>12, <1>13, <1>14
    DEF TableOK, KeysOK, SitesOK, SiteOK, CodeFor, PollOK, Alive, NotEntrant
  <1>16. /\ frames \in Seq(FrameRec) /\ DOMAIN frames = 1..Len(frames) /\ Len(frames) \in Nat
    BY LenProperties DEF IInv, FramesTyped
  <1>17. /\ frames' \in Seq(FrameRec) /\ Len(frames') = Len(frames)
         /\ \A i \in 1..Len(frames) :
               /\ frames'[i].tier = frames[i].tier /\ frames'[i].m = frames[i].m
               /\ frames'[i].nm = frames[i].nm /\ frames'[i].c2i = frames[i].c2i
               /\ frames[i].redirected => frames'[i].redirected
               /\ (i < Len(frames) /\ frames[i].tier = "compiled" /\ frames[i].nm \in V)
                     => frames'[i].redirected
    <2> DEFINE g(i) == IF i < Len(frames) /\ frames[i].tier = "compiled" /\ frames[i].nm \in V
                       THEN [frames[i] EXCEPT !.redirected = TRUE] ELSE frames[i]
    <2>1. frames' = [i \in 1..Len(frames) |-> g(i)]
      BY <1>1, <1>16 DEF RedirectReturns
    <2>2. ASSUME NEW i \in 1..Len(frames)
          PROVE  /\ g(i) \in FrameRec
                 /\ g(i).tier = frames[i].tier /\ g(i).m = frames[i].m
                 /\ g(i).nm = frames[i].nm /\ g(i).c2i = frames[i].c2i
                 /\ frames[i].redirected => g(i).redirected
                 /\ (i < Len(frames) /\ frames[i].tier = "compiled" /\ frames[i].nm \in V)
                     => g(i).redirected
      <3>1. frames[i] \in FrameRec
        BY <1>16
      <3>2. CASE i < Len(frames) /\ frames[i].tier = "compiled" /\ frames[i].nm \in V
        <4>1. g(i) = [frames[i] EXCEPT !.redirected = TRUE]
          BY <3>2
        <4> HIDE DEF g
        <4> QED BY <3>1, <4>1 DEF FrameRec
      <3>3. CASE ~(i < Len(frames) /\ frames[i].tier = "compiled" /\ frames[i].nm \in V)
        <4>1. g(i) = frames[i]
          BY <3>3
        <4> HIDE DEF g
        <4> QED BY <3>1, <3>3, <4>1
      <3> QED BY <3>2, <3>3
    <2> HIDE DEF g
    <2>3. frames' \in Seq(FrameRec) /\ Len(frames') = Len(frames)
      BY <1>16, <2>1, <2>2, IsASeq, LenProperties
    <2> QED BY <2>1, <2>2, <2>3
  <1>18. FramesTyped(frames')
    <2>1. /\ Len(frames) <= MaxDepth
          /\ \A i \in 1..Len(frames) :
                /\ frames[i].tier = "compiled" <=> frames[i].nm \in Slots
                /\ frames[i].c2i => i # 1 /\ frames[i - 1].tier = "compiled"
      BY DEF IInv, FramesTyped
    <2>2. ASSUME NEW i \in 1..Len(frames), frames'[i].c2i
          PROVE  i # 1 /\ frames'[i - 1].tier = "compiled"
      <3>1. i # 1 /\ frames[i - 1].tier = "compiled"
        BY <1>17, <2>1, <2>2
      <3>2. i - 1 \in 1..Len(frames)
        BY <1>16, <3>1
      <3> QED BY <1>17, <3>1, <3>2
    <2> QED BY <1>17, <2>1, <2>2 DEF FramesTyped
  <1>19. ASSUME NEW i \in 1..Len(frames), frames[i].tier = "compiled"
         PROVE  /\ frames[i].nm \in Slots /\ ct.nms[frames[i].nm].st # "free"
                /\ ct.nms[frames[i].nm].m = frames[i].m
    BY <1>19 DEF IInv, FramesTyped, CodeKept, FrameOK
  <1>20. CodeKept(ct', frames')
    <2>1. \A i \in Slots : ct.nms[i].st # "free" =>
            ct'.nms[i].st # "free" /\ ct'.nms[i].m = ct.nms[i].m
      BY <1>6, <1>7
    <2> QED BY <1>17, <1>19, <2>1 DEF CodeKept, FrameOK
  <1>21. WrongLeft(ct', frames')
    <2> SUFFICES ASSUME NEW i \in 1..Len(frames), frames[i].tier = "compiled",
                        ct'.nms[frames[i].nm].stale = "found"
                 PROVE  i < Len(frames) /\ frames'[i].redirected
      BY <1>17 DEF WrongLeft
    <2>1. CASE frames[i].nm \in V
      <3>1. i # Len(frames)
        <4>1. frames = <<>> \/ Top.tier \in {"interp", "deopted"}
          BY <1>1 DEF Interpreting, Running
        <4>2. frames # <<>>
          OBVIOUS
        <4> QED BY <4>1, <4>2 DEF Top
      <3> QED BY <1>16, <1>17, <2>1, <3>1
    <2>2. CASE frames[i].nm \notin V
      BY <1>7, <1>17, <1>19, <2>2 DEF IInv, WrongLeft
    <2> QED BY <2>1, <2>2
  <1>22. (FramesTyped(frames) /\ CodeKept(ct, frames) /\ WrongLeft(ct, frames))'
    BY <1>18, <1>20, <1>21 DEF FramesTyped, CodeKept, FrameOK, WrongLeft
  <1>23. OutdatedTyped'
    <2>1. ASSUME NEW o \in Outdated(k, s) PROVE o \in [by : Methods, k : Klasses, m : Methods]
      <3>1. PICK m \in Methods, j \in Klasses :
              Understands(j, s) /\ o = [by |-> m, k |-> j, m |-> Truth(j, s)]
        BY DEF Outdated
      <3>2. Truth(j, s) \in Methods
        BY <3>1, WalkTyped DEF Understands, Truth, IInv
      <3> QED BY <3>1, <3>2
    <2> QED BY <1>1, <2>1 DEF IInv, OutdatedTyped
  <1> QED BY <1>1, <1>3, <1>15, <1>22, <1>23 DEF IInv

(* A collection rebuilds the keys and leaves the code as it is. *)
LEMMA CollectStep ==
    ASSUME IInv, NEW t, TableOK(t), CodeKept(t, frames), WrongLeft(t, frames), Collect(t)
    PROVE  IInv' /\ Keeps(t, ct')
  <1>1. PICK p \in Moves : ct' = rehash([t EXCEPT !.by_key = Readdressed(@, p)])
    BY DEF Collect
  <1>2. UNCHANGED <<lookupVars, frames, compiles>>
    BY DEF Collect
  <1> DEFINE x == Readdressed(t.by_key, p)
             u == rehash([t EXCEPT !.by_key = x])
  <1>3. ct' = u
    BY <1>1
  <1> HIDE DEF x
  <1>4. TableOK(u) /\ Keeps(t, u)
    BY RehashOK
  <1> HIDE DEF u
  <1>5. FramesTyped(frames)
    BY DEF IInv
  <1>6. CodeKept(u, frames) /\ WrongLeft(u, frames)
    BY <1>4, <1>5, FramesStayOK
  <1>7. LookupTypeOK /\ OutdatedTyped /\ compiles' \in 0..MaxCompiles
    BY <1>2 DEF IInv
  <1>8. PICK fs : fs = frames
    OBVIOUS
  <1> QED BY <1>2, <1>3, <1>4, <1>5, <1>6, <1>7, <1>8, StableStep

-----------------------------------------------------------------------------
(***************************************************************************)
(* Compilation                                                             *)
(***************************************************************************)

(* A living method is replaced by a new version: the key names the         *)
(* successor before the old one is retired.                                *)
LEMMA ReplaceOK ==
    ASSUME LookupTypeOK, OutdatedTyped, NEW t, TableOK(t), Installed(t) # Slots,
           NEW k \in Klasses, NEW m \in Methods, Truth(k, m[2]) = m,
           NEW ver \in Nat, NEW inline \in InlineChoices(m),
           NEW id \in Alive(t), KeyOf(t.nms[id]) = <<k, m[2]>>
    PROVE  LET r == install(t, k, m, ver, "no", inline)
               u == make_not_entrant_lazy(r.t, id)
           IN  /\ TableOK(u) /\ Keeps(t, u)
               /\ r.id \in Alive(u) /\ r.id # 0
               /\ u.nms[r.id].m = m /\ u.nms[r.id].k = k /\ u.nms[r.id].s = m[2]
  <1> DEFINE r == install(t, k, m, ver, "no", inline)
             u == make_not_entrant_lazy(r.t, id)
  <1>0. "no" \in OsrKinds
    BY DEF OsrKinds
  <1>1. /\ TableOK(r.t) /\ Keeps(t, r.t)
        /\ r.id \in Slots \ Installed(t) /\ r.id \in Alive(r.t)
        /\ r.t.nms[r.id].m = m /\ r.t.nms[r.id].k = k /\ r.t.nms[r.id].s = m[2]
        /\ r.t.by_key[<<k, m[2]>>] = r.id
        /\ \A i \in Slots : i # r.id => r.t.nms[i] = t.nms[i]
    BY <1>0, InstallOK
  <1> HIDE DEF r
  <1>2. id \in Slots /\ id # r.id /\ r.t.nms[id] = t.nms[id] /\ id \in Alive(r.t)
    BY <1>1 DEF Alive, Installed
  <1>3. r.t.by_key[KeyOf(r.t.nms[id])] # id
    BY <1>1, <1>2
  <1>4. /\ TableOK(u) /\ Keeps(r.t, u)
        /\ \A i \in Slots : i # id => u.nms[i] = r.t.nms[i]
    BY <1>1, <1>2, <1>3, RetireOK
  <1> HIDE DEF u
  <1>5. Keeps(t, u)
    BY <1>1, <1>4, KeepsTransitive
  <1>6. r.id # 0 /\ u.nms[r.id] = r.t.nms[r.id]
    BY <1>1, <1>2, <1>4, CodeAssumption DEF Slots
  <1>7. r.id \in Alive(u)
    BY <1>1, <1>6 DEF Alive
  <1> QED BY <1>1, <1>4, <1>5, <1>6, <1>7 DEF u, r

(* The compile trigger reuses, replaces or compiles: the code it names is  *)
(* living code of the method.                                              *)
LEMMA TriggerOK ==
    ASSUME LookupTypeOK, OutdatedTyped, NEW t, TableOK(t), compiles \in Nat, NEW n \in Nat,
           compiles + n <= MaxCompiles,
           NEW k \in Klasses, NEW m \in Methods, Truth(k, m[2]) = m,
           NEW o \in TriggerOutcomes(t, n, k, m)
    PROVE  /\ TableOK(o.t) /\ Keeps(t, o.t)
           /\ o.n \in Nat /\ compiles + o.n <= MaxCompiles
           /\ o.id # 0 => /\ o.id \in Alive(o.t) /\ o.t.nms[o.id].m = m
                          /\ o.t.nms[o.id].k = k /\ o.t.nms[o.id].s = m[2]
  <1> DEFINE id == t.by_key[<<k, m[2]>>]
             old == t.nms[id]
  <1>1. m[2] \in Selectors /\ <<k, m[2]>> \in Keys
    BY DEF Methods, Keys
  <1>2. id # 0 => /\ id \in Alive(t) /\ KeyOf(old) = <<k, m[2]>> /\ old.m = m
                  /\ old.k = k /\ old.s = m[2] /\ old.ver \in Nat
    <2> SUFFICES ASSUME id # 0 PROVE /\ id \in Alive(t) /\ KeyOf(old) = <<k, m[2]>> /\ old.m = m
                                     /\ old.k = k /\ old.s = m[2] /\ old.ver \in Nat
      OBVIOUS
    <2>1. id \in Alive(t) /\ KeyOf(old) = <<k, m[2]>>
      BY <1>1 DEF TableOK, KeysOK
    <2>2. old \in NmRec /\ old.m = Truth(old.k, old.s)
      BY <2>1, SlotTyped DEF TableOK, CodeCurrent, NmCurrent, Alive
    <2>3. old.k = k /\ old.s = m[2]
      BY <2>1 DEF KeyOf
    <2> QED BY <2>1, <2>2, <2>3 DEF NmRec
  <1>3. Keeps(t, t)
    BY DEF Keeps
  <1>4. CASE o = [t |-> t, id |-> id, n |-> n]
    BY <1>2, <1>3, <1>4
  <1>5. ASSUME id = 0, CanCompile(t, k, n), NEW inline \in InlineChoices(m),
               LET r == install(t, k, m, 0, "no", inline)
               IN  o = [t |-> r.t, id |-> r.id, n |-> n + 1]
        PROVE  /\ TableOK(o.t) /\ Keeps(t, o.t)
               /\ o.n \in Nat /\ compiles + o.n <= MaxCompiles
               /\ o.id # 0 => /\ o.id \in Alive(o.t) /\ o.t.nms[o.id].m = m
                              /\ o.t.nms[o.id].k = k /\ o.t.nms[o.id].s = m[2]
    <2> DEFINE r == install(t, k, m, 0, "no", inline)
    <2>1. Installed(t) # Slots /\ compiles + n < MaxCompiles
      BY <1>5 DEF CanCompile
    <2>0. "no" \in OsrKinds /\ 0 \in Nat
      BY DEF OsrKinds
    <2>2. /\ TableOK(r.t) /\ Keeps(t, r.t) /\ r.id \in Alive(r.t)
          /\ r.t.nms[r.id].m = m /\ r.t.nms[r.id].k = k /\ r.t.nms[r.id].s = m[2]
      BY <1>5, <2>0, <2>1, InstallOK
    <2>3. o.t = r.t /\ o.id = r.id /\ o.n = n + 1
      BY <1>5
    <2> HIDE DEF r
    <2> QED BY <2>1, <2>2, <2>3, CodeAssumption
  <1>6. ASSUME id # 0, CanCompile(t, k, n), NEW inline \in InlineChoices(m),
               LET r == install(t, k, m, old.ver + 1, "no", inline)
               IN  o = [t |-> make_not_entrant_lazy(r.t, id), id |-> r.id, n |-> n + 1]
        PROVE  /\ TableOK(o.t) /\ Keeps(t, o.t)
               /\ o.n \in Nat /\ compiles + o.n <= MaxCompiles
               /\ o.id # 0 => /\ o.id \in Alive(o.t) /\ o.t.nms[o.id].m = m
                              /\ o.t.nms[o.id].k = k /\ o.t.nms[o.id].s = m[2]
    <2> DEFINE r == install(t, k, m, old.ver + 1, "no", inline)
               u == make_not_entrant_lazy(r.t, id)
    <2>1. Installed(t) # Slots /\ compiles + n < MaxCompiles /\ old.ver + 1 \in Nat
      <3>1. old.ver \in Nat
        BY <1>2, <1>6
      <3>2. Installed(t) # Slots /\ compiles + n < MaxCompiles
        BY <1>6 DEF CanCompile
      <3> HIDE DEF old, id
      <3> QED BY <3>1, <3>2
    <2>0. id \in Alive(t) /\ KeyOf(t.nms[id]) = <<k, m[2]>>
      BY <1>2, <1>6
    <2> HIDE DEF id, old
    <2>2. /\ TableOK(u) /\ Keeps(t, u) /\ r.id \in Alive(u)
          /\ u.nms[r.id].m = m /\ u.nms[r.id].k = k /\ u.nms[r.id].s = m[2]
      BY <1>6, <2>0, <2>1, ReplaceOK
    <2>3. o.t = u /\ o.id = r.id /\ o.n = n + 1
      BY <1>6
    <2> HIDE DEF r, u
    <2> QED BY <2>1, <2>2, <2>3, CodeAssumption
  <1>7. \/ o = [t |-> t, id |-> id, n |-> n]
        \/ /\ id = 0 /\ CanCompile(t, k, n)
           /\ \E inline \in InlineChoices(m) :
                LET r == install(t, k, m, 0, "no", inline)
                IN  o = [t |-> r.t, id |-> r.id, n |-> n + 1]
        \/ /\ id # 0 /\ CanCompile(t, k, n)
           /\ \E inline \in InlineChoices(m) :
                LET r == install(t, k, m, old.ver + 1, "no", inline)
                IN  o = [t |-> make_not_entrant_lazy(r.t, id), id |-> r.id, n |-> n + 1]
    BY Zenon DEF TriggerOutcomes
  <1> HIDE DEF id, old
  <1> QED BY <1>4, <1>5, <1>6, <1>7

(* Recompilation on an uncommon trap. *)
LEMMA TrapOK ==
    ASSUME LookupTypeOK, OutdatedTyped, NEW t, TableOK(t), compiles \in 0..MaxCompiles, NEW id \in Slots \cup {0},
           NEW o \in note_uncommon_trap(t, id)
    PROVE  /\ TableOK(o.t) /\ Keeps(t, o.t)
           /\ o.n \in Nat /\ compiles + o.n <= MaxCompiles
  <1> DEFINE nm == t.nms[id]
             m == Truth(nm.k, nm.s)
  <1>0. Keeps(t, t) /\ MaxCompiles \in Nat /\ MaxVersions \in Nat
    BY CodeAssumption DEF Keeps
  <1>1. \/ o = [t |-> t, n |-> 0]
        \/ id \in Alive(t) /\ o = [t |-> [t EXCEPT !.nms[id].ver = MaxVersions], n |-> 0]
        \/ /\ id \in Alive(t) /\ CanCompile(t, nm.k, 0)
           /\ \E i \in InlineChoices(m) :
                o = [t |-> make_not_entrant_lazy(install(t, nm.k, m, nm.ver + 1, "no", i).t, id),
                     n |-> 1]
    BY Zenon DEF note_uncommon_trap
  <1>2. CASE o = [t |-> t, n |-> 0]
    BY <1>0, <1>2
  <1>3. ASSUME id \in Alive(t)
        PROVE  /\ id \in Slots /\ nm \in NmRec /\ nm.st = "alive" /\ m = nm.m
               /\ m[2] = nm.s /\ m \in Methods /\ t \in Table
    <2>1. id \in Slots /\ nm \in NmRec /\ nm.st = "alive" /\ t \in Table
      BY <1>3, SlotTyped DEF Alive, TableOK
    <2>2. m = nm.m /\ nm.m \in Methods
      BY <1>3, <2>1 DEF TableOK, CodeCurrent, NmCurrent, NmRec
    <2>3. m[2] = nm.s
      BY <2>2, NoneIsNoMethod, WalkSelector
    <2> QED BY <2>1, <2>2, <2>3
  <1>4. CASE id \in Alive(t) /\ o = [t |-> [t EXCEPT !.nms[id].ver = MaxVersions], n |-> 0]
    <2> DEFINE nm2 == [nm EXCEPT !.ver = MaxVersions]
               u == [t EXCEPT !.nms[id] = nm2]
    <2>1. /\ nm2 \in NmRec /\ nm2.st = nm.st /\ nm2.k = nm.k /\ nm2.s = nm.s /\ nm2.m = nm.m
          /\ nm2.inline = nm.inline /\ nm2.stale = nm.stale /\ nm2.site = nm.site
      BY <1>0, <1>3, <1>4 DEF NmRec
    <2>2. SiteOK(t, nm2.site, Callee[nm2.s])
      BY <1>4, <2>1 DEF TableOK, SitesOK
    <2>3. o.t = u /\ o.n = 0
      BY <1>3, <1>4 DEF Table
    <2> HIDE DEF nm2
    <2>4. TableOK(u) /\ Keeps(t, u)
      BY <1>3, <1>4, <2>1, <2>2, RewriteOK
    <2> HIDE DEF u
    <2> QED BY <1>0, <2>3, <2>4
  <1>5. ASSUME id \in Alive(t), CanCompile(t, nm.k, 0), NEW i \in InlineChoices(m),
               o = [t |-> make_not_entrant_lazy(install(t, nm.k, m, nm.ver + 1, "no", i).t, id),
                    n |-> 1]
        PROVE  /\ TableOK(o.t) /\ Keeps(t, o.t)
               /\ o.n \in Nat /\ compiles + o.n <= MaxCompiles
    <2> DEFINE u == make_not_entrant_lazy(install(t, nm.k, m, nm.ver + 1, "no", i).t, id)
    <2>1. Installed(t) # Slots /\ compiles + 0 < MaxCompiles
      BY <1>5 DEF CanCompile
    <2>2. nm.k \in Klasses /\ nm.ver + 1 \in Nat /\ KeyOf(t.nms[id]) = <<nm.k, m[2]>>
      BY <1>3, <1>5 DEF NmRec, KeyOf
    <2>3. m = Truth(nm.k, m[2]) /\ m \in Methods
      BY <1>3, <1>5
    <2>4. o.t = u /\ o.n = 1
      BY <1>5
    <2> HIDE DEF m, nm
    <2>5. TableOK(u) /\ Keeps(t, u)
      BY <1>5, <2>1, <2>2, <2>3, ReplaceOK
    <2> HIDE DEF u
    <2> QED BY <1>0, <2>1, <2>4, <2>5
  <1> HIDE DEF m, nm
  <1> QED BY <1>1, <1>2, <1>4, <1>5

-----------------------------------------------------------------------------
(***************************************************************************)
(* Call sites                                                              *)
(***************************************************************************)

(* The kinds of call site. *)
LEMMA SiteKinds ==
    ASSUME NEW site \in Site
    PROVE  \/ site.kind = "unresolved"
           \/ site.kind = "mega"
           \/ site.kind = "mono" /\ site \in MonoRec
           \/ site.kind = "pic" /\ site \in PicRec /\ Len(site.ps) \in 2..PicMax
  <1>1. \A x \in MonoRec : x.kind = "mono"
    BY DEF MonoRec
  <1>2. \A x \in PicRec : x.kind = "pic"
    BY DEF PicRec
  <1>3. Unresolved.kind = "unresolved" /\ MegaSite.kind = "mega"
    BY DEF Unresolved, MegaSite
  <1> QED BY <1>1, <1>2, <1>3 DEF Site

(* Where a send goes is an adapter, or living code for its klass and       *)
(* selector.                                                               *)
LEMMA TargetResolved ==
    ASSUME NEW t, TableOK(t), NEW k \in Klasses, NEW s \in Selectors
    PROVE  LET tgt == resolve_target_entry(t, k, s) IN
           /\ tgt \in Target /\ CodeFor(t, tgt, k, s)
           /\ tgt # C2i => tgt \in Alive(t) /\ t.nms[tgt].k = k /\ t.nms[tgt].s = s
  <1> DEFINE tgt == resolve_target_entry(t, k, s)
             id == t.by_key[<<k, s>>]
  <1>1. <<k, s>> \in Keys /\ \A i \in Slots : i # C2i
    BY CodeAssumption DEF Keys, Slots, C2i
  <1>2. tgt = C2i \/ (tgt = id /\ id # 0)
    BY DEF resolve_target_entry
  <1>3. id # 0 => id \in Alive(t) /\ t.nms[id].k = k /\ t.nms[id].s = s
    BY <1>1 DEF TableOK, KeysOK, KeyOf
  <1> HIDE DEF id, tgt
  <1>4. tgt # C2i => tgt \in Alive(t) /\ t.nms[tgt].k = k /\ t.nms[tgt].s = s
    BY <1>2, <1>3
  <1>5. tgt \in Target /\ CodeFor(t, tgt, k, s)
    BY <1>1, <1>4 DEF Target, CodeFor, Alive
  <1> QED BY <1>4, <1>5 DEF tgt

(* A send resolved at a site leaves it leading to code for its klasses and *)
(* selector: the arms it keeps, and those it writes.                       *)
LEMMA ResolvedOK ==
    ASSUME NEW t, TableOK(t), NEW site \in Site, site.kind # "mega",
           NEW k \in Klasses, NEW s \in Selectors
    PROVE  LET site2 == ResolvedSite(t, site, k, s) IN
           /\ site2 \in Site
           /\ SiteOK(t, site, s) => SiteOK(t, site2, s)
  <1> DEFINE site2 == ResolvedSite(t, site, k, s)
             tgt == resolve_target_entry(t, k, s)
             arm == [k |-> k, t |-> tgt]
  <1>1. tgt \in Target /\ CodeFor(t, tgt, k, s)
    BY TargetResolved
  <1>2. arm \in Arm /\ arm.k = k /\ arm.t = tgt
    BY <1>1 DEF Arm
  <1>3. CASE site.kind = "unresolved" \/ (site.kind = "mono" /\ site.k = k)
    <2>1. site2 = MonoSite(k, tgt)
      BY <1>3 DEF ResolvedSite
    <2> HIDE DEF site2, tgt
    <2>2. site2 \in MonoRec /\ site2.kind = "mono" /\ site2.k = k /\ site2.t = tgt
      BY <1>1, <2>1 DEF MonoSite, MonoRec
    <2> QED BY <1>1, <2>2 DEF Site, SiteOK, site2
  <1>4. ASSUME NEW ps \in Seq(Arm), site2 = PicSite(ps), Len(ps) \in 2..PicMax,
               SiteOK(t, site, s) => \A i \in 1..Len(ps) : CodeFor(t, ps[i].t, ps[i].k, s)
        PROVE  /\ site2 \in Site
               /\ SiteOK(t, site, s) => SiteOK(t, site2, s)
    <2> HIDE DEF site2
    <2>1. site2 \in PicRec /\ site2.kind = "pic" /\ site2.ps = ps
      BY <1>4 DEF PicSite, PicRec
    <2> QED BY <1>4, <2>1 DEF Site, SiteOK
  <1>5. CASE site.kind = "mono" /\ site.k # k
    <2> DEFINE j == site.k
               tgt2 == resolve_target_entry(t, j, s)
               arm2 == [k |-> j, t |-> tgt2]
               ps == <<arm2, arm>>
    <2>1. site2 = PicSite(ps)
      BY <1>5 DEF ResolvedSite
    <2>2. j \in Klasses
      BY <1>5, SiteKinds DEF MonoRec
    <2>3. tgt2 \in Target /\ CodeFor(t, tgt2, j, s)
      BY <2>2, TargetResolved
    <2>4. arm2 \in Arm /\ arm2.k = j /\ arm2.t = tgt2
      BY <2>2, <2>3 DEF Arm
    <2> HIDE DEF arm, arm2, tgt, tgt2, j, site2
    <2>5. ps \in Seq(Arm) /\ Len(ps) = 2 /\ ps[1] = arm2 /\ ps[2] = arm
      BY <1>2, <2>4
    <2>6. Len(ps) \in 2..PicMax
      BY <2>5, CodeAssumption
    <2>7. \A i \in 1..Len(ps) : CodeFor(t, ps[i].t, ps[i].k, s)
      BY <1>1, <1>2, <2>3, <2>4, <2>5
    <2> HIDE DEF ps
    <2> QED BY <1>4, <2>1, <2>5, <2>6, <2>7 DEF site2
  <1>6. CASE site.kind = "pic"
    <2> DEFINE qs == site.ps
    <2>1. qs \in Seq(Arm) /\ Len(qs) \in 2..PicMax
      BY <1>6, SiteKinds DEF PicRec
    <2>2. /\ DOMAIN qs = 1..Len(qs) /\ Len(qs) \in Nat
          /\ \A i \in 1..Len(qs) : qs[i] \in Arm
      BY <2>1, LenProperties
    <2>3. SiteOK(t, site, s) => \A i \in 1..Len(qs) : CodeFor(t, qs[i].t, qs[i].k, s)
      BY <1>6 DEF SiteOK
    <2>4. CASE HasPair(qs, k)
      <3> DEFINE g(i) == IF qs[i].k = k THEN arm ELSE qs[i]
                 ps == [i \in 1..Len(qs) |-> g(i)]
      <3>1. site2 = PicSite(ps)
        BY <1>6, <2>2, <2>4 DEF ResolvedSite
      <3> HIDE DEF site2, arm, tgt, qs
      <3>2. \A i \in 1..Len(qs) : g(i) \in Arm
        BY <1>2, <2>2
      <3>3. \A i \in 1..Len(qs) : CodeFor(t, qs[i].t, qs[i].k, s) => CodeFor(t, g(i).t, g(i).k, s)
        BY <1>1, <1>2
      <3> HIDE DEF g
      <3>4. ps \in Seq(Arm) /\ Len(ps) = Len(qs) /\ \A i \in 1..Len(qs) : ps[i] = g(i)
        BY <2>2, <3>2, IsASeq, LenProperties
      <3>5. SiteOK(t, site, s) => \A i \in 1..Len(ps) : CodeFor(t, ps[i].t, ps[i].k, s)
        BY <2>3, <3>3, <3>4
      <3> HIDE DEF ps
      <3> QED BY <1>4, <2>1, <3>1, <3>4, <3>5 DEF site2
    <2>5. CASE ~HasPair(qs, k) /\ Len(qs) < PicMax
      <3> DEFINE ps == Append(qs, arm)
      <3>1. site2 = PicSite(ps)
        BY <1>6, <2>5 DEF ResolvedSite, PicGrown
      <3> HIDE DEF site2, arm, tgt, qs
      <3>2. /\ ps \in Seq(Arm) /\ Len(ps) = Len(qs) + 1 /\ ps[Len(qs) + 1] = arm
            /\ \A i \in 1..Len(qs) : ps[i] = qs[i]
        BY <1>2, <2>1, AppendProperties
      <3>3. Len(ps) \in 2..PicMax
        BY <2>1, <2>5, <3>2, CodeAssumption
      <3>4. ASSUME SiteOK(t, site, s), NEW i \in 1..Len(ps) PROVE CodeFor(t, ps[i].t, ps[i].k, s)
        <4> HIDE DEF ps
        <4>1. CASE i = Len(qs) + 1
          BY <1>1, <1>2, <3>2, <4>1
        <4>2. CASE i # Len(qs) + 1
          <5>1. i \in 1..Len(qs)
            BY <2>2, <3>2, <4>2
          <5> QED BY <2>3, <3>2, <3>4, <5>1
        <4> QED BY <4>1, <4>2
      <3> HIDE DEF ps
      <3> QED BY <1>4, <3>1, <3>2, <3>3, <3>4 DEF site2
    <2>6. CASE ~HasPair(qs, k) /\ ~(Len(qs) < PicMax)
      <3>1. site2 = MegaSite
        BY <1>6, <2>6 DEF ResolvedSite, PicGrown
      <3> QED BY <3>1 DEF Site, SiteOK, MegaSite
    <2> QED BY <2>4, <2>5, <2>6
  <1> QED BY <1>3, <1>5, <1>6, SiteKinds

(* A call site is rewritten in place. *)
LEMMA SiteRewriteOK ==
    ASSUME NEW t, TableOK(t), NEW id \in Slots, t.nms[id].st # "free", NEW site \in Site,
           t.nms[id].st = "alive" => SiteOK(t, site, Callee[t.nms[id].s]),
           NEW u, u = [t EXCEPT !.nms[id].site = site]
    PROVE  TableOK(u) /\ Keeps(t, u)
  <1> DEFINE nm == t.nms[id]
             nm2 == [nm EXCEPT !.site = site]
  <1>1. t \in Table /\ nm \in NmRec
    BY SlotTyped DEF TableOK
  <1>2. /\ nm2 \in NmRec /\ nm2.st = nm.st /\ nm2.k = nm.k /\ nm2.s = nm.s /\ nm2.m = nm.m
        /\ nm2.inline = nm.inline /\ nm2.stale = nm.stale /\ nm2.site = site
    BY <1>1 DEF NmRec
  <1>3. u = [t EXCEPT !.nms[id] = nm2]
    BY <1>1 DEF Table
  <1> HIDE DEF nm2
  <1> QED BY <1>2, <1>3, RewriteOK

(* The adapter's epilogue writes the calling site: it leads to the method  *)
(* just compiled for its klass and selector.                               *)
LEMMA RepointedOK ==
    ASSUME NEW t, TableOK(t), NEW cid \in Slots, t.nms[cid].st # "free",
           NEW k \in Klasses, NEW s \in Selectors, NEW id \in Alive(t),
           t.nms[id].k = k, t.nms[id].s = s, NEW u \in Repointed(t, cid, k, s, id)
    PROVE  TableOK(u) /\ Keeps(t, u)
  <1> DEFINE nm == t.nms[cid]
             mono == MonoSite(k, id)
             pic == ResolvedSite(t, nm.site, k, s)
  <1>1. \/ u = t
        \/ Callee[nm.s] = s /\ u = [t EXCEPT !.nms[cid].site = mono]
        \/ /\ Callee[nm.s] = s /\ nm.site.kind = "pic"
           /\ u = [t EXCEPT !.nms[cid].site = pic]
    BY Zenon DEF Repointed
  <1>2. CASE u = t
    BY <1>2 DEF Keeps
  <1>3. CASE Callee[nm.s] = s /\ u = [t EXCEPT !.nms[cid].site = mono]
    <2>1. id \in Slots /\ t.nms[id].st = "alive"
      BY DEF Alive
    <2>2. mono \in MonoRec /\ mono.kind = "mono" /\ mono.k = k /\ mono.t = id
      BY <2>1 DEF MonoSite, MonoRec, Target
    <2> HIDE DEF mono
    <2>3. mono \in Site /\ SiteOK(t, mono, s)
      BY <2>1, <2>2 DEF Site, SiteOK, CodeFor
    <2> QED BY <1>3, <2>3, SiteRewriteOK
  <1>4. CASE /\ Callee[nm.s] = s /\ nm.site.kind = "pic"
             /\ u = [t EXCEPT !.nms[cid].site = pic]
    <2>1. nm \in NmRec
      BY SlotTyped DEF TableOK
    <2>2. nm.site \in Site /\ nm.site.kind # "mega"
      BY <1>4, <2>1 DEF NmRec
    <2>3. nm.st = "alive" => SiteOK(t, nm.site, s)
      BY <1>4 DEF TableOK, SitesOK, Alive
    <2>4. pic \in Site /\ (SiteOK(t, nm.site, s) => SiteOK(t, pic, s))
      BY <2>2, ResolvedOK
    <2> HIDE DEF pic
    <2> QED BY <1>4, <2>3, <2>4, SiteRewriteOK
  <1> HIDE DEF nm, mono, pic
  <1> QED BY <1>1, <1>2, <1>3, <1>4

(* The end of an adapter's call. *)
LEMMA EpilogueOK ==
    ASSUME LookupTypeOK, OutdatedTyped, NEW t, TableOK(t), compiles \in Nat, NEW n \in Nat,
           compiles + n <= MaxCompiles, NEW f \in FrameRec, NEW cid,
           f.c2i => cid \in Slots /\ t.nms[cid].st # "free",
           NEW p \in AdapterEpilogue(t, n, f, cid)
    PROVE  /\ TableOK(p.t) /\ Keeps(t, p.t)
           /\ p.n \in Nat /\ compiles + p.n <= MaxCompiles
  <1>1. CASE p = [t |-> t, n |-> n]
    BY <1>1 DEF Keeps
  <1>2. CASE p # [t |-> t, n |-> n]
    <2>1. /\ f.c2i /\ Truth(f.k, f.m[2]) = f.m
          /\ \E o \in TriggerOutcomes(t, n, f.k, f.m) :
                /\ o.id # 0
                /\ \E u \in Repointed(o.t, cid, f.k, f.m[2], o.id) : p = [t |-> u, n |-> o.n]
      BY <1>2, Zenon DEF AdapterEpilogue
    <2>2. PICK o \in TriggerOutcomes(t, n, f.k, f.m) :
                /\ o.id # 0
                /\ \E u \in Repointed(o.t, cid, f.k, f.m[2], o.id) : p = [t |-> u, n |-> o.n]
      BY <2>1
    <2>3. PICK u \in Repointed(o.t, cid, f.k, f.m[2], o.id) : p = [t |-> u, n |-> o.n]
      BY <2>2
    <2>4. f.k \in Klasses /\ f.m \in Methods /\ f.m[2] \in Selectors
      BY DEF FrameRec, Methods
    <2>5. /\ TableOK(o.t) /\ Keeps(t, o.t)
          /\ o.n \in Nat /\ compiles + o.n <= MaxCompiles
          /\ o.id \in Alive(o.t) /\ o.t.nms[o.id].k = f.k /\ o.t.nms[o.id].s = f.m[2]
      BY <2>1, <2>2, <2>4, TriggerOK
    <2>6. cid \in Slots /\ o.t.nms[cid].st # "free"
      BY <2>1, <2>5 DEF Keeps
    <2>7. TableOK(u) /\ Keeps(o.t, u)
      BY <2>3, <2>4, <2>5, <2>6, RepointedOK
    <2>8. Keeps(t, u)
      BY <2>5, <2>7, KeepsTransitive
    <2> QED BY <2>3, <2>5, <2>7, <2>8
  <1> QED BY <1>1, <1>2

(* The sweep on entry to compiled code. *)
LEMMA SweepOnEntryOK ==
    ASSUME NEW t, TableOK(t), FramesTyped(frames), CodeKept(t, frames), WrongLeft(t, frames)
    PROVE  LET u == SweepOnEntry(t) IN
           /\ TableOK(u) /\ u.by_key = t.by_key /\ CodeKept(u, frames) /\ WrongLeft(u, frames)
           /\ \A i \in Alive(t) : /\ i \in Alive(u) /\ u.nms[i].m = t.nms[i].m
                                  /\ u.nms[i].k = t.nms[i].k /\ u.nms[i].s = t.nms[i].s
                                  /\ u.nms[i].stale = t.nms[i].stale
  <1>1. CASE SweepOnEntry(t) = t
    BY <1>1
  <1>2. CASE SweepOnEntry(t) = sweep_not_entrant_zombies(t, frames)
    BY <1>2, SweepOK
  <1> QED BY <1>1, <1>2 DEF SweepOnEntry

-----------------------------------------------------------------------------
(***************************************************************************)
(* The stack                                                               *)
(***************************************************************************)

(* An activation of interpreted or of current living code is pushed. *)
LEMMA PushOK ==
    ASSUME NEW t, NEW fs, FramesTyped(fs), CodeKept(t, fs), WrongLeft(t, fs),
           Len(fs) < MaxDepth, NEW f \in FrameRec,
           f.tier = "compiled" <=> f.nm \in Slots,
           f.c2i => fs # <<>> /\ fs[Len(fs)].tier = "compiled",
           FrameOK(t, f), f.tier = "compiled" => t.nms[f.nm].stale # "found"
    PROVE  LET gs == Append(fs, f) IN
           FramesTyped(gs) /\ CodeKept(t, gs) /\ WrongLeft(t, gs)
  <1> DEFINE gs == Append(fs, f)
  <1>1. fs \in Seq(FrameRec) /\ Len(fs) \in Nat /\ (fs # <<>> <=> Len(fs) # 0)
    BY LenProperties, EmptySeq DEF FramesTyped
  <1>2. /\ gs \in Seq(FrameRec) /\ Len(gs) = Len(fs) + 1 /\ gs[Len(fs) + 1] = f
        /\ \A i \in 1..Len(fs) : gs[i] = fs[i]
    BY <1>1, AppendProperties
  <1> HIDE DEF gs
  <1>3. \A i \in 1..Len(gs) : i = Len(gs) \/ i \in 1..Len(fs)
    BY <1>1, <1>2
  <1>4. FramesTyped(gs)
    <2>1. Len(gs) <= MaxDepth
      BY <1>1, <1>2, CodeAssumption
    <2>2. \A i \in 1..Len(gs) : gs[i].tier = "compiled" <=> gs[i].nm \in Slots
      BY <1>2, <1>3 DEF FramesTyped
    <2>3. ASSUME NEW i \in 1..Len(gs), gs[i].c2i PROVE i # 1 /\ gs[i - 1].tier = "compiled"
      <3>1. CASE i = Len(gs)
        <4>1. Len(fs) # 0 /\ fs[Len(fs)].tier = "compiled"
          BY <1>1, <1>2, <2>3, <3>1
        <4>2. i - 1 = Len(fs) /\ Len(fs) \in 1..Len(fs) /\ i # 1
          BY <1>1, <1>2, <3>1, <4>1
        <4> QED BY <1>2, <4>1, <4>2
      <3>2. CASE i \in 1..Len(fs)
        <4>1. i # 1 /\ fs[i - 1].tier = "compiled"
          BY <1>2, <2>3, <3>2 DEF FramesTyped
        <4>2. i - 1 \in 1..Len(fs)
          BY <1>1, <3>2, <4>1
        <4> QED BY <1>2, <4>1, <4>2
      <3> QED BY <1>3, <3>1, <3>2
    <2> QED BY <1>2, <2>1, <2>2, <2>3 DEF FramesTyped
  <1>5. CodeKept(t, gs)
    BY <1>2, <1>3 DEF CodeKept
  <1>6. WrongLeft(t, gs)
    <2> SUFFICES ASSUME NEW i \in 1..Len(gs), gs[i].tier = "compiled", t.nms[gs[i].nm].stale = "found"
                 PROVE  i < Len(gs) /\ gs[i].redirected
      BY DEF WrongLeft
    <2>1. i \in 1..Len(fs)
      BY <1>2, <1>3
    <2>2. i < Len(fs) /\ fs[i].redirected
      BY <1>2, <2>1 DEF WrongLeft
    <2> QED BY <1>1, <1>2, <2>1, <2>2
  <1> QED BY <1>4, <1>5, <1>6 DEF gs

(* The running activation changes tier. *)
LEMMA SetTopOK ==
    ASSUME NEW t, NEW fs, FramesTyped(fs), CodeKept(t, fs), WrongLeft(t, fs), fs # <<>>,
           NEW f \in FrameRec, f.tier = "compiled" <=> f.nm \in Slots,
           f.c2i = fs[Len(fs)].c2i,
           FrameOK(t, f), f.tier = "compiled" => t.nms[f.nm].stale # "found"
    PROVE  LET gs == [fs EXCEPT ![Len(fs)] = f] IN
           FramesTyped(gs) /\ CodeKept(t, gs) /\ WrongLeft(t, gs)
  <1> DEFINE gs == [fs EXCEPT ![Len(fs)] = f]
             n == Len(fs)
  <1>1. fs \in Seq(FrameRec) /\ n \in Nat /\ n # 0 /\ n \in 1..n
    <2>1. fs \in Seq(FrameRec) /\ n \in Nat /\ n # 0
      BY LenProperties, EmptySeq DEF FramesTyped
    <2> QED BY <2>1
  <1>2. /\ gs \in Seq(FrameRec) /\ Len(gs) = n
        /\ \A i \in 1..n : gs[i] = IF i = n THEN f ELSE fs[i]
    BY <1>1, ExceptSeq
  <1> HIDE DEF gs, n
  <1>3. FramesTyped(gs)
    <2>1. Len(gs) <= MaxDepth
      BY <1>2 DEF FramesTyped, n
    <2>2. \A i \in 1..n : gs[i].tier = "compiled" <=> gs[i].nm \in Slots
      BY <1>2 DEF FramesTyped, n
    <2>3. ASSUME NEW i \in 1..n, gs[i].c2i PROVE i # 1 /\ gs[i - 1].tier = "compiled"
      <3>1. i # 1 /\ fs[i - 1].tier = "compiled"
        BY <1>2, <2>3 DEF FramesTyped, n
      <3>2. i - 1 \in 1..n /\ i - 1 # n
        BY <1>1, <3>1
      <3> QED BY <1>2, <3>1, <3>2
    <2> QED BY <1>2, <2>1, <2>2, <2>3 DEF FramesTyped
  <1>4. CodeKept(t, gs)
    BY <1>2 DEF CodeKept, n
  <1>5. WrongLeft(t, gs)
    BY <1>2 DEF WrongLeft, n
  <1> QED BY <1>3, <1>4, <1>5 DEF gs

(* The running activation returns: what waited for it goes on, unless its  *)
(* code was invalidated meanwhile; then it is deoptimized.                 *)
LEMMA ReturnOK ==
    ASSUME NEW t, NEW fs, FramesTyped(fs), CodeKept(t, fs), WrongLeft(t, fs), fs # <<>>
    PROVE  LET below == Front(fs)
               gs == IF below = <<>> THEN <<>> ELSE [below EXCEPT ![Len(below)] = Resumed(@)]
           IN  /\ FramesTyped(gs) /\ CodeKept(t, gs) /\ WrongLeft(t, gs)
               /\ below # <<>> => /\ Last(below) \in FrameRec
                                  /\ Last(below) = fs[Len(fs) - 1] /\ Len(fs) > 1
               /\ below = <<>> => Len(fs) = 1
               /\ Len(gs) < Len(fs)
  <1> DEFINE below == Front(fs)
             n == Len(fs) - 1
             gs == IF below = <<>> THEN <<>> ELSE [below EXCEPT ![Len(below)] = Resumed(@)]
  <1>1. fs \in Seq(FrameRec) /\ Len(fs) \in Nat /\ Len(fs) # 0
    BY LenProperties, EmptySeq DEF FramesTyped
  <1>2. n \in Nat /\ n <= Len(fs) /\ (n # 0 => Len(fs) > 1) /\ \A i \in 1..n : i \in 1..Len(fs) /\ i < Len(fs)
    BY SMTT(20), <1>1
  <1>3. /\ below \in Seq(FrameRec) /\ Len(below) = n /\ \A i \in 1..n : below[i] = fs[i]
    <2>1. below = SubSeq(fs, 1, n)
      BY DEF Front
    <2> HIDE DEF n, below
    <2>2. 1 \in 1..(Len(fs) + 1) /\ n \in 0..Len(fs)
      BY <1>1, <1>2
    <2> QED BY <1>1, <1>2, <2>1, <2>2, SubSeqProperties
  <1>4. CASE n = 0
    <2>1. below = <<>>
      BY <1>3, <1>4, EmptySeq
    <2>2. gs = <<>> /\ Len(gs) = 0 /\ gs \in Seq(FrameRec) /\ Len(fs) = 1 /\ Len(gs) < Len(fs)
      BY <1>1, <1>4, <2>1
    <2> HIDE DEF gs
    <2>3. 1..Len(gs) = {} /\ Len(gs) <= MaxDepth
      BY <2>2, CodeAssumption
    <2> QED BY <2>1, <2>2, <2>3 DEF FramesTyped, CodeKept, WrongLeft, gs
  <1>5. CASE n # 0
    <2> HIDE DEF n, below
    <2>1. below # <<>> /\ n \in 1..n
      BY <1>2, <1>3, <1>5, EmptySeq
    <2> DEFINE f == Resumed(below[n])
    <2>2. gs = [below EXCEPT ![n] = f]
      BY <1>3, <2>1
    <2>3. below[n] \in FrameRec /\ below[n] = fs[n] /\ Last(below) = below[n]
      BY <1>3, <2>1 DEF Last
    <2>4. /\ f \in FrameRec /\ f.c2i = fs[n].c2i
          /\ (f = fs[n] /\ ~fs[n].redirected) \/ (f.tier = "deopted" /\ f.nm = 0)
      <3>1. CASE fs[n].redirected
        <4>1. f = [fs[n] EXCEPT !.tier = "deopted", !.nm = 0, !.redirected = FALSE]
          BY <2>3, <3>1 DEF Resumed
        <4> HIDE DEF f
        <4> QED BY <2>3, <4>1 DEF FrameRec
      <3>2. CASE ~fs[n].redirected
        BY <2>3, <3>2 DEF Resumed
      <3> QED BY <3>1, <3>2
    <2> HIDE DEF f, gs
    <2>5. /\ gs \in Seq(FrameRec) /\ Len(gs) = n
          /\ \A i \in 1..n : gs[i] = IF i = n THEN f ELSE fs[i]
      BY <1>3, <2>1, <2>2, <2>4, ExceptSeq
    <2>6. 0 \notin Slots
      BY CodeAssumption DEF Slots
    <2>7. FramesTyped(gs)
      <3>1. Len(gs) <= MaxDepth
        BY <1>1, <1>2, <2>5, CodeAssumption DEF FramesTyped
      <3>2. \A i \in 1..n : gs[i].tier = "compiled" <=> gs[i].nm \in Slots
        BY <1>2, <2>4, <2>5, <2>6 DEF FramesTyped
      <3>3. ASSUME NEW i \in 1..n, gs[i].c2i PROVE i # 1 /\ gs[i - 1].tier = "compiled"
        <4>1. i # 1 /\ fs[i - 1].tier = "compiled"
          BY <1>2, <2>4, <2>5, <3>3 DEF FramesTyped
        <4>2. i - 1 \in 1..n /\ i - 1 # n
          BY <1>2, <4>1
        <4> QED BY <2>5, <4>1, <4>2
      <3> QED BY <2>5, <3>1, <3>2, <3>3 DEF FramesTyped
    <2>8. CodeKept(t, gs)
      BY <1>2, <2>4, <2>5 DEF CodeKept, FrameOK
    <2>9. WrongLeft(t, gs)
      <3> SUFFICES ASSUME NEW i \in 1..n, gs[i].tier = "compiled", t.nms[gs[i].nm].stale = "found"
                   PROVE  i < n /\ gs[i].redirected
        BY <2>5 DEF WrongLeft
      <3>1. CASE i = n
        <4>1. gs[i] = fs[n] /\ ~fs[n].redirected
          BY <2>4, <2>5, <3>1
        <4> QED BY <1>2, <3>1, <4>1 DEF WrongLeft
      <3>2. CASE i # n
        BY <1>2, <2>5, <3>2 DEF WrongLeft
      <3> QED BY <3>1, <3>2
    <2>10. Len(fs) > 1 /\ Len(gs) < Len(fs)
      BY <1>2, <1>5, <2>1, <2>5
    <2> QED BY <2>1, <2>3, <2>7, <2>8, <2>9, <2>10 DEF gs, n, below
  <1> QED BY <1>4, <1>5

-----------------------------------------------------------------------------
(***************************************************************************)
(* One lemma per action                                                    *)
(***************************************************************************)

(* A step that starts an interpreted activation. *)
LEMMA PushInterpretedStep ==
    ASSUME IInv, UNCHANGED lookupVars, NEW u, ct' = u, TableOK(u), compiles' \in 0..MaxCompiles,
           CodeKept(u, frames), WrongLeft(u, frames), Len(frames) < MaxDepth,
           NEW m \in Methods, NEW k \in Klasses, NEW c \in BOOLEAN,
           c => frames # <<>> /\ Top.tier = "compiled", Push(Interpreted(m, k, c))
    PROVE  IInv'
  <1>1. PICK f : f = Interpreted(m, k, c)
    OBVIOUS
  <1>2. 0 \notin Slots
    BY CodeAssumption DEF Slots
  <1>3. f \in FrameRec /\ f.tier = "interp" /\ f.nm = 0 /\ f.c2i = c
    BY <1>1 DEF Interpreted, Frame, FrameRec
  <1>4. FrameOK(u, f)
    BY <1>3 DEF FrameOK
  <1>5. PICK gs : gs = Append(frames, f)
    OBVIOUS
  <1>6. frames' = gs
    BY <1>1, <1>5 DEF Push
  <1>7. FramesTyped(frames) /\ LookupTypeOK /\ OutdatedTyped
    BY DEF IInv
  <1>8. FramesTyped(gs) /\ CodeKept(u, gs) /\ WrongLeft(u, gs)
    <2>1. f.c2i => frames # <<>> /\ frames[Len(frames)].tier = "compiled"
      BY <1>3 DEF Top
    <2>2. (f.tier = "compiled" <=> f.nm \in Slots) /\ f.tier # "compiled"
      BY <1>2, <1>3
    <2> QED BY <1>3, <1>4, <1>5, <1>7, <2>1, <2>2, PushOK
  <1> QED BY <1>6, <1>7, <1>8, StableStep

(* A step that starts an activation of installed code that is not wrong. *)
LEMMA PushCompiledStep ==
    ASSUME IInv, UNCHANGED lookupVars, NEW u, ct' = u, TableOK(u), compiles' \in 0..MaxCompiles,
           CodeKept(u, frames), WrongLeft(u, frames), Len(frames) < MaxDepth,
           NEW k \in Klasses, NEW id \in Slots, u.nms[id].st # "free", u.nms[id].stale # "found",
           NEW m \in Methods, u.nms[id].m = m, Push(Frame("compiled", m, k, id, FALSE))
    PROVE  IInv'
  <1>1. PICK f : f = Frame("compiled", m, k, id, FALSE)
    OBVIOUS
  <1>3. /\ f \in FrameRec /\ f.tier = "compiled" /\ f.nm = id /\ f.c2i = FALSE /\ f.m = m
    BY <1>1 DEF Frame, FrameRec
  <1>4. FrameOK(u, f) /\ u.nms[f.nm].stale # "found"
    BY <1>3 DEF FrameOK
  <1>5. PICK gs : gs = Append(frames, f)
    OBVIOUS
  <1>6. frames' = gs
    BY <1>1, <1>5 DEF Push
  <1>7. FramesTyped(frames) /\ LookupTypeOK /\ OutdatedTyped
    BY DEF IInv
  <1>8. FramesTyped(gs) /\ CodeKept(u, gs) /\ WrongLeft(u, gs)
    BY <1>3, <1>4, <1>5, <1>7, PushOK
  <1> QED BY <1>6, <1>7, <1>8, StableStep

(* A method that is understood. *)
LEMMA Understood ==
    ASSUME LookupTypeOK, NEW k \in Klasses, NEW s \in Selectors \cup {None}, Understands(k, s)
    PROVE  /\ s \in Selectors /\ Truth(k, s) \in Methods
           /\ Truth(k, s)[2] = s /\ Truth(k, Truth(k, s)[2]) = Truth(k, s)
  <1>1. s \in Selectors /\ Truth(k, s) # None
    BY DEF Understands
  <1>2. Truth(k, s) \in Methods
    BY <1>1, WalkTyped DEF Truth
  <1>3. Truth(k, s)[2] = s
    BY <1>1, WalkSelector
  <1> QED BY <1>1, <1>2, <1>3

(* A send the stack has room for. *)
LEMMA RoomToSend ==
    ASSUME IInv, NEW s, Sending(s)
    PROVE  Len(frames) < MaxDepth
  <1>1. frames = <<>> => Len(frames) = 0
    OBVIOUS
  <1> QED BY <1>1, CodeAssumption DEF Sending

(* No key loses its code. *)
KeysStay == \A key \in Keys : ct.by_key[key] # 0 => ct'.by_key[key] # 0

(* A send from the interpreter to a method. *)
LEMMA SendMethodStep ==
    ASSUME IInv, NEW k \in Klasses, NEW s \in Selectors, SendMethod(k, s)
    PROVE  IInv' /\ KeysStay
  <1>1. LookupTypeOK /\ OutdatedTyped /\ Sending(s) /\ Understands(k, s) /\ UNCHANGED lookupVars
    BY DEF SendMethod, IInv
  <1>2. PICK m \in IF frames = <<>> THEN {Truth(k, s)} ELSE Answers(Top.m, k) :
              activate_method(m, k)
    BY DEF SendMethod
  <1>3. m \in Methods
    <2>1. CASE frames = <<>>
      BY <1>1, <1>2, <2>1, Understood
    <2>2. CASE frames # <<>>
      <3>1. frames \in Seq(FrameRec) /\ Len(frames) \in Nat /\ Len(frames) # 0
        BY <2>2, LenProperties, EmptySeq DEF IInv, FramesTyped
      <3>2. Len(frames) \in 1..Len(frames)
        BY <3>1
      <3>0. Top \in FrameRec
        BY <3>1, <3>2 DEF Top
      <3>3. Top.m \in Methods
        BY <3>0 DEF FrameRec
      <3>4. s = Callee[Top.m[2]]
        BY <1>1, <2>2 DEF Sending
      <3>5. Answers(Top.m, k) \subseteq Methods
        BY <1>1, <3>3, <3>4, AnswersTyped
      <3> QED BY <2>2, <3>5
    <2> QED BY <2>1, <2>2
  <1>4. Len(frames) < MaxDepth
    BY <1>1, RoomToSend
  <1>5. activate_method(m, k)
    BY <1>2
  <1>6. /\ TableOK(ct) /\ compiles \in 0..MaxCompiles /\ FramesTyped(frames)
        /\ CodeKept(ct, frames) /\ WrongLeft(ct, frames)
    BY DEF IInv
  <1>7. CASE Push(Interpreted(m, k, FALSE)) /\ UNCHANGED <<ct, compiles>>
    <2>1. PICK u : u = ct
      OBVIOUS
    <2>2. KeysStay
      BY <1>7 DEF KeysStay
    <2> QED BY <1>1, <1>3, <1>4, <1>6, <1>7, <2>1, <2>2, PushInterpretedStep
  <1>8. ASSUME NEW o \in TriggerOutcomes(ct, 0, k, m), Truth(k, m[2]) = m,
               /\ o.id # 0 /\ ct' = SweepOnEntry(o.t) /\ compiles' = compiles + o.n
               /\ Push(Compiled(o.t, o.id, k)) \/ Push(Interpreted(m, k, FALSE))
        PROVE  IInv' /\ KeysStay
    <2>1. compiles \in Nat /\ compiles + 0 <= MaxCompiles /\ 0 \in Nat
      BY <1>6, CodeAssumption
    <2>2. /\ TableOK(o.t) /\ Keeps(ct, o.t) /\ o.n \in Nat /\ compiles + o.n <= MaxCompiles
          /\ o.id \in Alive(o.t) /\ o.t.nms[o.id].m = m
      BY <1>1, <1>3, <1>6, <1>8, <2>1, TriggerOK
    <2>3. CodeKept(o.t, frames) /\ WrongLeft(o.t, frames)
      BY <1>6, <2>2, FramesStayOK
    <2>4. PICK u : u = SweepOnEntry(o.t)
      OBVIOUS
    <2>5. /\ TableOK(u) /\ CodeKept(u, frames) /\ WrongLeft(u, frames)
          /\ o.id \in Alive(u) /\ u.nms[o.id].m = m /\ u.by_key = o.t.by_key
      BY <1>6, <2>2, <2>3, <2>4, SweepOnEntryOK
    <2>6. /\ o.id \in Slots /\ u.nms[o.id].st # "free" /\ u.nms[o.id].stale # "found"
      BY <2>5 DEF Alive, TableOK, CodeCurrent, NmCurrent
    <2>7. compiles' \in 0..MaxCompiles /\ ct' = u
      BY <1>8, <2>1, <2>2, <2>4, CodeAssumption
    <2>8. ASSUME Push(Interpreted(m, k, FALSE)) PROVE IInv'
      BY <1>1, <1>3, <1>4, <2>5, <2>7, <2>8, PushInterpretedStep
    <2>9. ASSUME Push(Compiled(o.t, o.id, k)) PROVE IInv'
      <3>1. Push(Frame("compiled", m, k, o.id, FALSE))
        BY <2>2, <2>9 DEF Compiled
      <3> QED BY <1>1, <1>3, <1>4, <2>5, <2>6, <2>7, <3>1, PushCompiledStep
    <2>10. KeysStay
      BY <2>2, <2>5, <2>7 DEF Keeps, KeysStay
    <2> QED BY <1>8, <2>8, <2>9, <2>10
  <1> QED BY <1>5, <1>7, <1>8 DEF activate_method

(* A send from the interpreter to compiled code an inline cache names. *)
LEMMA SendCompiledTargetStep ==
    ASSUME IInv, NEW k \in Klasses, NEW s \in Selectors, SendCompiledTarget(k, s)
    PROVE  IInv' /\ KeysStay
  <1>1. /\ Sending(s) /\ UNCHANGED lookupVars /\ compiles' = compiles
        /\ ct' = SweepOnEntry(ct)
    BY DEF SendCompiledTarget
  <1>2. PICK id \in Alive(ct) :
          /\ KeyOf(ct.nms[id]) = <<k, s>>
          /\ Push(Compiled(ct, id, k)) \/ Push(Interpreted(Truth(k, s), k, FALSE))
    BY DEF SendCompiledTarget
  <1>3. /\ TableOK(ct) /\ compiles \in 0..MaxCompiles /\ FramesTyped(frames)
        /\ CodeKept(ct, frames) /\ WrongLeft(ct, frames) /\ LookupTypeOK /\ OutdatedTyped
    BY DEF IInv
  <1>4. Len(frames) < MaxDepth
    BY <1>1, RoomToSend
  <1>5. PICK m : m = ct.nms[id].m
    OBVIOUS
  <1>6. m \in Methods /\ m = Truth(k, s)
    <2>1. ct.nms[id] \in NmRec /\ NmCurrent(ct.nms[id])
      BY <1>3, SlotTyped DEF Alive, TableOK, CodeCurrent
    <2>2. ct.nms[id].k = k /\ ct.nms[id].s = s
      BY <1>2 DEF KeyOf
    <2> QED BY <1>5, <2>1, <2>2 DEF NmRec, NmCurrent
  <1>7. PICK u : u = SweepOnEntry(ct)
    OBVIOUS
  <1>8. /\ TableOK(u) /\ CodeKept(u, frames) /\ WrongLeft(u, frames)
        /\ id \in Alive(u) /\ u.nms[id].m = m /\ u.by_key = ct.by_key
    BY <1>3, <1>5, <1>7, SweepOnEntryOK
  <1>9. id \in Slots /\ u.nms[id].st # "free" /\ u.nms[id].stale # "found"
    BY <1>8 DEF Alive, TableOK, CodeCurrent, NmCurrent
  <1>10. compiles' \in 0..MaxCompiles /\ ct' = u
    BY <1>1, <1>3, <1>7
  <1>11. ASSUME Push(Interpreted(Truth(k, s), k, FALSE)) PROVE IInv'
    <2>1. Push(Interpreted(m, k, FALSE))
      BY <1>6, <1>11
    <2> QED BY <1>1, <1>4, <1>6, <1>8, <1>10, <2>1, PushInterpretedStep
  <1>12. ASSUME Push(Compiled(ct, id, k)) PROVE IInv'
    <2>1. Push(Frame("compiled", m, k, id, FALSE))
      BY <1>5, <1>12 DEF Compiled
    <2> QED BY <1>1, <1>4, <1>6, <1>8, <1>9, <1>10, <2>1, PushCompiledStep
  <1>13. KeysStay
    BY <1>8, <1>10 DEF KeysStay
  <1> QED BY <1>2, <1>11, <1>12, <1>13

(* What is known of the code that makes a call. *)
LEMMA Caller ==
    ASSUME IInv, Running({"compiled"})
    PROVE  /\ frames # <<>> /\ Top.tier = "compiled" /\ Top \in FrameRec
           /\ Top.nm \in Slots /\ Nm \in NmRec /\ Nm.st # "free" /\ Nm.m = Top.m
           /\ Len(frames) \in Nat /\ Len(frames) \in 1..Len(frames)
           /\ Nm.s \in Selectors /\ Callee[Nm.s] \in Selectors \cup {None} /\ Nm.site \in Site
           /\ Nm.st = "alive" => SiteOK(ct, Nm.site, Callee[Nm.s])
  <1>1. frames # <<>> /\ Top.tier = "compiled"
    BY DEF Running
  <1>2. frames \in Seq(FrameRec) /\ Len(frames) \in Nat /\ Len(frames) # 0
    BY <1>1, LenProperties, EmptySeq DEF IInv, FramesTyped
  <1>3. Len(frames) \in 1..Len(frames)
    BY <1>2
  <1>4. Top \in FrameRec /\ Top.nm \in Slots /\ Nm.st # "free" /\ Nm.m = Top.m
    BY <1>1, <1>2, <1>3 DEF IInv, FramesTyped, CodeKept, FrameOK, Top, Nm
  <1>5. ct \in Table
    BY DEF IInv, TableOK
  <1>6. Nm \in NmRec
    BY <1>4, <1>5, SlotTyped DEF Nm
  <1>7. Nm.s \in Selectors /\ Nm.site \in Site
    BY <1>6 DEF NmRec
  <1>8. Nm.st = "alive" => SiteOK(ct, Nm.site, Callee[Nm.s])
    BY <1>4 DEF IInv, TableOK, SitesOK, Alive, Nm
  <1> QED BY <1>1, <1>2, <1>3, <1>4, <1>6, <1>7, <1>8, CodeAssumption

(* A send from compiled code arrives, at an adapter or in living code. *)
LEMMA LandStep ==
    ASSUME IInv, UNCHANGED lookupVars, compiles' = compiles, NEW k \in Klasses, CallsOut(k),
           NEW u, ct' = u, TableOK(u), Keeps(ct, u),
           NEW tgt, tgt # C2i => tgt \in Alive(ct),
           Land(tgt, k, Callee[Nm.s])
    PROVE  IInv'
  <1>1. Running({"compiled"}) /\ Len(frames) < MaxDepth
    BY DEF CallsOut
  <1>2. PICK s : s = Callee[Nm.s]
    OBVIOUS
  <1>3. /\ TableOK(ct) /\ compiles \in 0..MaxCompiles /\ FramesTyped(frames)
        /\ CodeKept(ct, frames) /\ WrongLeft(ct, frames) /\ LookupTypeOK /\ OutdatedTyped
    BY DEF IInv
  <1>4. s \in Selectors \cup {None} /\ frames # <<>> /\ Top.tier = "compiled"
    BY <1>1, <1>2, Caller
  <1>5. Understands(k, s)
    BY <1>2 DEF CallsOut
  <1>6. CodeKept(u, frames) /\ WrongLeft(u, frames)
    BY <1>3, FramesStayOK
  <1>7. CASE tgt = C2i
    <2>1. PICK m : m = Truth(k, s)
      OBVIOUS
    <2>2. m \in Methods
      BY <1>3, <1>4, <1>5, <2>1, Understood
    <2>3. Push(Interpreted(m, k, TRUE))
      BY <1>2, <1>7, <2>1 DEF Land
    <2> QED BY <1>1, <1>3, <1>4, <1>6, <2>2, <2>3, PushInterpretedStep
  <1>8. CASE tgt # C2i
    <2>1. PICK m : m = ct.nms[tgt].m
      OBVIOUS
    <2>2. tgt \in Slots /\ ct.nms[tgt] \in NmRec /\ ct.nms[tgt].st # "free"
      BY <1>3, <1>8, SlotTyped DEF Alive, TableOK
    <2>3. m \in Methods /\ ct.nms[tgt].stale # "found"
      BY <1>3, <1>8, <2>1, <2>2 DEF NmRec, TableOK, CodeCurrent, NmCurrent
    <2>4. u.nms[tgt].st # "free" /\ u.nms[tgt].stale # "found" /\ u.nms[tgt].m = m
      BY <2>1, <2>2, <2>3 DEF Keeps
    <2>5. Push(Frame("compiled", m, k, tgt, FALSE))
      BY <1>8, <2>1 DEF Land, Compiled
    <2> QED BY <1>1, <1>3, <1>6, <2>2, <2>3, <2>4, <2>5, PushCompiledStep
  <1> QED BY <1>7, <1>8

(* The code a resolved site jumps into is living; from a site that is in   *)
(* order it is code for the receiver's klass and the site's selector.      *)
LEMMA DirectOK ==
    ASSUME NEW site \in Site, NEW k, NEW s, NEW tgt \in DirectTargets(site, k), tgt # C2i
    PROVE  /\ tgt \in Alive(ct)
           /\ SiteOK(ct, site, s) => ct.nms[tgt].k = k /\ ct.nms[tgt].s = s
  <1>1. CASE site.kind = "mono"
    <2>1. site.t \in Target
      BY <1>1, SiteKinds DEF MonoRec
    <2>2. tgt = site.t /\ Enters(tgt, k, FALSE)
      BY <1>1 DEF DirectTargets
    <2>3. ct.nms[tgt].st = "alive" /\ ct.nms[tgt].k = k
      BY <2>2 DEF Enters
    <2>4. tgt \in Slots
      BY <2>1, <2>2 DEF Target
    <2> QED BY <1>1, <2>2, <2>3, <2>4 DEF Alive, SiteOK, CodeFor
  <1>2. CASE site.kind = "pic"
    <2>1. PICK i \in PairsFor(site.ps, k) : tgt = site.ps[i].t /\ Enters(tgt, k, TRUE)
      BY <1>2 DEF DirectTargets
    <2>2. site.ps \in Seq(Arm)
      BY <1>2, SiteKinds DEF PicRec
    <2>3. i \in 1..Len(site.ps) /\ site.ps[i].k = k /\ site.ps[i] \in Arm
      BY <2>1, <2>2, LenProperties DEF PairsFor
    <2>4. tgt \in Slots /\ ct.nms[tgt].st = "alive"
      BY <2>1, <2>3 DEF Arm, Target, Enters
    <2> QED BY <1>2, <2>1, <2>3, <2>4 DEF Alive, SiteOK, CodeFor
  <1>3. CASE site.kind # "mono" /\ site.kind # "pic"
    BY <1>3 DEF DirectTargets
  <1> QED BY <1>1, <1>2, <1>3

(* A send through a resolved site. *)
LEMMA CallDirectStep ==
    ASSUME IInv, NEW k \in Klasses, CallDirect(k)
    PROVE  IInv'
  <1>1. CallsOut(k) /\ UNCHANGED <<lookupVars, ct, compiles>> /\ Running({"compiled"})
    BY DEF CallDirect, CallsOut
  <1>2. PICK tgt \in DirectTargets(Nm.site, k) : Land(tgt, k, Callee[Nm.s])
    BY DEF CallDirect
  <1>3. Nm.site \in Site
    BY <1>1, Caller
  <1>4. tgt # C2i => tgt \in Alive(ct)
    BY <1>3, DirectOK
  <1>5. PICK u : u = ct
    OBVIOUS
  <1>6. TableOK(u) /\ Keeps(ct, u) /\ ct' = u
    BY <1>1, <1>5 DEF IInv, Keeps
  <1> QED BY <1>1, <1>2, <1>4, <1>6, LandStep

(* A send through the resolve stub, which writes the site. *)
LEMMA ResolveStep ==
    ASSUME IInv, NEW k \in Klasses, rt_resolve_send(k)
    PROVE  IInv' /\ Keeps(ct, ct')
  <1>1. /\ CallsOut(k) /\ UNCHANGED <<lookupVars, compiles>> /\ Running({"compiled"})
        /\ Nm.site.kind # "mega"
    BY DEF rt_resolve_send, CallsOut
  <1>2. PICK s : s = Callee[Nm.s]
    OBVIOUS
  <1>3. PICK site : site = ResolvedSite(ct, Nm.site, k, s)
    OBVIOUS
  <1>4. PICK tgt : tgt = resolve_target_entry(ct, k, s)
    OBVIOUS
  <1>5. /\ Land(tgt, k, Callee[Nm.s])
        /\ ct' = [ct EXCEPT !.nms[Top.nm].site = site] \/ ct' = ct
    BY <1>2, <1>3, <1>4 DEF rt_resolve_send
  <1>6. /\ Top.nm \in Slots /\ Nm \in NmRec /\ Nm.st # "free" /\ Nm.site \in Site
        /\ s \in Selectors \cup {None}
        /\ Nm.st = "alive" => SiteOK(ct, Nm.site, s)
    BY <1>1, <1>2, Caller
  <1>7. s \in Selectors /\ TableOK(ct)
    BY <1>1, <1>2, <1>6, Understood DEF CallsOut, IInv
  <1>8. site \in Site /\ (SiteOK(ct, Nm.site, s) => SiteOK(ct, site, s))
    BY <1>1, <1>3, <1>6, <1>7, ResolvedOK
  <1>9. tgt # C2i => tgt \in Alive(ct)
    BY <1>4, <1>7, TargetResolved
  <1>10. PICK u : ct' = u /\ TableOK(u) /\ Keeps(ct, u)
    <2>1. CASE ct' = ct
      BY <1>7, <2>1 DEF Keeps
    <2>2. CASE ct' = [ct EXCEPT !.nms[Top.nm].site = site]
      <3>1. PICK u : u = [ct EXCEPT !.nms[Top.nm].site = site]
        OBVIOUS
      <3>2. PICK id : id = Top.nm
        OBVIOUS
      <3>3. /\ id \in Slots /\ ct.nms[id].st # "free"
            /\ ct.nms[id].st = "alive" => SiteOK(ct, site, Callee[ct.nms[id].s])
        BY <1>2, <1>6, <1>8, <3>2 DEF Nm
      <3>4. TableOK(u) /\ Keeps(ct, u)
        BY <1>7, <1>8, <3>1, <3>2, <3>3, SiteRewriteOK
      <3> QED BY <2>2, <3>1, <3>4
    <2> QED BY <1>5, <2>1, <2>2
  <1> QED BY <1>1, <1>5, <1>9, <1>10, LandStep

(* A megamorphic send. *)
LEMMA MegaStep ==
    ASSUME IInv, NEW k \in Klasses, rt_mega_lookup(k)
    PROVE  IInv'
  <1>1. CallsOut(k) /\ UNCHANGED <<lookupVars, ct, compiles>> /\ Running({"compiled"})
    BY DEF rt_mega_lookup, CallsOut
  <1>2. PICK s : s = Callee[Nm.s]
    OBVIOUS
  <1>3. PICK tgt : tgt = resolve_target_entry(ct, k, s)
    OBVIOUS
  <1>4. Land(tgt, k, Callee[Nm.s])
    BY <1>2, <1>3 DEF rt_mega_lookup
  <1>5. s \in Selectors \cup {None}
    BY <1>1, <1>2, Caller
  <1>6. s \in Selectors /\ TableOK(ct)
    BY <1>1, <1>2, <1>5, Understood DEF CallsOut, IInv
  <1>7. tgt # C2i => tgt \in Alive(ct)
    BY <1>3, <1>6, TargetResolved
  <1>8. PICK u : u = ct
    OBVIOUS
  <1>9. TableOK(u) /\ Keeps(ct, u) /\ ct' = u
    BY <1>1, <1>6, <1>8 DEF Keeps
  <1> QED BY <1>1, <1>4, <1>7, <1>9, LandStep

(* A step of the running activation that leaves it with frame f. *)
LEMMA SetTopStep ==
    ASSUME IInv, UNCHANGED lookupVars, NEW u, ct' = u, TableOK(u), compiles' \in 0..MaxCompiles,
           Keeps(ct, u), frames # <<>>, NEW f \in FrameRec, SetTop(f), f.c2i = Top.c2i,
           f.tier = "compiled" <=> f.nm \in Slots,
           f.tier = "compiled" => /\ u.nms[f.nm].st # "free" /\ u.nms[f.nm].m = f.m
                                  /\ u.nms[f.nm].stale # "found"
    PROVE  IInv'
  <1>1. FramesTyped(frames) /\ LookupTypeOK /\ OutdatedTyped /\ CodeKept(ct, frames) /\ WrongLeft(ct, frames)
    BY DEF IInv
  <1>2. CodeKept(u, frames) /\ WrongLeft(u, frames)
    BY <1>1, FramesStayOK
  <1>3. FrameOK(u, f)
    BY DEF FrameOK
  <1>4. PICK gs : gs = [frames EXCEPT ![Len(frames)] = f]
    OBVIOUS
  <1>5. frames' = gs
    BY <1>4 DEF SetTop
  <1>6. FramesTyped(gs) /\ CodeKept(u, gs) /\ WrongLeft(u, gs)
    BY <1>1, <1>2, <1>3, <1>4, SetTopOK DEF Top
  <1> QED BY <1>1, <1>5, <1>6, StableStep

(* The running compiled activation goes on in the interpreter, by an       *)
(* uncommon trap or at a poll.                                             *)
LEMMA DeoptStep ==
    ASSUME IInv, rt_uncommon_trap \/ rt_poll
    PROVE  IInv'
  <1>1. Running({"compiled"}) /\ UNCHANGED <<lookupVars, ct, compiles>>
    BY DEF rt_uncommon_trap, rt_poll
  <1>2. PICK f : \/ f = [Top EXCEPT !.tier = "deopted", !.nm = 0, !.trap = Top.nm] /\ SetTop(f)
                 \/ f = [Top EXCEPT !.tier = "deopted", !.nm = 0] /\ SetTop(f)
    BY DEF rt_uncommon_trap, rt_poll
  <1>3. Top \in FrameRec /\ Top.nm \in Slots /\ frames # <<>> /\ 0 \notin Slots
    BY <1>1, Caller, CodeAssumption DEF Slots
  <1>4. f \in FrameRec /\ f.tier = "deopted" /\ f.nm = 0 /\ f.c2i = Top.c2i
    BY <1>2, <1>3 DEF FrameRec
  <1>5. PICK u : u = ct
    OBVIOUS
  <1>6. TableOK(u) /\ Keeps(ct, u) /\ ct' = u /\ compiles' \in 0..MaxCompiles
    BY <1>1, <1>5 DEF IInv, Keeps
  <1>7. (f.tier = "compiled" <=> f.nm \in Slots) /\ f.tier # "compiled"
    BY <1>3, <1>4
  <1> QED BY <1>1, <1>2, <1>3, <1>4, <1>6, <1>7, SetTopStep

(* An activation returns: recompilation of the method that trapped, the    *)
(* adapter's epilogue, and the caller's own deoptimization.                *)
LEMMA ReturnStep ==
    ASSUME IInv, Return
    PROVE  IInv' /\ Keeps(ct, ct')
  <1> DEFINE below == Front(frames)
             caller == IF below = <<>> THEN 0 ELSE Last(below).nm
             gs == IF below = <<>> THEN <<>> ELSE [below EXCEPT ![Len(below)] = Resumed(@)]
  <1>1. frames # <<>> /\ UNCHANGED lookupVars /\ frames' = gs
    BY DEF Return
  <1>2. PICK o \in note_uncommon_trap(ct, Top.trap) :
          \E p \in AdapterEpilogue(o.t, o.n, Top, caller) : ct' = p.t /\ compiles' = compiles + p.n
    BY DEF Return
  <1>3. PICK p \in AdapterEpilogue(o.t, o.n, Top, caller) : ct' = p.t /\ compiles' = compiles + p.n
    BY <1>2
  <1>4. /\ TableOK(ct) /\ compiles \in 0..MaxCompiles /\ FramesTyped(frames)
        /\ CodeKept(ct, frames) /\ WrongLeft(ct, frames) /\ LookupTypeOK /\ OutdatedTyped
    BY DEF IInv
  <1>5. frames \in Seq(FrameRec) /\ Len(frames) \in Nat /\ Len(frames) # 0
    BY <1>1, <1>4, LenProperties, EmptySeq DEF FramesTyped
  <1>6. /\ Len(frames) \in 1..Len(frames)
        /\ Len(frames) # 1 => Len(frames) - 1 \in 1..Len(frames)
    <2>1. \A n \in Nat : n # 0 => n \in 1..n /\ (n # 1 => n - 1 \in 1..n)
      OBVIOUS
    <2> QED BY <1>5, <2>1
  <1>7. Top \in FrameRec
    BY <1>5, <1>6 DEF Top
  <1>8. Top.trap \in Slots \cup {0}
    BY <1>7 DEF FrameRec
  <1>9. TableOK(o.t) /\ Keeps(ct, o.t) /\ o.n \in Nat /\ compiles + o.n <= MaxCompiles
    BY <1>4, <1>8, TrapOK
  <1>10. /\ below # <<>> => Last(below) = frames[Len(frames) - 1] /\ Len(frames) > 1
         /\ below = <<>> => Len(frames) = 1
         /\ FramesTyped(gs)
    BY <1>1, <1>4, ReturnOK
  <1>11. Top.c2i => caller \in Slots /\ o.t.nms[caller].st # "free"
    <2> SUFFICES ASSUME Top.c2i PROVE caller \in Slots /\ o.t.nms[caller].st # "free"
      OBVIOUS
    <2>1. Len(frames) # 1 /\ frames[Len(frames) - 1].tier = "compiled"
      BY <1>4, <1>6 DEF FramesTyped, Top
    <2> HIDE DEF below
    <2>2. caller = frames[Len(frames) - 1].nm
      BY <1>10, <2>1
    <2> HIDE DEF caller
    <2>3. Len(frames) - 1 \in 1..Len(frames)
      BY <1>6, <2>1
    <2>4. caller \in Slots /\ ct.nms[caller].st # "free"
      BY <1>4, <2>1, <2>2, <2>3 DEF FramesTyped, CodeKept, FrameOK
    <2> QED BY <1>9, <2>4 DEF Keeps
  <1>12. compiles \in Nat
    BY <1>4, CodeAssumption
  <1> HIDE DEF caller, below
  <1>13. TableOK(p.t) /\ Keeps(o.t, p.t) /\ p.n \in Nat /\ compiles + p.n <= MaxCompiles
    BY <1>3, <1>4, <1>7, <1>9, <1>11, <1>12, EpilogueOK
  <1>14. Keeps(ct, p.t)
    BY <1>9, <1>13, KeepsTransitive
  <1>15. CodeKept(p.t, frames) /\ WrongLeft(p.t, frames)
    BY <1>4, <1>14, FramesStayOK
  <1>16. FramesTyped(gs) /\ CodeKept(p.t, gs) /\ WrongLeft(p.t, gs)
    BY <1>1, <1>4, <1>15, ReturnOK DEF below
  <1>17. PICK u : u = p.t
    OBVIOUS
  <1>18. PICK hs : hs = gs
    OBVIOUS
  <1> HIDE DEF gs
  <1>19. compiles' \in 0..MaxCompiles /\ ct' = u /\ frames' = hs
    BY <1>1, <1>3, <1>12, <1>13, <1>17, <1>18, CodeAssumption
  <1>20. IInv'
    BY <1>1, <1>4, <1>13, <1>16, <1>17, <1>18, <1>19, StableStep
  <1> QED BY <1>3, <1>14, <1>20

(* The loop of an interpreted activation goes on in compiled code of the   *)
(* same method.                                                            *)
LEMMA OsrStep ==
    ASSUME IInv, rt_osr_request
    PROVE  IInv' /\ Keeps(ct, ct')
  <1> DEFINE key == ct.by_key[<<Top.k, Top.m[2]>>]
             ver == IF key = 0 THEN 0 ELSE ct.nms[key].ver
  <1>1. /\ frames # <<>> /\ Truth(Top.k, Top.m[2]) = Top.m /\ UNCHANGED lookupVars
    BY DEF rt_osr_request, Running
  <1>2. \/ \E id \in OsrMethods(Top.k, Top.m[2]) :
              SetTop([Top EXCEPT !.tier = "compiled", !.nm = id]) /\ UNCHANGED <<ct, compiles>>
        \/ /\ CanCompile(ct, Top.k, 0)
           /\ \E i \in InlineChoices(Top.m), osr \in {"warm", "half"} :
                LET r == install(ct, Top.k, Top.m, ver, osr, i)
                IN  ct' = r.t /\ SetTop([Top EXCEPT !.tier = "compiled", !.nm = r.id])
           /\ compiles' = compiles + 1
    BY DEF rt_osr_request
  <1>3. /\ TableOK(ct) /\ compiles \in 0..MaxCompiles /\ FramesTyped(frames) /\ LookupTypeOK /\ OutdatedTyped
    BY DEF IInv
  <1>4. Top \in FrameRec
    <2>1. frames \in Seq(FrameRec) /\ Len(frames) \in Nat /\ Len(frames) # 0
      BY <1>1, <1>3, LenProperties, EmptySeq DEF FramesTyped
    <2>2. Len(frames) \in 1..Len(frames)
      BY <2>1
    <2> QED BY <2>1, <2>2 DEF Top
  <1>5. Top.k \in Klasses /\ Top.m \in Methods /\ Top.m[2] \in Selectors
    BY <1>4 DEF FrameRec, Methods
  <1>6. ASSUME NEW id \in Slots, NEW f, f = [Top EXCEPT !.tier = "compiled", !.nm = id]
        PROVE  /\ f \in FrameRec /\ f.tier = "compiled" /\ f.nm = id /\ f.c2i = Top.c2i
               /\ f.m = Top.m
    BY <1>4, <1>6 DEF FrameRec
  <1>7. ASSUME NEW id \in OsrMethods(Top.k, Top.m[2]),
               SetTop([Top EXCEPT !.tier = "compiled", !.nm = id]), UNCHANGED <<ct, compiles>>
        PROVE  IInv' /\ Keeps(ct, ct')
    <2>1. id \in Slots /\ id \in Alive(ct) /\ ct.nms[id].k = Top.k /\ ct.nms[id].s = Top.m[2]
      BY DEF OsrMethods, Alive
    <2>2. ct.nms[id].m = Top.m /\ ct.nms[id].stale # "found" /\ ct.nms[id].st # "free"
      BY <1>1, <1>3, <2>1 DEF TableOK, CodeCurrent, NmCurrent, Alive
    <2>3. PICK f : f = [Top EXCEPT !.tier = "compiled", !.nm = id]
      OBVIOUS
    <2>4. /\ f \in FrameRec /\ f.tier = "compiled" /\ f.nm = id /\ f.c2i = Top.c2i
          /\ f.m = Top.m
      BY <1>6, <2>1, <2>3
    <2>5. PICK u : u = ct
      OBVIOUS
    <2>6. TableOK(u) /\ Keeps(ct, u) /\ ct' = u /\ compiles' \in 0..MaxCompiles
      BY <1>3, <1>7, <2>5 DEF Keeps
    <2>7. SetTop(f)
      BY <1>7, <2>3
    <2>8. /\ f.tier = "compiled" <=> f.nm \in Slots
          /\ u.nms[f.nm].st # "free" /\ u.nms[f.nm].m = f.m /\ u.nms[f.nm].stale # "found"
      BY <2>1, <2>2, <2>4, <2>5
    <2>9. IInv'
      BY <1>1, <2>4, <2>6, <2>7, <2>8, SetTopStep
    <2> QED BY <2>6, <2>9
  <1>8. ver \in Nat
    <2>1. CASE key = 0
      BY <2>1
    <2>2. CASE key # 0
      <3>1. <<Top.k, Top.m[2]>> \in Keys
        BY <1>5 DEF Keys
      <3>2. key \in Alive(ct)
        BY <1>3, <2>2, <3>1 DEF TableOK, KeysOK
      <3>3. ct.nms[key] \in NmRec
        BY <1>3, <3>2, SlotTyped DEF TableOK, Alive
      <3> QED BY <2>2, <3>3 DEF NmRec
    <2> QED BY <2>1, <2>2
  <1> HIDE DEF ver
  <1>9. ASSUME CanCompile(ct, Top.k, 0), compiles' = compiles + 1,
               NEW i \in InlineChoices(Top.m), NEW osr \in {"warm", "half"},
               LET r == install(ct, Top.k, Top.m, ver, osr, i)
               IN  ct' = r.t /\ SetTop([Top EXCEPT !.tier = "compiled", !.nm = r.id])
        PROVE  IInv' /\ Keeps(ct, ct')
    <2> DEFINE r == install(ct, Top.k, Top.m, ver, osr, i)
    <2>1. Installed(ct) # Slots /\ compiles + 0 < MaxCompiles
      BY <1>9 DEF CanCompile
    <2>2. osr \in OsrKinds /\ LookupTypeOK /\ OutdatedTyped
      BY <1>3 DEF OsrKinds
    <2>3. PICK m : m = Top.m
      OBVIOUS
    <2>4. /\ m \in Methods /\ Truth(Top.k, m[2]) = m /\ i \in InlineChoices(m)
          /\ r = install(ct, Top.k, m, ver, osr, i)
      BY <1>1, <1>5, <2>3
    <2> HIDE DEF r
    <2>5. TableOK(r.t) /\ Keeps(ct, r.t) /\ r.id \in Alive(r.t) /\ r.t.nms[r.id].m = m
      BY <1>3, <1>5, <1>8, <2>1, <2>2, <2>4, InstalledOK
    <2>6. r.id \in Slots /\ r.t.nms[r.id].st # "free" /\ r.t.nms[r.id].stale # "found"
      BY <2>5 DEF TableOK, CodeCurrent, NmCurrent, Alive
    <2>7. PICK f : f = [Top EXCEPT !.tier = "compiled", !.nm = r.id]
      OBVIOUS
    <2>8. /\ f \in FrameRec /\ f.tier = "compiled" /\ f.nm = r.id /\ f.c2i = Top.c2i
          /\ f.m = Top.m
      BY <1>6, <2>6, <2>7
    <2>9. PICK u : u = r.t
      OBVIOUS
    <2>10. SetTop(f) /\ ct' = u
      BY <1>9, <2>7, <2>9 DEF r
    <2>11. compiles' \in 0..MaxCompiles
      BY <1>3, <1>9, <2>1, CodeAssumption
    <2>12. /\ f.tier = "compiled" <=> f.nm \in Slots
           /\ u.nms[f.nm].st # "free" /\ u.nms[f.nm].m = f.m /\ u.nms[f.nm].stale # "found"
      BY <2>3, <2>5, <2>6, <2>8, <2>9
    <2>13. IInv'
      BY <1>1, <2>5, <2>8, <2>9, <2>10, <2>11, <2>12, SetTopStep
    <2> QED BY <2>5, <2>9, <2>10, <2>13
  <1> QED BY <1>2, <1>7, <1>9

(* A collection, which sweeps retired code first when it is a full one. *)
LEMMA GcStep ==
    ASSUME IInv, scavenge \/ full_gc
    PROVE  IInv' /\ KeysStay
  <1>1. TableOK(ct) /\ FramesTyped(frames) /\ CodeKept(ct, frames) /\ WrongLeft(ct, frames)
    BY DEF IInv
  <1>2. PICK t : /\ TableOK(t) /\ CodeKept(t, frames) /\ WrongLeft(t, frames) /\ Collect(t)
                 /\ t.by_key = ct.by_key
    <2>1. CASE scavenge
      BY <1>1, <2>1 DEF scavenge
    <2>2. CASE full_gc
      <3>1. PICK t : t = sweep_not_entrant_zombies(ct, frames)
        OBVIOUS
      <3>2. /\ TableOK(t) /\ CodeKept(t, frames) /\ WrongLeft(t, frames)
            /\ t.by_key = ct.by_key
        BY <1>1, <3>1, SweepOK
      <3>3. Collect(t)
        BY <2>2, <3>1 DEF full_gc, Collect
      <3> QED BY <3>2, <3>3
    <2> QED BY <2>1, <2>2
  <1>3. IInv' /\ Keeps(t, ct')
    BY <1>2, CollectStep
  <1> QED BY <1>2, <1>3 DEF Keeps, KeysStay

-----------------------------------------------------------------------------
(***************************************************************************)
(* The invariant and what it gives                                         *)
(***************************************************************************)

(* Nothing is compiled and nothing runs at first. *)
LEMMA InitIInv == Init => IInv
  <1> SUFFICES ASSUME Init PROVE IInv
    OBVIOUS
  <1>1. LookupTypeOK
    <2>1. PICK P \in Programs :
            dict = [k \in Klasses |-> [s \in Selectors |-> IF <<k, s>> \in P THEN 1 ELSE 0]]
      BY DEF Init, LookupInit
    <2>2. 0 \in 0..MaxVersion /\ 1 \in 0..MaxVersion /\ 0 \in 0..MaxInstalls
      BY LookupAssumption
    <2>3. epoch = 0
      BY DEF Init, LookupInit
    <2> QED BY <2>1, <2>2, <2>3 DEF LookupTypeOK
  <1>2. /\ ct = [nms |-> [i \in Slots |-> NoNm], by_key |-> [key \in Keys |-> 0], pending |-> FALSE]
        /\ frames = <<>> /\ compiles = 0 /\ OutdatedTyped
    BY DEF Init, OutdatedTyped
  <1>3. /\ ct \in Table /\ \A i \in Slots : ct.nms[i] = NoNm
        /\ \A key \in Keys : ct.by_key[key] = 0
    BY <1>2 DEF Table
  <1>4. Alive(ct) = {} /\ NotEntrant(ct) = {}
    BY <1>3 DEF Alive, NotEntrant, NoNm
  <1>5. TableOK(ct)
    BY <1>3, <1>4 DEF TableOK, KeysOK, CodeCurrent, SitesOK, PollOK
  <1>6. Len(frames) = 0 /\ 1..Len(frames) = {} /\ frames \in Seq(FrameRec)
    BY <1>2
  <1>7. FramesTyped(frames) /\ CodeKept(ct, frames) /\ WrongLeft(ct, frames)
    BY <1>6, CodeAssumption DEF FramesTyped, CodeKept, WrongLeft
  <1> QED BY <1>1, <1>2, <1>5, <1>7, CodeAssumption DEF IInv

(* Every step keeps the invariant; a step that is not a redefinition also  *)
(* keeps every key's code.                                                 *)
LEMMA StepKeeps ==
    ASSUME IInv, [Next]_vars
    PROVE  IInv' /\ (KeysStay \/ \E k \in Klasses, s \in Selectors : DefineMethod(k, s))
  <1>1. ASSUME NEW k \in Klasses, NEW s \in Selectors,
               SendMethod(k, s) \/ SendCompiledTarget(k, s) PROVE IInv' /\ KeysStay
    BY <1>1, SendMethodStep, SendCompiledTargetStep
  <1>2. ASSUME NEW k \in Klasses, NEW s \in Selectors, install_method(k, s)
        PROVE  IInv' /\ DefineMethod(k, s)
    BY <1>2, InstallMethodStep DEF install_method
  <1>3. ASSUME NEW k \in Klasses, CallDirect(k) \/ rt_mega_lookup(k) PROVE IInv' /\ KeysStay
    <2>1. ct' = ct
      BY <1>3 DEF CallDirect, rt_mega_lookup
    <2> QED BY <1>3, <2>1, CallDirectStep, MegaStep DEF KeysStay
  <1>4. ASSUME NEW k \in Klasses, rt_resolve_send(k) PROVE IInv' /\ KeysStay
    BY <1>4, ResolveStep DEF Keeps, KeysStay
  <1>5. CASE rt_uncommon_trap \/ rt_poll
    <2>1. ct' = ct
      BY <1>5 DEF rt_uncommon_trap, rt_poll
    <2> QED BY <1>5, <2>1, DeoptStep DEF KeysStay
  <1>6. CASE Return
    BY <1>6, ReturnStep DEF Keeps, KeysStay
  <1>7. CASE rt_osr_request
    BY <1>7, OsrStep DEF Keeps, KeysStay
  <1>8. CASE scavenge \/ full_gc
    BY <1>8, GcStep
  <1>9. CASE UNCHANGED vars
    <2>1. PICK u, fs : u = ct /\ fs = frames
      OBVIOUS
    <2>2. /\ UNCHANGED lookupVars /\ ct' = u /\ frames' = fs /\ ct' = ct /\ compiles' = compiles
      BY <1>9, <2>1 DEF vars
    <2>3. IInv'
      BY <2>1, <2>2, StableStep DEF IInv
    <2> QED BY <2>2, <2>3 DEF KeysStay
  <1> QED BY <1>1, <1>2, <1>3, <1>4, <1>5, <1>6, <1>7, <1>8, <1>9 DEF Next

(***************************************************************************)
(* The inductive invariant holds: the code table, the dictionaries and the *)
(* stack stay in step through compilation, redefinition, replacement,      *)
(* deoptimization and collection.                                          *)
(***************************************************************************)
THEOREM Invariance == Spec => []IInv
  <1>1. IInv /\ [Next]_vars => IInv'
    BY StepKeeps
  <1> QED BY <1>1, InitIInv, PTL DEF Spec

(***************************************************************************)
(* The types of the code table and of the stack: ids name slots, stubs     *)
(* never outgrow PIC_MAX_ENTRIES (rt_resolve_send), for any program.       *)
(***************************************************************************)
THEOREM CodeTypeOK == Spec => []TypeOK
  <1>1. ASSUME IInv PROVE TypeOK
    <2>1. ct \in Table /\ frames \in Seq(FrameRec) /\ FramesTyped(frames)
      BY <1>1 DEF IInv, TableOK, FramesTyped
    <2>2. DOMAIN frames = 1..Len(frames) /\ \A i \in 1..Len(frames) : frames[i] \in FrameRec
      BY <2>1, LenProperties
    <2>3. ASSUME NEW i \in Slots
          PROVE  /\ ct.nms[i].st \in {"free", "alive", "notEntrant"}
                 /\ (i \in Installed(ct) /\ ct.nms[i].site.kind = "pic") =>
                      Len(ct.nms[i].site.ps) \in 2..PicMax
      <3>1. CASE i \in Installed(ct)
        <4>1. ct.nms[i] \in NmRec
          BY <2>1, <3>1, SlotTyped DEF Installed
        <4>2. ct.nms[i].site \in Site
          BY <4>1 DEF NmRec
        <4> QED BY <2>1, <4>2, SiteKinds, SlotTyped
      <3>2. CASE i \notin Installed(ct)
        BY <2>1, <3>2, SlotTyped
      <3> QED BY <3>1, <3>2
    <2>4. ct.by_key \in [Keys -> Slots \cup {0}] /\ ct.pending \in BOOLEAN
      BY <2>1 DEF Table
    <2>5. ASSUME NEW i \in DOMAIN frames
          PROVE  /\ frames[i].tier \in {"interp", "compiled", "deopted"}
                 /\ frames[i].m \in Methods
                 /\ frames[i].nm \in IF frames[i].tier = "compiled" THEN Slots ELSE {0}
      BY <2>1, <2>2 DEF FramesTyped, FrameRec
    <2>6. LookupTypeOK /\ OutdatedTyped /\ compiles \in 0..MaxCompiles /\ Len(frames) <= MaxDepth
      BY <1>1 DEF IInv, FramesTyped
    <2> QED BY <2>3, <2>4, <2>5, <2>6 DEF TypeOK, OutdatedTyped
  <1> QED BY <1>1, Invariance, PTL

(***************************************************************************)
(* The key table names living code of what dispatch gives, after any       *)
(* redefinitions, replacements and moving collections.                     *)
(***************************************************************************)
THEOREM KeysAreCurrent == Spec => []KeysNameCurrentCode
  <1>1. ASSUME IInv PROVE KeysNameCurrentCode
    <2> SUFFICES ASSUME NEW k \in Klasses, NEW s \in Selectors, ct.by_key[<<k, s>>] # 0
                 PROVE  LET id == ct.by_key[<<k, s>>] IN
                        ct.nms[id].st = "alive" /\ ct.nms[id].m = Truth(k, s)
      BY DEF KeysNameCurrentCode
    <2> DEFINE id == ct.by_key[<<k, s>>]
    <2>1. <<k, s>> \in Keys
      BY DEF Keys
    <2>2. id \in Alive(ct) /\ KeyOf(ct.nms[id]) = <<k, s>>
      BY <1>1, <2>1 DEF IInv, TableOK, KeysOK
    <2> HIDE DEF id
    <2>3. ct.nms[id].k = k /\ ct.nms[id].s = s
      BY <2>2 DEF KeyOf
    <2>4. NmCurrent(ct.nms[id]) /\ ct.nms[id].st = "alive"
      BY <1>1, <2>2 DEF IInv, TableOK, CodeCurrent, Alive
    <2> QED BY <2>3, <2>4 DEF NmCurrent, id
  <1> QED BY <1>1, Invariance, PTL

(***************************************************************************)
(* Living code depends on no lookup that a redefinition has changed since  *)
(* it was compiled: affected_by_install finds every living method that     *)
(* inlined for it.  Not that the inlined body was current to begin with: a *)
(* site's inline cache may have given an outdated one.                     *)
(***************************************************************************)
THEOREM InlinedIsCurrent == Spec => []InvalidationComplete
  <1>1. IInv => InvalidationComplete
    BY DEF IInv, TableOK, CodeCurrent, NmCurrent, InvalidationComplete
  <1> QED BY <1>1, Invariance, PTL

(***************************************************************************)
(* The sites of living code lead to installed code of their own klass and  *)
(* selector, though slots are freed and used again.                        *)
(***************************************************************************)
THEOREM SitesAreSafe == Spec => []SitesLeadToTheirCode
  <1>1. ASSUME IInv PROVE SitesLeadToTheirCode
    <2> SUFFICES ASSUME NEW i \in Alive(ct)
                 PROVE  LET site == ct.nms[i].site
                            s == Callee[ct.nms[i].s]
                        IN  /\ site.kind = "mono" => TargetOK(site.t, site.k, s)
                            /\ site.kind = "pic" =>
                                 \A j \in DOMAIN site.ps : TargetOK(site.ps[j].t, site.ps[j].k, s)
      BY DEF SitesLeadToTheirCode
    <2>1. PICK site, s : site = ct.nms[i].site /\ s = Callee[ct.nms[i].s]
      OBVIOUS
    <2>2. SiteOK(ct, site, s)
      BY <1>1, <2>1 DEF IInv, TableOK, SitesOK
    <2>3. site \in Site
      BY <1>1, <2>1, SlotTyped DEF IInv, TableOK, Alive, NmRec
    <2>4. ASSUME NEW tgt \in Target, NEW k, CodeFor(ct, tgt, k, s) PROVE TargetOK(tgt, k, s)
      BY <2>4 DEF Target, CodeFor, TargetOK
    <2>5. site.kind = "mono" => TargetOK(site.t, site.k, s)
      <3>1. site.kind = "mono" => site.t \in Target
        BY <2>3, SiteKinds DEF MonoRec
      <3> QED BY <2>2, <2>4, <3>1 DEF SiteOK
    <2>6. ASSUME site.kind = "pic", NEW j \in DOMAIN site.ps
          PROVE  TargetOK(site.ps[j].t, site.ps[j].k, s)
      <3>1. site.ps \in Seq(Arm)
        BY <2>3, <2>6, SiteKinds DEF PicRec
      <3>2. j \in 1..Len(site.ps) /\ site.ps[j] \in Arm
        BY <3>1, LenProperties
      <3>3. site.ps[j].t \in Target
        BY <3>2 DEF Arm
      <3> QED BY <2>2, <2>4, <2>6, <3>2, <3>3 DEF SiteOK
    <2> QED BY <2>1, <2>5, <2>6
  <1> QED BY <1>1, Invariance, PTL

(***************************************************************************)
(* No activation runs in reclaimed or reused code: the sweep finds every   *)
(* one through its frame, redirected or not.                               *)
(***************************************************************************)
THEOREM ActivationsKeepTheirCode == Spec => []RunningCodeKept
  <1>1. ASSUME IInv PROVE RunningCodeKept
    <2>1. DOMAIN frames = 1..Len(frames)
      BY <1>1, LenProperties DEF IInv, FramesTyped
    <2> QED BY <1>1, <2>1 DEF IInv, CodeKept, FrameOK, RunningCodeKept
  <1> QED BY <1>1, Invariance, PTL

(***************************************************************************)
(* No activation goes on in living code that a redefinition made wrong:    *)
(* each one waits for a callee whose return will deoptimize it.  Code that *)
(* had been retired before may be resumed by its activations, and then     *)
(* runs with the poll armed.                                               *)
(***************************************************************************)
THEOREM WrongCodeIsAbandoned == Spec => []WrongCodeIsLeft
  <1>1. ASSUME IInv PROVE WrongCodeIsLeft
    <2>1. DOMAIN frames = 1..Len(frames)
      BY <1>1, LenProperties DEF IInv, FramesTyped
    <2>2. ASSUME NEW i \in DOMAIN frames, frames[i].tier = "compiled"
          PROVE  ct.nms[frames[i].nm].stale = "missed" =>
                    ct.nms[frames[i].nm].st = "notEntrant" /\ ct.pending
      <3>1. frames[i].nm \in Slots /\ ct.nms[frames[i].nm].st # "free"
        BY <1>1, <2>1, <2>2 DEF IInv, FramesTyped, CodeKept, FrameOK
      <3>2. ct.nms[frames[i].nm].st \in {"alive", "notEntrant"}
        BY <1>1, <3>1, SlotTyped DEF IInv, TableOK
      <3>3. ct.nms[frames[i].nm].st = "alive" => ct.nms[frames[i].nm].stale = "no"
        BY <1>1, <3>1 DEF IInv, TableOK, CodeCurrent, NmCurrent, Alive
      <3>4. ct.nms[frames[i].nm].st = "notEntrant" => ct.pending
        BY <1>1, <3>1 DEF IInv, TableOK, PollOK, NotEntrant
      <3> QED BY <3>2, <3>3, <3>4
    <2> QED BY <1>1, <2>1, <2>2 DEF IInv, WrongLeft, WrongCodeIsLeft
  <1> QED BY <1>1, Invariance, PTL

(***************************************************************************)
(* Only a redefinition takes a key's code away: not recompilation, the     *)
(* sweep or a collection.                                                  *)
(***************************************************************************)
THEOREM KeysSurviveReplacement == Spec => ReplacementKeepsKey
  <1>1. ASSUME IInv, [Next]_vars
        PROVE  [\A k \in Klasses, s \in Selectors :
                  (ct.by_key[<<k, s>>] # 0 /\ ct'.by_key[<<k, s>>] = 0) => dict' # dict]_vars
    <2>1. CASE KeysStay
      BY <2>1 DEF KeysStay, Keys
    <2>2. ASSUME NEW k \in Klasses, NEW s \in Selectors, DefineMethod(k, s) PROVE dict' # dict
      <3>1. dict[k][s] \in Nat /\ dict'[k][s] = dict[k][s] + 1
        BY <1>1, <2>2, LookupAssumption DEF IInv, LookupTypeOK, DefineMethod
      <3> QED BY <3>1
    <2> QED BY <1>1, <2>1, <2>2, StepKeeps
  <1> QED BY <1>1, Invariance, PTL DEF Spec, ReplacementKeepsKey

(* What a send from compiled code lands in is what dispatch gives. *)
LEMMA LandCurrent ==
    ASSUME IInv, NEW k, NEW s, NEW tgt, Land(tgt, k, s),
           tgt # C2i => tgt \in Alive(ct) /\ ct.nms[tgt].k = k /\ ct.nms[tgt].s = s
    PROVE  Last(frames').m = Truth(Last(frames').k, s)
  <1>1. PICK f : f = IF tgt = C2i THEN Interpreted(Truth(k, s), k, TRUE) ELSE Compiled(ct, tgt, k)
    OBVIOUS
  <1>2. frames' = Append(frames, f) /\ frames \in Seq(FrameRec)
    BY <1>1 DEF Land, Push, IInv, FramesTyped
  <1>3. Last(frames') = f
    BY <1>2, AppendProperties DEF Last
  <1>4. CASE tgt = C2i
    BY <1>1, <1>3, <1>4 DEF Interpreted, Frame
  <1>5. CASE tgt # C2i
    <2>1. f.m = ct.nms[tgt].m /\ f.k = k
      BY <1>1, <1>5 DEF Compiled, Frame
    <2>2. ct.nms[tgt].m = Truth(k, s)
      BY <1>5 DEF IInv, TableOK, CodeCurrent, NmCurrent
    <2> QED BY <1>3, <2>1, <2>2
  <1> QED BY <1>4, <1>5

(***************************************************************************)
(* A send from living compiled code starts the method the dictionaries     *)
(* give at that moment, whichever way it goes.                             *)
(***************************************************************************)
THEOREM SendsAreCurrent == Spec => CompiledSendsAreCurrent
  <1>1. ASSUME IInv, [Next]_vars
        PROVE  [(Running({"compiled"}) /\ Nm.st = "alive" /\ Len(frames') > Len(frames)) =>
                  Last(frames').m = Truth(Last(frames').k, Callee[Nm.s])]_vars
    <2> SUFFICES ASSUME Running({"compiled"}), Nm.st = "alive", Len(frames') > Len(frames)
                 PROVE  Last(frames').m = Truth(Last(frames').k, Callee[Nm.s])
      OBVIOUS
    <2>1. /\ frames # <<>> /\ Top.tier = "compiled" /\ Nm.site \in Site
          /\ Callee[Nm.s] \in Selectors \cup {None} /\ SiteOK(ct, Nm.site, Callee[Nm.s])
          /\ Len(frames) \in Nat /\ Len(frames) \in 1..Len(frames) /\ TableOK(ct) /\ LookupTypeOK
          /\ FramesTyped(frames) /\ CodeKept(ct, frames) /\ WrongLeft(ct, frames)
          /\ frames \in Seq(FrameRec) /\ Top \in FrameRec /\ Top.nm \in Slots
      BY <1>1, Caller DEF IInv, FramesTyped
    <2>2. PICK s : s = Callee[Nm.s]
      OBVIOUS
    <2>3. ~Interpreting /\ ~Running({"interp", "deopted"})
      BY <2>1 DEF Interpreting, Running
    <2>4. ~(Len(frames') <= Len(frames))
      BY <2>1
    <2>5. ASSUME NEW f \in FrameRec, SetTop(f) PROVE FALSE
      <3>1. Len(frames') = Len(frames)
        BY <2>1, <2>5, ExceptSeq DEF SetTop
      <3> QED BY <2>1, <2>4, <3>1
    <2>6. ASSUME NEW k \in Klasses, CallDirect(k) PROVE Last(frames').m = Truth(Last(frames').k, s)
      <3>1. PICK tgt \in DirectTargets(Nm.site, k) : Land(tgt, k, s)
        BY <2>2, <2>6 DEF CallDirect
      <3>2. tgt # C2i => tgt \in Alive(ct) /\ ct.nms[tgt].k = k /\ ct.nms[tgt].s = s
        BY <2>1, <2>2, DirectOK
      <3> QED BY <1>1, <3>1, <3>2, LandCurrent
    <2>7. ASSUME NEW k \in Klasses, rt_resolve_send(k) \/ rt_mega_lookup(k)
          PROVE  Last(frames').m = Truth(Last(frames').k, s)
      <3>1. PICK tgt : tgt = resolve_target_entry(ct, k, s)
        OBVIOUS
      <3>2. Land(tgt, k, s) /\ Understands(k, s)
        BY <2>2, <2>7, <3>1 DEF rt_resolve_send, rt_mega_lookup, CallsOut
      <3>3. s \in Selectors
        BY <2>1, <2>2, <3>2, Understood
      <3>4. tgt # C2i => tgt \in Alive(ct) /\ ct.nms[tgt].k = k /\ ct.nms[tgt].s = s
        BY <2>1, <3>1, <3>3, TargetResolved
      <3> QED BY <1>1, <3>2, <3>4, LandCurrent
    <2>8. CASE rt_uncommon_trap \/ rt_poll
      <3>1. PICK f : \/ f = [Top EXCEPT !.tier = "deopted", !.nm = 0, !.trap = Top.nm] /\ SetTop(f)
                     \/ f = [Top EXCEPT !.tier = "deopted", !.nm = 0] /\ SetTop(f)
        BY <2>8 DEF rt_uncommon_trap, rt_poll
      <3>2. f \in FrameRec
        BY <2>1, <3>1 DEF FrameRec
      <3> QED BY <2>5, <3>1, <3>2
    <2>9. CASE Return
      <3> DEFINE below == Front(frames)
                 gs == IF below = <<>> THEN <<>> ELSE [below EXCEPT ![Len(below)] = Resumed(@)]
      <3>1. frames' = gs
        BY <2>9 DEF Return
      <3>2. Len(gs) < Len(frames)
        BY <2>1, ReturnOK
      <3> HIDE DEF gs
      <3> QED BY <2>1, <3>1, <3>2
    <2>10. CASE scavenge \/ full_gc \/ UNCHANGED vars
      <3>1. frames' = frames
        BY <2>10 DEF scavenge, full_gc, Collect, vars
      <3> QED BY <2>1, <2>4, <3>1
    <2>11. CASE rt_osr_request
      BY <2>3, <2>11 DEF rt_osr_request
    <2>12. ASSUME NEW k \in Klasses, NEW r \in Selectors,
                  SendMethod(k, r) \/ SendCompiledTarget(k, r) \/ install_method(k, r) PROVE FALSE
      BY <2>3, <2>12 DEF SendMethod, SendCompiledTarget, install_method
    <2> QED BY <1>1, <2>2, <2>6, <2>7, <2>8, <2>9, <2>10, <2>11, <2>12 DEF Next
  <1> QED BY <1>1, Invariance, PTL DEF Spec, CompiledSendsAreCurrent
=============================================================================
