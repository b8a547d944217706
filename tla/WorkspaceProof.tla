---------------------------- MODULE WorkspaceProof ----------------------------
(***************************************************************************)
(* Proofs about Workspace: what a chart remembers it may still use, a      *)
(* reload reads what is on the screen, a pin holds, and an execution       *)
(* window keeps what it showed when its order window is closed.            *)
(*                                                                         *)
(* The invariant is of a store, not of the state: a store is Good if its   *)
(* parts have their types and identifiers below next, every chart          *)
(* remembers only what is of the view it draws, and its storage holds its  *)
(* own windows or windows that a load turns into them.  Each setter gets a *)
(* lemma: from a good store it makes a good one.  A navigation is setters  *)
(* in a row, so its lemma follows from theirs, and an action of the        *)
(* workspace from the lemma of its operator.                               *)
(*                                                                         *)
(* Two relations say what happens to the pins.  t Extends s if every       *)
(* window of s is in t and every pin of s is a pin of t; it composes.      *)
(* Pins(s, t) says so of the windows that are in both, as a closed window  *)
(* or another layout may take some away.                                   *)
(*                                                                         *)
(* A store is built field by field with the Put lemmas: the provers do not *)
(* follow an update of several fields of a record of eight.                *)
(***************************************************************************)
EXTENDS Workspace, TLAPS

-----------------------------------------------------------------------------
(* The invariant, of a store. *)

Store(win, z, sym, rt, max, pend, next, saved) ==
  [win |-> win, z |-> z, sym |-> sym, rt |-> rt, max |-> max, pend |-> pend,
   next |-> next, saved |-> saved]

IsStore(s) == s = Store(s.win, s.z, s.sym, s.rt, s.max, s.pend, s.next, s.saved)

StoreOK(s) ==
  /\ IsStore(s)
  /\ s.next \in Nat \ {0}
  /\ IsPicture(s, s.next)
  /\ s.rt \in [Open(s) -> Runtime]
  /\ s.saved # None => IsPicture(s.saved, s.next)

FreshAt(s, i) ==
  LET rt == s.rt[i]
      y  == Shown(s, s.win[i])
  IN  /\ rt.from # None => rt.from = View(s, i)
      /\ rt.last # None => rt.last = [symbol |-> y, tf |-> rt.lastTf]
      /\ rt.disk => s.win[i].tf \in Minutes
      /\ rt.range # None => rt.range = y /\ s.win[i].tf \in Seconds
Fresh(s) == \A i \in OpenOf(s, "chart") : FreshAt(s, i)

\* What a load of the picture p reads.
Fitted(p) == [i \in DOMAIN p.win |-> Fit(p.win[i], Shown(p, p.win[i]))]
Stored(s) ==
  s.saved # None =>
    /\ s.saved.z = s.z /\ s.saved.sym = s.sym
    /\ s.saved.win = s.win \/ s.win = Fitted(s.saved)

Good(s) == StoreOK(s) /\ Fresh(s) /\ Stored(s)

PresetOK(p, next) == DOMAIN p.win \subseteq 1..(next - 1) /\ p.win \in [DOMAIN p.win -> Window]

Extends(s, t) ==
  /\ Open(s) \subseteq Open(t) /\ s.next <= t.next
  /\ \A i \in Open(s) : IsPinned(s.win[i]) => t.win[i].pinned = s.win[i].pinned

IInv ==
  /\ Good(ws)
  /\ FirstId <= ws.next
  /\ preset # None => PresetOK(preset, ws.next)
  /\ url \in Symbol \cup {"view", None}

-----------------------------------------------------------------------------
(* Windows. *)

LEMMA ConstantTypes ==
  /\ None \notin Symbol \cup Account /\ 1 \in Groups
  /\ Frames = {"5s", "1m", "240m", "D"}
BY WorkspaceAssumption DEF Frames

LEMMA Written ==
  ASSUME NEW w \in Window
  PROVE  /\ \A x \in Frames \cup {None} :
              /\ [w EXCEPT !.tf = x] \in Window /\ [w EXCEPT !.tf = x].tf = x
              /\ [w EXCEPT !.tf = x].kind = w.kind /\ [w EXCEPT !.tf = x].group = w.group
              /\ [w EXCEPT !.tf = x].pinned = w.pinned
         /\ \A x \in Symbol \cup {None} :
              /\ [w EXCEPT !.pinned = x] \in Window /\ [w EXCEPT !.pinned = x].tf = w.tf
              /\ [w EXCEPT !.pinned = x].kind = w.kind /\ [w EXCEPT !.pinned = x].group = w.group
              /\ [w EXCEPT !.pinned = x].pinned = x
         /\ \A x \in Groups :
              /\ [w EXCEPT !.group = x] \in Window /\ [w EXCEPT !.group = x].tf = w.tf
              /\ [w EXCEPT !.group = x].kind = w.kind /\ [w EXCEPT !.group = x].group = x
              /\ [w EXCEPT !.group = x].pinned = w.pinned
         /\ \A x \in Account \cup {None} :
              /\ [w EXCEPT !.account = x] \in Window /\ [w EXCEPT !.account = x].tf = w.tf
              /\ [w EXCEPT !.account = x].kind = w.kind /\ [w EXCEPT !.account = x].group = w.group
              /\ [w EXCEPT !.account = x].pinned = w.pinned
         /\ \A x \in Shares :
              /\ [w EXCEPT !.kept = x] \in Window /\ [w EXCEPT !.kept = x].tf = w.tf
              /\ [w EXCEPT !.kept = x].kind = w.kind /\ [w EXCEPT !.kept = x].group = w.group
              /\ [w EXCEPT !.kept = x].pinned = w.pinned
         /\ \A x \in Nat \cup {None} :
              /\ [w EXCEPT !.source = x] \in Window /\ [w EXCEPT !.source = x].tf = w.tf
              /\ [w EXCEPT !.source = x].kind = w.kind /\ [w EXCEPT !.source = x].group = w.group
              /\ [w EXCEPT !.source = x].pinned = w.pinned
BY DEF Window

LEMMA FitKeeps ==
  ASSUME NEW w \in Window, NEW y
  PROVE  /\ Fit(w, y) \in Window
         /\ Fit(w, y).kind = w.kind /\ Fit(w, y).group = w.group /\ Fit(w, y).pinned = w.pinned
         /\ Fit(Fit(w, y), y) = Fit(w, y)
<1>1. "D" \in Frames \cup {None} /\ "D" \in UsFrames
  BY DEF Frames, UsFrames
<1> DEFINE v == [w EXCEPT !.tf = "D"]
<1>2. v \in Window /\ v.kind = w.kind /\ v.group = w.group /\ v.pinned = w.pinned /\ v.tf = "D"
  BY <1>1, Written
<1>3. Fit(w, y) = v \/ Fit(w, y) = w
  BY DEF Fit
<1>4. Fit(v, y) = v
  BY <1>1, <1>2 DEF Fit
<1>5. Fit(w, y) = w => Fit(Fit(w, y), y) = Fit(w, y)
  OBVIOUS
<1> HIDE DEF v
<1> QED
  BY <1>2, <1>3, <1>4, <1>5

-----------------------------------------------------------------------------
(* Stores. *)

LEMMA PutWin ==
  ASSUME NEW a, NEW b, NEW c, NEW d, NEW e, NEW f, NEW g, NEW h,
         NEW X, NEW s, s = Store(a, b, c, d, e, f, g, h)
  PROVE  [s EXCEPT !.win = X] = Store(X, b, c, d, e, f, g, h)
BY DEF Store

LEMMA PutZ ==
  ASSUME NEW a, NEW b, NEW c, NEW d, NEW e, NEW f, NEW g, NEW h,
         NEW X, NEW s, s = Store(a, b, c, d, e, f, g, h)
  PROVE  [s EXCEPT !.z = X] = Store(a, X, c, d, e, f, g, h)
BY DEF Store

LEMMA PutSym ==
  ASSUME NEW a, NEW b, NEW c, NEW d, NEW e, NEW f, NEW g, NEW h,
         NEW X, NEW s, s = Store(a, b, c, d, e, f, g, h)
  PROVE  [s EXCEPT !.sym = X] = Store(a, b, X, d, e, f, g, h)
BY DEF Store

LEMMA PutRt ==
  ASSUME NEW a, NEW b, NEW c, NEW d, NEW e, NEW f, NEW g, NEW h,
         NEW X, NEW s, s = Store(a, b, c, d, e, f, g, h)
  PROVE  [s EXCEPT !.rt = X] = Store(a, b, c, X, e, f, g, h)
BY DEF Store

LEMMA PutMax ==
  ASSUME NEW a, NEW b, NEW c, NEW d, NEW e, NEW f, NEW g, NEW h,
         NEW X, NEW s, s = Store(a, b, c, d, e, f, g, h)
  PROVE  [s EXCEPT !.max = X] = Store(a, b, c, d, X, f, g, h)
BY DEF Store

LEMMA PutPend ==
  ASSUME NEW a, NEW b, NEW c, NEW d, NEW e, NEW f, NEW g, NEW h,
         NEW X, NEW s, s = Store(a, b, c, d, e, f, g, h)
  PROVE  [s EXCEPT !.pend = X] = Store(a, b, c, d, e, X, g, h)
BY DEF Store

LEMMA PutNext ==
  ASSUME NEW a, NEW b, NEW c, NEW d, NEW e, NEW f, NEW g, NEW h,
         NEW X, NEW s, s = Store(a, b, c, d, e, f, g, h)
  PROVE  [s EXCEPT !.next = X] = Store(a, b, c, d, e, f, X, h)
BY DEF Store

LEMMA PutSaved ==
  ASSUME NEW a, NEW b, NEW c, NEW d, NEW e, NEW f, NEW g, NEW h,
         NEW X, NEW s, s = Store(a, b, c, d, e, f, g, h)
  PROVE  [s EXCEPT !.saved = X] = Store(a, b, c, d, e, f, g, X)
BY DEF Store

LEMMA Fields ==
  ASSUME NEW a, NEW b, NEW c, NEW d, NEW e, NEW f, NEW g, NEW h,
         NEW s, s = Store(a, b, c, d, e, f, g, h)
  PROVE  /\ s.win = a /\ s.z = b /\ s.sym = c /\ s.rt = d
         /\ s.max = e /\ s.pend = f /\ s.next = g /\ s.saved = h
         /\ Open(s) = DOMAIN a /\ IsStore(s)
BY DEF Store, Open, IsStore

\* What a picture of the store says, and the store once it is saved.
Pic(a, b, c, f) == [win |-> a, z |-> b, sym |-> c, pend |-> f]
LEMMA PicFields ==
  ASSUME NEW a, NEW b, NEW c, NEW f
  PROVE  /\ Pic(a, b, c, f).win = a /\ Pic(a, b, c, f).z = b
         /\ Pic(a, b, c, f).sym = c /\ Pic(a, b, c, f).pend = f
BY DEF Pic

LEMMA Persisted ==
  ASSUME NEW a, NEW b, NEW c, NEW d, NEW e, NEW f, NEW g, NEW h,
         NEW s, s = Store(a, b, c, d, e, f, g, h)
  PROVE  Persist(s) = Store(a, b, c, d, e, f, g, Pic(a, b, c, f))
<1>1. PICK p : p = Picture(s)
  OBVIOUS
<1>2. p = Pic(a, b, c, f)
  BY <1>1, Fields DEF Picture, Pic
<1>3. [s EXCEPT !.saved = p] = Store(a, b, c, d, e, f, g, p)
  BY PutSaved
<1> QED
  BY <1>1, <1>2, <1>3 DEF Persist

Cleared(rt, ids) == [i \in DOMAIN rt |-> IF i \in ids THEN EmptyRuntime ELSE rt[i]]
LEMMA Forgot ==
  ASSUME NEW a, NEW b, NEW c, NEW d, NEW e, NEW f, NEW g, NEW h,
         NEW s, s = Store(a, b, c, d, e, f, g, h), NEW ids
  PROVE  Forget(s, ids) = Store(a, b, c, Cleared(d, ids), e, f, g, h)
<1>1. PICK r : r = Cleared(s.rt, ids)
  OBVIOUS
<1>2. [s EXCEPT !.rt = r] = Store(a, b, c, r, e, f, g, h)
  BY PutRt
<1>3. s.rt = d
  BY Fields
<1> QED
  BY <1>1, <1>2, <1>3 DEF Forget, Cleared

-----------------------------------------------------------------------------
(* What a chart remembers. *)

LEMMA EmptyType == EmptyRuntime \in Runtime /\ NothingKept \in Shares
BY DEF EmptyRuntime, NothingKept, Runtime, Shares

LEMMA ClearedType ==
  ASSUME NEW D, NEW rt \in [D -> Runtime], NEW ids
  PROVE  /\ Cleared(rt, ids) \in [D -> Runtime]
         /\ \A i \in D : IF i \in ids THEN Cleared(rt, ids)[i] = EmptyRuntime
                                      ELSE Cleared(rt, ids)[i] = rt[i]
BY EmptyType DEF Cleared

LEMMA FreshEmpty ==
  ASSUME NEW t, NEW i, t.rt[i] = EmptyRuntime
  PROVE  FreshAt(t, i)
BY DEF FreshAt, EmptyRuntime

LEMMA Seen ==
  ASSUME NEW s, NEW i
  PROVE  View(s, i).symbol = Shown(s, s.win[i]) /\ View(s, i).tf = s.win[i].tf
BY DEF View

LEMMA FreshKept ==
  ASSUME NEW s, NEW t, NEW i, FreshAt(s, i), t.rt[i] = s.rt[i], View(t, i) = View(s, i)
  PROVE  FreshAt(t, i)
<1>1. Shown(t, t.win[i]) = Shown(s, s.win[i]) /\ t.win[i].tf = s.win[i].tf
  BY Seen
<1> QED
  BY <1>1 DEF FreshAt

\* The window i of t remembers nothing, or what it remembered in s, with the
\* same view.
Carried(s, t, i) ==
  \/ t.rt[i] = EmptyRuntime
  \/ /\ i \in OpenOf(s, "chart")
     /\ t.rt[i] = s.rt[i] /\ View(t, i) = View(s, i)

LEMMA CarriedFresh ==
  ASSUME NEW s, NEW t, NEW i, Fresh(s), Carried(s, t, i)
  PROVE  FreshAt(t, i)
<1>1. CASE t.rt[i] = EmptyRuntime
  BY <1>1, FreshEmpty
<1>2. CASE i \in OpenOf(s, "chart") /\ t.rt[i] = s.rt[i] /\ View(t, i) = View(s, i)
  BY <1>2, FreshKept DEF Fresh
<1> QED
  BY <1>1, <1>2 DEF Carried

\* The symbol shown depends on the kind, the pin and the symbol of the group.
LEMMA SameShown ==
  ASSUME NEW s, NEW t, NEW v, NEW w, w.kind = v.kind, w.pinned = v.pinned, w.group = v.group,
         IsPinned(v) \/ t.sym[v.group] = s.sym[v.group]
  PROVE  Shown(t, w) = Shown(s, v)
BY DEF Shown, IsPinned

LEMMA ShownType ==
  ASSUME NEW s, s.sym \in [Groups -> Symbol \cup {None}], NEW w \in Window
  PROVE  Shown(s, w) \in Symbol \cup {None}
<1>1. w.group \in Groups /\ w.pinned \in Symbol \cup {None}
  BY DEF Window
<1> QED
  BY <1>1 DEF Shown

-----------------------------------------------------------------------------
(* What it takes to keep the invariant. *)

\* The windows, the order and the symbols are written to the storage, or are what
\* they were.
Saves(s, t) ==
  \/ t.saved = s.saved /\ t.win = s.win /\ t.z = s.z /\ t.sym = s.sym
  \/ t.saved = Pic(t.win, t.z, t.sym, t.pend)

LEMMA Update ==
  ASSUME NEW s, NEW t, Good(s), IsStore(t), Saves(s, t),
         t.win \in [Open(t) -> Window], Open(t) \subseteq 1..(t.next - 1),
         t.next \in Nat \ {0}, s.next <= t.next,
         t.sym \in [Groups -> Symbol \cup {None}], t.rt \in [Open(t) -> Runtime],
         \A i \in OpenOf(t, "chart") : FreshAt(t, i)
  PROVE  Good(t)
<1>1. Open(t) = DOMAIN t.win
  BY DEF Open
<1>2. IsPicture(t, t.next)
  BY <1>1 DEF IsPicture
<1>3. t.saved # None => IsPicture(t.saved, t.next)
  <2>1. CASE t.saved = s.saved
    <3>1. s.next \in Nat /\ (s.saved # None => IsPicture(s.saved, s.next))
      BY DEF Good, StoreOK
    <3>2. 1..(s.next - 1) \subseteq 1..(t.next - 1)
      BY <3>1
    <3> QED BY <2>1, <3>1, <3>2, <1>1 DEF IsPicture
  <2>2. CASE t.saved = Pic(t.win, t.z, t.sym, t.pend)
    BY <2>2, <1>1, PicFields DEF IsPicture
  <2> QED BY <2>1, <2>2 DEF Saves
<1>4. StoreOK(t)
  BY <1>2, <1>3 DEF StoreOK
<1>5. Stored(t)
  <2>1. CASE t.saved = s.saved /\ t.win = s.win /\ t.z = s.z /\ t.sym = s.sym
    BY <2>1 DEF Good, Stored
  <2>2. CASE t.saved = Pic(t.win, t.z, t.sym, t.pend)
    BY <2>2, PicFields DEF Stored
  <2> QED BY <2>1, <2>2 DEF Saves
<1> QED
  BY <1>4, <1>5 DEF Good, Fresh

LEMMA GoodParts ==
  ASSUME NEW s, Good(s)
  PROVE  /\ s = Store(s.win, s.z, s.sym, s.rt, s.max, s.pend, s.next, s.saved)
         /\ s.next \in Nat \ {0} /\ s.next <= s.next
         /\ Open(s) = DOMAIN s.win /\ Open(s) \subseteq 1..(s.next - 1)
         /\ s.win \in [Open(s) -> Window]
         /\ s.sym \in [Groups -> Symbol \cup {None}]
         /\ s.rt \in [Open(s) -> Runtime]
         /\ \A i \in Open(s) : s.win[i] \in Window /\ s.rt[i] \in Runtime
<1>1. StoreOK(s)
  BY DEF Good
<1>2. s.next <= s.next
  BY <1>1 DEF StoreOK
<1> QED
  BY <1>1, <1>2 DEF StoreOK, IsStore, IsPicture, Open

\* The windows and what they show are the same.
Same(s, t) == t.win = s.win /\ t.sym = s.sym /\ t.next = s.next

LEMMA SameExtends ==
  ASSUME NEW s, NEW t, Good(s), Same(s, t)
  PROVE  Extends(s, t) /\ Open(t) = Open(s) /\ \A i : View(t, i) = View(s, i)
BY GoodParts DEF Same, Extends, Open, View, Shown

LEMMA ExtendsTwice ==
  ASSUME NEW s, NEW t, NEW u, Good(s), Good(t), Good(u), Extends(s, t), Extends(t, u)
  PROVE  Extends(s, u)
<1>1. s.next <= u.next
  BY GoodParts DEF Extends
<1>2. \A i \in Open(s) : IsPinned(s.win[i]) => u.win[i].pinned = s.win[i].pinned
  BY DEF Extends, IsPinned
<1> QED
  BY <1>1, <1>2 DEF Extends

\* A step that changes neither the windows, nor the symbols, nor what is remembered.
LEMMA SameGood ==
  ASSUME NEW s, Good(s), NEW b, NEW e, NEW f, NEW h,
         NEW t, t = Store(s.win, b, s.sym, s.rt, e, f, s.next, h),
         (h = s.saved /\ b = s.z) \/ h = Pic(s.win, b, s.sym, f)
  PROVE  Good(t) /\ Same(s, t)
<1>1. t.win = s.win /\ t.sym = s.sym /\ t.rt = s.rt /\ t.next = s.next
  BY Fields
<1>2. Same(s, t)
  BY <1>1 DEF Same
<1>3. \A i \in OpenOf(t, "chart") : FreshAt(t, i)
  <2> TAKE i \in OpenOf(t, "chart")
  <2>1. i \in OpenOf(s, "chart")
    BY <1>1 DEF OpenOf, Open
  <2>2. FreshAt(s, i)
    BY <2>1 DEF Good, Fresh
  <2> QED BY <2>2, <1>1, <1>2, SameExtends, FreshKept
<1>4. /\ t.win \in [Open(t) -> Window] /\ Open(t) \subseteq 1..(t.next - 1)
      /\ t.next \in Nat \ {0} /\ s.next <= t.next
      /\ t.sym \in [Groups -> Symbol \cup {None}] /\ t.rt \in [Open(t) -> Runtime]
  BY <1>1, GoodParts DEF Open
<1>5. IsStore(t) /\ Saves(s, t)
  BY Fields DEF Saves
<1>6. Good(t)
  BY <1>3, <1>4, <1>5, Update
<1> QED
  BY <1>2, <1>6

LEMMA FocusGood ==
  ASSUME NEW s, Good(s), NEW i
  PROVE  Good(FocusWindow(s, i)) /\ Same(s, FocusWindow(s, i))
<1>1. CASE i \notin Open(s) \/ Last(s.z) = i
  BY <1>1 DEF FocusWindow, Same
<1>2. CASE ~(i \notin Open(s) \/ Last(s.z) = i)
  <2>0. PICK Z : Z = Append(Remove(s.z, i), i)
    OBVIOUS
  <2>1. PICK u : u = [s EXCEPT !.z = Z]
    OBVIOUS
  <2>2. PICK v : v = [u EXCEPT !.max = None]
    OBVIOUS
  <2>3. v = [s EXCEPT !.z = Append(Remove(@, i), i), !.max = None]
    BY <2>0, <2>1, <2>2
  <2>4. u = Store(s.win, Z, s.sym, s.rt, s.max, s.pend, s.next, s.saved)
    BY <2>1, GoodParts, PutZ
  <2>5. v = Store(s.win, Z, s.sym, s.rt, None, s.pend, s.next, s.saved)
    BY <2>2, <2>4, PutMax
  <2>6. Persist(v) = Store(s.win, Z, s.sym, s.rt, None, s.pend, s.next, Pic(s.win, Z, s.sym, s.pend))
    BY <2>5, Persisted
  <2>7. FocusWindow(s, i) = Persist(v)
    BY <1>2, <2>3 DEF FocusWindow
  <2> QED BY <2>6, <2>7, SameGood
<1> QED
  BY <1>1, <1>2

LEMMA MaximizeGood ==
  ASSUME NEW s, Good(s), NEW i
  PROVE  Good(ToggleMaximize(s, i)) /\ Same(s, ToggleMaximize(s, i))
<1>1. PICK u : u = FocusWindow(s, i)
  OBVIOUS
<1>2. Good(u) /\ Same(s, u)
  BY <1>1, FocusGood
<1>3. PICK m : m = IF u.max = i THEN None ELSE i
  OBVIOUS
<1>4. [u EXCEPT !.max = m] = Store(u.win, u.z, u.sym, u.rt, m, u.pend, u.next, u.saved)
  BY <1>2, GoodParts, PutMax
<1>5. ToggleMaximize(s, i) = [u EXCEPT !.max = m]
  BY <1>1, <1>3 DEF ToggleMaximize
<1>6. Good(ToggleMaximize(s, i)) /\ Same(u, ToggleMaximize(s, i))
  BY <1>2, <1>4, <1>5, SameGood
<1> QED
  BY <1>2, <1>6 DEF Same

LEMMA Above ==
  ASSUME NEW s, NEW ids
  PROVE  Topmost(s, ids) \in ids \cup {None}
<1> DEFINE Over(i) == {n \in DOMAIN s.z : s.z[n] = i /\ \A m \in DOMAIN s.z : s.z[m] \in ids => m <= n}
           tops == {i \in ids : Over(i) # {}}
<1>1. tops \subseteq ids
  OBVIOUS
<1>2. Topmost(s, ids) = IF tops = {} THEN None ELSE CHOOSE i \in tops : TRUE
  BY DEF Topmost
<1> HIDE DEF tops
<1> QED
  BY <1>1, <1>2

LEMMA GroupType ==
  ASSUME NEW s, Good(s)
  PROVE  ActiveGroup(s) \in Groups
<1>1. PICK top : top = Topmost(s, Open(s) \ OpenOf(s, "account-fills"))
  OBVIOUS
<1>2. top = None \/ top \in Open(s)
  BY <1>1, Above
<1>3. top \in Open(s) => s.win[top].group \in Groups
  BY GoodParts DEF Window
<1> QED
  BY <1>1, <1>2, <1>3, ConstantTypes DEF ActiveGroup

LEMMA AddGood ==
  ASSUME NEW s, Good(s), NEW kind \in Kinds, NEW pref \in Frames \cup {None}
  PROVE  /\ Good(AddWindow(s, kind, pref)) /\ Extends(s, AddWindow(s, kind, pref))
         /\ AddWindow(s, kind, pref).next = s.next + 1
         /\ s.next \in Open(AddWindow(s, kind, pref)) /\ s.next \notin Open(s)
         /\ ~IsPinned(AddWindow(s, kind, pref).win[s.next])
         /\ AddWindow(s, kind, pref).win[s.next].kind = kind
         /\ AddWindow(s, kind, pref).sym = s.sym
<1>1. PICK id, t, group, top, tf :
        /\ id = s.next /\ t = AddWindow(s, kind, pref)
        /\ group = ActiveGroup(s) /\ top = Topmost(s, OpenOf(s, "chart"))
        /\ tf = IF kind # "chart" THEN None ELSE IF top = None THEN pref ELSE s.win[top].tf
  OBVIOUS
<1>2. group \in Groups
  BY <1>1, GroupType
<1>3. tf \in Frames \cup {None}
  <2>1. top = None \/ top \in Open(s)
    BY <1>1, Above DEF OpenOf
  <2>2. top \in Open(s) => s.win[top].tf \in Frames \cup {None}
    BY GoodParts DEF Window
  <2> QED BY <1>1, <2>1, <2>2
<1>4. PICK w : w = [kind |-> kind, group |-> group, pinned |-> None, tf |-> tf,
                    account |-> None, source |-> None, kept |-> NothingKept]
  OBVIOUS
<1>5. w \in Window /\ w.kind = kind /\ w.pinned = None
  BY <1>2, <1>3, <1>4, EmptyType DEF Window
<1>6. PICK v : v = Fit(w, s.sym[group])
  OBVIOUS
<1>7. v \in Window /\ v.kind = kind /\ ~IsPinned(v)
  BY <1>5, <1>6, FitKeeps DEF IsPinned
<1>8. PICK W, R, Z, n : W = With(s.win, id, v) /\ R = With(s.rt, id, EmptyRuntime)
                        /\ Z = Append(s.z, id) /\ n = id + 1
  OBVIOUS
<1>9a. PICK u1 : u1 = [s EXCEPT !.next = n]
  OBVIOUS
<1>9b. PICK u2 : u2 = [u1 EXCEPT !.max = None]
  OBVIOUS
<1>9c. PICK u3 : u3 = [u2 EXCEPT !.z = Z]
  OBVIOUS
<1>9d. PICK u4 : u4 = [u3 EXCEPT !.win = W]
  OBVIOUS
<1>9e. PICK u5 : u5 = [u4 EXCEPT !.rt = R]
  OBVIOUS
<1>10. u5 = [s EXCEPT !.next = id + 1, !.max = None, !.z = Append(@, id),
                      !.win = With(@, id, v), !.rt = With(@, id, EmptyRuntime)]
  BY <1>8, <1>9a, <1>9b, <1>9c, <1>9d, <1>9e
<1>11. u5 = Store(W, Z, s.sym, R, None, s.pend, n, s.saved)
  <2>1. u1 = Store(s.win, s.z, s.sym, s.rt, s.max, s.pend, n, s.saved)
    BY <1>9a, GoodParts, PutNext
  <2>2. u2 = Store(s.win, s.z, s.sym, s.rt, None, s.pend, n, s.saved)
    BY <1>9b, <2>1, PutMax
  <2>3. u3 = Store(s.win, Z, s.sym, s.rt, None, s.pend, n, s.saved)
    BY <1>9c, <2>2, PutZ
  <2>4. u4 = Store(W, Z, s.sym, s.rt, None, s.pend, n, s.saved)
    BY <1>9d, <2>3, PutWin
  <2> QED BY <1>9e, <2>4, PutRt
<1>12. t = Persist(u5)
  BY <1>1, <1>4, <1>6, <1>10 DEF AddWindow
<1>13. t = Store(W, Z, s.sym, R, None, s.pend, n, Pic(W, Z, s.sym, s.pend))
  BY <1>11, <1>12, Persisted
<1>14. /\ t.win = W /\ t.z = Z /\ t.sym = s.sym /\ t.rt = R /\ t.pend = s.pend /\ t.next = n
       /\ t.saved = Pic(t.win, t.z, t.sym, t.pend) /\ IsStore(t)
  BY <1>13, Fields
<1>15. id \notin Open(s) /\ id \in Nat \ {0}
  <2>1. s.next \in Nat \ {0} /\ Open(s) \subseteq 1..(s.next - 1)
    BY GoodParts
  <2> QED BY <2>1, <1>1
<1>16. /\ W \in [Open(s) \cup {id} -> Window] /\ W[id] = v
       /\ \A i \in Open(s) : W[i] = s.win[i]
  <2>1. s.win \in [Open(s) -> Window]
    BY GoodParts
  <2>2. PICK D, f : D = Open(s) /\ f = s.win
    OBVIOUS
  <2>3. /\ With(f, id, v) \in [D \cup {id} -> Window] /\ With(f, id, v)[id] = v
        /\ \A i \in D : i # id => With(f, id, v)[i] = f[i]
    <3>1. f \in [D -> Window] /\ v \in Window
      BY <2>1, <2>2, <1>7
    <3> QED BY <3>1 DEF With
  <2> QED BY <2>2, <2>3, <1>8, <1>15
<1>17. /\ R \in [Open(s) \cup {id} -> Runtime] /\ R[id] = EmptyRuntime
       /\ \A i \in Open(s) : R[i] = s.rt[i]
  <2>1. s.rt \in [Open(s) -> Runtime]
    BY GoodParts
  <2>2. PICK D, f : D = Open(s) /\ f = s.rt
    OBVIOUS
  <2>3. /\ With(f, id, EmptyRuntime) \in [D \cup {id} -> Runtime]
        /\ With(f, id, EmptyRuntime)[id] = EmptyRuntime
        /\ \A i \in D : i # id => With(f, id, EmptyRuntime)[i] = f[i]
    <3>1. f \in [D -> Runtime] /\ EmptyRuntime \in Runtime
      BY <2>1, <2>2, EmptyType
    <3> QED BY <3>1 DEF With
  <2> QED BY <2>2, <2>3, <1>8, <1>15
<1>18. Open(t) = Open(s) \cup {id} /\ n \in Nat \ {0} /\ s.next <= n /\ Open(t) \subseteq 1..(n - 1)
  <2>1. Open(t) = Open(s) \cup {id}
    BY <1>14, <1>16 DEF Open
  <2>2. s.next \in Nat \ {0} /\ Open(s) \subseteq 1..(s.next - 1) /\ n = s.next + 1
    BY GoodParts, <1>1, <1>8
  <2> QED BY <2>1, <2>2, <1>1
<1>19. \A i \in OpenOf(t, "chart") : FreshAt(t, i)
  <2> TAKE i \in OpenOf(t, "chart")
  <2>1. CASE i = id
    BY <2>1, <1>14, <1>17, FreshEmpty
  <2>2. CASE i # id
    <3>1. i \in Open(s) /\ t.win[i] = s.win[i] /\ t.rt[i] = s.rt[i] /\ t.win[i].kind = "chart"
      BY <2>2, <1>14, <1>16, <1>17, <1>18 DEF OpenOf
    <3>2. i \in OpenOf(s, "chart")
      BY <3>1 DEF OpenOf
    <3>3. View(t, i) = View(s, i)
      BY <3>1, <1>14 DEF View, Shown
    <3> QED BY <3>1, <3>2, <3>3, CarriedFresh DEF Carried, Good
  <2> QED BY <2>1, <2>2
<1>20. Good(t)
  <2>1. s.sym \in [Groups -> Symbol \cup {None}]
    BY GoodParts
  <2>2. Saves(s, t)
    BY <1>14 DEF Saves
  <2> QED BY <2>1, <2>2, <1>14, <1>16, <1>17, <1>18, <1>19, Update
<1>21. Extends(s, t)
  BY <1>14, <1>16, <1>18 DEF Extends
<1> QED
  BY <1>1, <1>7, <1>8, <1>14, <1>15, <1>16, <1>18, <1>20, <1>21

\* The windows are replaced one for one, those of ids forget what they remember.
LEMMA Replaced ==
  ASSUME NEW s, NEW t, NEW ids, Good(s), IsStore(t),
         t.next = s.next, t.rt = Cleared(s.rt, ids), t.saved = Pic(t.win, t.z, t.sym, t.pend),
         t.win \in [Open(s) -> Window], t.sym \in [Groups -> Symbol \cup {None}],
         \A i \in Open(s) \ ids : t.win[i].kind = s.win[i].kind /\ View(t, i) = View(s, i)
  PROVE  Good(t) /\ Open(t) = Open(s)
<1>2. Open(t) = Open(s)
  BY DEF Open
<1>3. /\ t.rt \in [Open(s) -> Runtime]
      /\ \A i \in Open(s) : IF i \in ids THEN t.rt[i] = EmptyRuntime ELSE t.rt[i] = s.rt[i]
  <2>1. s.rt \in [Open(s) -> Runtime]
    BY GoodParts
  <2> QED BY <2>1, ClearedType
<1>4. \A i \in OpenOf(t, "chart") : FreshAt(t, i)
  <2> TAKE i \in OpenOf(t, "chart")
  <2>1. i \in Open(s) /\ t.win[i].kind = "chart"
    BY <1>2 DEF OpenOf
  <2>2. CASE i \in ids
    BY <2>1, <2>2, <1>3, FreshEmpty
  <2>3. CASE i \notin ids
    <3>1. i \in OpenOf(s, "chart")
      BY <2>1, <2>3 DEF OpenOf
    <3>2. FreshAt(s, i)
      BY <3>1 DEF Good, Fresh
    <3> QED BY <2>1, <2>3, <3>2, <1>3, FreshKept
  <2> QED BY <2>2, <2>3
<1>5. Saves(s, t)
  BY DEF Saves
<1>6. /\ Open(s) \subseteq 1..(s.next - 1) /\ s.next \in Nat \ {0} /\ s.next <= s.next
  BY GoodParts
<1>7. Good(t)
  BY <1>2, <1>3, <1>4, <1>5, <1>6, Update
<1> QED
  BY <1>2, <1>7

\* The same when nothing is forgotten.
LEMMA Rewritten ==
  ASSUME NEW s, NEW t, Good(s), IsStore(t),
         t.next = s.next, t.rt = s.rt, t.saved = Pic(t.win, t.z, t.sym, t.pend), t.sym = s.sym,
         t.win \in [Open(s) -> Window],
         \A i \in Open(s) : t.win[i].kind = s.win[i].kind /\ View(t, i) = View(s, i)
  PROVE  Good(t) /\ Open(t) = Open(s)
<1>1. t.rt = Cleared(s.rt, {})
  <2>1. s.rt \in [Open(s) -> Runtime]
    BY GoodParts
  <2> QED BY <2>1 DEF Cleared
<1>2. t.sym \in [Groups -> Symbol \cup {None}]
  BY GoodParts
<1>3. \A i \in Open(s) \ {} : t.win[i].kind = s.win[i].kind /\ View(t, i) = View(s, i)
  OBVIOUS
<1> QED
  BY <1>1, <1>2, <1>3, Replaced

LEMMA WriteWindows ==
  ASSUME NEW s, Good(s), NEW W
  PROVE  Persist([s EXCEPT !.win = W])
           = Store(W, s.z, s.sym, s.rt, s.max, s.pend, s.next, Pic(W, s.z, s.sym, s.pend))
<1>1. PICK u : u = [s EXCEPT !.win = W]
  OBVIOUS
<1>2. u = Store(W, s.z, s.sym, s.rt, s.max, s.pend, s.next, s.saved)
  BY <1>1, GoodParts, PutWin
<1> QED
  BY <1>1, <1>2, Persisted

\* One window is written.
LEMMA WriteOne ==
  ASSUME NEW s, Good(s), NEW i, NEW v \in Window
  PROVE  /\ [s.win EXCEPT ![i] = v] \in [Open(s) -> Window]
         /\ i \in Open(s) => [s.win EXCEPT ![i] = v][i] = v
         /\ \A j \in Open(s) : j # i => [s.win EXCEPT ![i] = v][j] = s.win[j]
<1>1. s.win \in [Open(s) -> Window]
  BY GoodParts
<1> QED
  BY <1>1

LEMMA SetGroupGood ==
  ASSUME NEW s, Good(s), NEW i \in Open(s), NEW g \in Groups,
         IsPinned(s.win[i]) => Fit(s.win[i], Shown(s, s.win[i])) = s.win[i]
  PROVE  /\ Good(SetWindowGroup(s, i, g)) /\ Open(SetWindowGroup(s, i, g)) = Open(s)
         /\ Extends(s, SetWindowGroup(s, i, g))
         /\ \A j \in Open(s) : /\ SetWindowGroup(s, i, g).win[j].pinned = s.win[j].pinned
                               /\ SetWindowGroup(s, i, g).win[j].kind = s.win[j].kind
         /\ SetWindowGroup(s, i, g).next = s.next
<1>1. CASE s.win[i].group = g
  <2>1. SetWindowGroup(s, i, g) = s
    BY <1>1 DEF SetWindowGroup
  <2>2. Same(s, s)
    BY DEF Same
  <2> QED BY <2>1, <2>2, SameExtends
<1>2. CASE s.win[i].group # g
  <2>1. PICK w : w = [s.win[i] EXCEPT !.group = g]
    OBVIOUS
  <2>2. PICK v : v = Fit(w, Shown(s, w))
    OBVIOUS
  <2>3. PICK W : W = [s.win EXCEPT ![i] = v]
    OBVIOUS
  <2>4. PICK t : t = Persist([s EXCEPT !.win = W])
    OBVIOUS
  <2>5. t = Store(W, s.z, s.sym, s.rt, s.max, s.pend, s.next, Pic(W, s.z, s.sym, s.pend))
    BY <2>4, WriteWindows
  <2>6. /\ w \in Window /\ w.kind = s.win[i].kind /\ w.pinned = s.win[i].pinned
        /\ w.tf = s.win[i].tf /\ w.group = g
    <3>1. s.win[i] \in Window
      BY GoodParts
    <3> QED BY <2>1, <3>1, Written
  <2>7. /\ v \in Window /\ v.kind = s.win[i].kind /\ v.pinned = s.win[i].pinned
    BY <2>2, <2>6, FitKeeps
  <2>8. /\ W \in [Open(s) -> Window] /\ W[i] = v
        /\ \A j \in Open(s) : j # i => W[j] = s.win[j]
    BY <2>3, <2>7, WriteOne
  <2>9. SetWindowGroup(s, i, g) = IF IsPinned(w) THEN t ELSE Forget(t, {i})
    <3>1. [s EXCEPT !.win[i] = v] = [s EXCEPT !.win = W]
      BY <2>3
    <3> QED BY <1>2, <2>1, <2>2, <2>4, <3>1 DEF SetWindowGroup
  <2>10. \A j \in Open(s) : W[j].pinned = s.win[j].pinned /\ W[j].kind = s.win[j].kind
    BY <2>7, <2>8
  <2>11. \A u : u.win = W /\ u.sym = s.sym =>
           \A j \in Open(s) \ {i} : W[j].kind = s.win[j].kind /\ View(u, j) = View(s, j)
    BY <2>8 DEF View, Shown
  <2>12. CASE IsPinned(w)
    <3>1. /\ t.win = W /\ t.sym = s.sym /\ t.rt = s.rt /\ t.next = s.next
          /\ t.saved = Pic(t.win, t.z, t.sym, t.pend) /\ IsStore(t)
      BY <2>5, Fields
    <3>2. IsPinned(s.win[i]) /\ IsPinned(v)
      BY <2>6, <2>7, <2>12 DEF IsPinned
    <3>3. Shown(s, w) = Shown(s, s.win[i]) /\ Shown(t, v) = Shown(s, s.win[i])
      BY <3>2, <2>6, <2>7 DEF Shown, IsPinned
    <3>4. v.tf = s.win[i].tf
      <4>1. w.kind = s.win[i].kind /\ w.tf = s.win[i].tf
        BY <2>6
      <4>2. CASE v = w
        BY <4>1, <4>2
      <4>3. CASE v # w
        <5>1. /\ w.kind = "chart" /\ Shown(s, w) \in Us /\ w.tf \notin UsFrames
              /\ v = [w EXCEPT !.tf = "D"]
          BY <2>2, <4>3 DEF Fit
        <5>2. Fit(s.win[i], Shown(s, s.win[i])) = [s.win[i] EXCEPT !.tf = "D"]
          BY <5>1, <4>1, <3>3 DEF Fit
        <5>3. s.win[i].tf = "D"
          <6>1. s.win[i] \in Window /\ "D" \in Frames \cup {None}
            BY GoodParts DEF Frames
          <6>2. [s.win[i] EXCEPT !.tf = "D"].tf = "D"
            BY <6>1, Written
          <6> QED BY <5>2, <6>2, <3>2
        <5> QED BY <5>1, <5>3, <4>1 DEF UsFrames
      <4> QED BY <4>2, <4>3
    <3>5. View(t, i) = View(s, i)
      BY <3>1, <3>3, <3>4, <2>8 DEF View
    <3>6. \A j \in Open(s) : W[j].kind = s.win[j].kind /\ View(t, j) = View(s, j)
      BY <3>1, <3>5, <2>10, <2>11
    <3>7. Good(t) /\ Open(t) = Open(s)
      BY <3>1, <2>8, <3>6, Rewritten
    <3> QED BY <2>9, <2>12, <3>1, <3>7, <2>10, GoodParts DEF Extends
  <2>13. CASE ~IsPinned(w)
    <3>1. PICK u : u = Forget(t, {i})
      OBVIOUS
    <3>2. u = Store(W, s.z, s.sym, Cleared(s.rt, {i}), s.max, s.pend, s.next, Pic(W, s.z, s.sym, s.pend))
      BY <3>1, <2>5, Forgot
    <3>3. /\ u.win = W /\ u.sym = s.sym /\ u.rt = Cleared(s.rt, {i}) /\ u.next = s.next
          /\ u.saved = Pic(u.win, u.z, u.sym, u.pend) /\ IsStore(u)
      BY <3>2, Fields
    <3>4. \A j \in Open(s) \ {i} : W[j].kind = s.win[j].kind /\ View(u, j) = View(s, j)
      BY <3>3, <2>11
    <3>5. s.sym \in [Groups -> Symbol \cup {None}]
      BY GoodParts
    <3>6. Good(u) /\ Open(u) = Open(s)
      BY <3>3, <3>4, <3>5, <2>8, Replaced
    <3> QED BY <2>9, <2>13, <3>1, <3>3, <3>6, <2>10, GoodParts DEF Extends
  <2> QED BY <2>12, <2>13
<1> QED
  BY <1>1, <1>2

LEMMA PinsExtend ==
  ASSUME NEW s, NEW t, Good(s), Open(t) = Open(s), t.next = s.next,
         \A j \in Open(s) : IsPinned(s.win[j]) => t.win[j].pinned = s.win[j].pinned
  PROVE  Extends(s, t)
BY GoodParts DEF Extends

LEMMA SetSymbolGood ==
  ASSUME NEW s, Good(s), NEW g \in Groups, NEW y \in Symbol
  PROVE  /\ Good(SetGroupSymbol(s, g, y)) /\ Extends(s, SetGroupSymbol(s, g, y))
         /\ Open(SetGroupSymbol(s, g, y)) = Open(s) /\ SetGroupSymbol(s, g, y).next = s.next
<1>1. PICK to : to = Followers(s, g)
  OBVIOUS
<1>2. PICK W : W = [i \in DOMAIN s.win |-> IF i \in to THEN Fit(s.win[i], y) ELSE s.win[i]]
  OBVIOUS
<1>3. PICK Y : Y = [s.sym EXCEPT ![g] = y]
  OBVIOUS
<1>4. PICK u : u = [s EXCEPT !.sym = Y]
  OBVIOUS
<1>5. PICK v : v = [u EXCEPT !.win = W]
  OBVIOUS
<1>6. PICK t : t = Forget(Persist(v), to)
  OBVIOUS
<1>7. t = SetGroupSymbol(s, g, y)
  <2>1. v = [s EXCEPT !.sym[g] = y,
                      !.win = [i \in DOMAIN @ |-> IF i \in to THEN Fit(@[i], y) ELSE @[i]]]
    BY <1>2, <1>3, <1>4, <1>5
  <2> QED BY <2>1, <1>1, <1>6 DEF SetGroupSymbol
<1>8. /\ t.win = W /\ t.sym = Y /\ t.rt = Cleared(s.rt, to) /\ t.next = s.next
      /\ t.saved = Pic(t.win, t.z, t.sym, t.pend) /\ IsStore(t)
  <2>1. u = Store(s.win, s.z, Y, s.rt, s.max, s.pend, s.next, s.saved)
    BY <1>4, GoodParts, PutSym
  <2>2. v = Store(W, s.z, Y, s.rt, s.max, s.pend, s.next, s.saved)
    BY <1>5, <2>1, PutWin
  <2>3. PICK x : x = Persist(v)
    OBVIOUS
  <2>4. x = Store(W, s.z, Y, s.rt, s.max, s.pend, s.next, Pic(W, s.z, Y, s.pend))
    BY <2>2, <2>3, Persisted
  <2>5. t = Store(W, s.z, Y, Cleared(s.rt, to), s.max, s.pend, s.next, Pic(W, s.z, Y, s.pend))
    BY <1>6, <2>3, <2>4, Forgot
  <2> QED BY <2>5, Fields
<1>9. /\ W \in [Open(s) -> Window]
      /\ \A i \in Open(s) : W[i].pinned = s.win[i].pinned /\ W[i].kind = s.win[i].kind
      /\ \A i \in Open(s) \ to : W[i] = s.win[i]
  <2>1. \A i \in Open(s) : s.win[i] \in Window
    BY GoodParts
  <2>2. \A i \in Open(s) : /\ Fit(s.win[i], y) \in Window
                           /\ Fit(s.win[i], y).pinned = s.win[i].pinned
                           /\ Fit(s.win[i], y).kind = s.win[i].kind
    BY <2>1, FitKeeps
  <2> QED BY <1>2, <2>1, <2>2 DEF Open
<1>10. Y \in [Groups -> Symbol \cup {None}]
  <2>1. s.sym \in [Groups -> Symbol \cup {None}]
    BY GoodParts
  <2> QED BY <2>1, <1>3
<1>11. \A i \in Open(s) \ to : t.win[i].kind = s.win[i].kind /\ View(t, i) = View(s, i)
  <2> TAKE i \in Open(s) \ to
  <2>1. t.win[i] = s.win[i]
    BY <1>8, <1>9
  <2>2. s.win[i].group # g \/ IsPinned(s.win[i])
    BY <1>1 DEF Followers
  <2>3. s.win[i].group \in Groups
    BY GoodParts DEF Window
  <2>4. s.win[i].group # g => Y[s.win[i].group] = s.sym[s.win[i].group]
    BY <2>3, <1>3, GoodParts
  <2>5. Shown(t, t.win[i]) = Shown(s, s.win[i])
    BY <2>1, <2>2, <2>4, <1>8, SameShown
  <2> QED BY <2>1, <2>5 DEF View
<1>12. Good(t) /\ Open(t) = Open(s)
  BY <1>8, <1>9, <1>10, <1>11, Replaced
<1>13. Extends(s, t)
  BY <1>8, <1>9, <1>12, PinsExtend
<1> QED
  BY <1>7, <1>8, <1>12, <1>13

LEMMA PinToGood ==
  ASSUME NEW s, Good(s), NEW i \in Open(s), NEW y \in Symbol \cup {None}
  PROVE  /\ Good(PinTo(s, i, y)) /\ Open(PinTo(s, i, y)) = Open(s) /\ PinTo(s, i, y).next = s.next
         /\ \A j \in Open(s) : j # i => PinTo(s, i, y).win[j].pinned = s.win[j].pinned
<1>1. CASE s.win[i].kind \in Unpinnable
  BY <1>1 DEF PinTo
<1>2. CASE s.win[i].kind \notin Unpinnable
  <2>1. PICK v : v = Fit([s.win[i] EXCEPT !.pinned = y], y)
    OBVIOUS
  <2>2. PICK W : W = [s.win EXCEPT ![i] = v]
    OBVIOUS
  <2>3. PICK u : u = Persist([s EXCEPT !.win = W])
    OBVIOUS
  <2>4. PICK t : t = Forget(u, {i})
    OBVIOUS
  <2>5. t = PinTo(s, i, y)
    <3>1. [s EXCEPT !.win[i] = Fit([@ EXCEPT !.pinned = y], y)] = [s EXCEPT !.win = W]
      BY <2>1, <2>2
    <3> QED BY <1>2, <2>3, <2>4, <3>1 DEF PinTo
  <2>6. u = Store(W, s.z, s.sym, s.rt, s.max, s.pend, s.next, Pic(W, s.z, s.sym, s.pend))
    BY <2>3, WriteWindows
  <2>7. t = Store(W, s.z, s.sym, Cleared(s.rt, {i}), s.max, s.pend, s.next, Pic(W, s.z, s.sym, s.pend))
    BY <2>4, <2>6, Forgot
  <2>8. /\ t.win = W /\ t.sym = s.sym /\ t.rt = Cleared(s.rt, {i}) /\ t.next = s.next
        /\ t.saved = Pic(t.win, t.z, t.sym, t.pend) /\ IsStore(t)
    BY <2>7, Fields
  <2>9. v \in Window
    <3>1. s.win[i] \in Window
      BY GoodParts
    <3>2. [s.win[i] EXCEPT !.pinned = y] \in Window
      BY <3>1, Written
    <3> QED BY <2>1, <3>2, FitKeeps
  <2>10. W \in [Open(s) -> Window] /\ \A j \in Open(s) : j # i => W[j] = s.win[j]
    BY <2>2, <2>9, WriteOne
  <2>11. \A j \in Open(s) \ {i} : t.win[j].kind = s.win[j].kind /\ View(t, j) = View(s, j)
    BY <2>8, <2>10 DEF View, Shown
  <2>12. t.sym \in [Groups -> Symbol \cup {None}]
    BY <2>8, GoodParts
  <2>13. Good(t) /\ Open(t) = Open(s)
    BY <2>8, <2>10, <2>11, <2>12, Replaced
  <2> QED BY <2>5, <2>8, <2>10, <2>13
<1> QED
  BY <1>1, <1>2

LEMMA SetWindowSymbolGood ==
  ASSUME NEW s, Good(s), NEW i \in Open(s), NEW y \in Symbol
  PROVE  /\ Good(SetWindowSymbol(s, i, y)) /\ Open(SetWindowSymbol(s, i, y)) = Open(s)
         /\ SetWindowSymbol(s, i, y).next = s.next
         /\ \A j \in Open(s) \ {i} :
              IsPinned(s.win[j]) => SetWindowSymbol(s, i, y).win[j].pinned = s.win[j].pinned
<1>1. PICK g : g = s.win[i].group
  OBVIOUS
<1>2. g \in Groups
  BY <1>1, GoodParts DEF Window
<1>3. CASE s.win[i].kind = "account-fills"
  BY <1>3 DEF SetWindowSymbol
<1>4. CASE s.win[i].kind # "account-fills" /\ IsPinned(s.win[i])
  <2>1. SetWindowSymbol(s, i, y) = PinTo(s, i, y)
    BY <1>4 DEF SetWindowSymbol
  <2> QED BY <2>1, PinToGood
<1>5. CASE s.win[i].kind # "account-fills" /\ ~IsPinned(s.win[i])
  <2>1. SetWindowSymbol(s, i, y) = SetGroupSymbol(s, g, y)
    BY <1>1, <1>5 DEF SetWindowSymbol
  <2> QED BY <2>1, <1>2, SetSymbolGood DEF Extends
<1> QED
  BY <1>3, <1>4, <1>5

LEMMA TogglePinGood ==
  ASSUME NEW s, Good(s), NEW i \in Open(s)
  PROVE  /\ Good(TogglePin(s, i)) /\ Open(TogglePin(s, i)) = Open(s) /\ TogglePin(s, i).next = s.next
         /\ \A j \in Open(s) : j # i => TogglePin(s, i).win[j].pinned = s.win[j].pinned
<1>1. PICK w : w = s.win[i]
  OBVIOUS
<1>2. PICK x : x = IF IsPinned(w) THEN None ELSE Shown(s, w)
  OBVIOUS
<1>3. PICK v : v = [w EXCEPT !.pinned = x]
  OBVIOUS
<1>4. PICK W : W = [s.win EXCEPT ![i] = v]
  OBVIOUS
<1>5. PICK t : t = Persist([s EXCEPT !.win = W])
  OBVIOUS
<1>6. TogglePin(s, i) =
        IF w.kind \in Unpinnable \/ Shown(s, w) = None THEN s
        ELSE IF IsPinned(w) /\ s.sym[w.group] # w.pinned THEN Forget(t, {i}) ELSE t
  <2>1. [s EXCEPT !.win[i].pinned = IF IsPinned(w) THEN None ELSE Shown(s, w)] = [s EXCEPT !.win = W]
    <3>1. [s EXCEPT !.win[i].pinned = x] = [s EXCEPT !.win = W]
      BY <1>1, <1>3, <1>4
    <3> QED BY <1>2, <3>1
  <2> QED BY <1>1, <1>5, <2>1 DEF TogglePin
<1>7. t = Store(W, s.z, s.sym, s.rt, s.max, s.pend, s.next, Pic(W, s.z, s.sym, s.pend))
  BY <1>5, WriteWindows
<1>8. /\ t.win = W /\ t.sym = s.sym /\ t.rt = s.rt /\ t.next = s.next
      /\ t.saved = Pic(t.win, t.z, t.sym, t.pend) /\ IsStore(t)
  BY <1>7, Fields
<1>9. x \in Symbol \cup {None}
  <2>1. s.sym \in [Groups -> Symbol \cup {None}] /\ w \in Window
    BY <1>1, GoodParts
  <2> QED BY <1>2, <2>1, ShownType
<1>10. /\ v \in Window /\ v.pinned = x /\ v.kind = w.kind /\ v.tf = w.tf /\ v.group = w.group
  <2>1. w \in Window
    BY <1>1, GoodParts
  <2> QED BY <2>1, <1>3, <1>9, Written
<1>11. W \in [Open(s) -> Window] /\ W[i] = v /\ \A j \in Open(s) : j # i => W[j] = s.win[j]
  BY <1>4, <1>10, WriteOne
<1>12. \A u : u.win = W /\ u.sym = s.sym =>
         \A j \in Open(s) \ {i} : u.win[j].kind = s.win[j].kind /\ View(u, j) = View(s, j)
  BY <1>11 DEF View, Shown
<1>13. s.sym \in [Groups -> Symbol \cup {None}]
  BY GoodParts
<1>14. CASE w.kind \in Unpinnable \/ Shown(s, w) = None
  BY <1>6, <1>14
<1>15. CASE /\ ~(w.kind \in Unpinnable \/ Shown(s, w) = None)
            /\ IsPinned(w) /\ s.sym[w.group] # w.pinned
  <2>1. PICK u : u = Forget(t, {i})
    OBVIOUS
  <2>2. u = Store(W, s.z, s.sym, Cleared(s.rt, {i}), s.max, s.pend, s.next, Pic(W, s.z, s.sym, s.pend))
    BY <2>1, <1>7, Forgot
  <2>3. /\ u.win = W /\ u.sym = s.sym /\ u.rt = Cleared(s.rt, {i}) /\ u.next = s.next
        /\ u.saved = Pic(u.win, u.z, u.sym, u.pend) /\ IsStore(u)
    BY <2>2, Fields
  <2>4. \A j \in Open(s) \ {i} : u.win[j].kind = s.win[j].kind /\ View(u, j) = View(s, j)
    BY <2>3, <1>12
  <2>5. Good(u) /\ Open(u) = Open(s)
    BY <2>3, <2>4, <1>11, <1>13, Replaced
  <2> QED BY <1>6, <1>15, <1>11, <2>1, <2>3, <2>5
<1>16. CASE /\ ~(w.kind \in Unpinnable \/ Shown(s, w) = None)
            /\ ~(IsPinned(w) /\ s.sym[w.group] # w.pinned)
  <2>1. Shown(t, v) = Shown(s, w)
    <3>1. w.kind # "account-fills"
      BY <1>16 DEF Unpinnable
    <3>2. CASE IsPinned(w)
      <4>1. Shown(s, w) = w.pinned /\ s.sym[w.group] = w.pinned /\ v.pinned = None
        BY <1>2, <1>10, <1>16, <3>1, <3>2 DEF Shown
      <4> QED BY <4>1, <3>1, <1>8, <1>10 DEF Shown, IsPinned
    <3>3. CASE ~IsPinned(w)
      <4>1. v.pinned = Shown(s, w) /\ v.pinned # None
        BY <1>2, <1>10, <1>16, <3>3
      <4> QED BY <4>1, <3>1, <1>10 DEF Shown, IsPinned
    <3> QED BY <3>2, <3>3
  <2>2. View(t, i) = View(s, i) /\ t.win[i].kind = s.win[i].kind
    BY <2>1, <1>1, <1>8, <1>10, <1>11 DEF View
  <2>3. \A j \in Open(s) : t.win[j].kind = s.win[j].kind /\ View(t, j) = View(s, j)
    BY <2>2, <1>8, <1>12
  <2>4. Good(t) /\ Open(t) = Open(s)
    BY <2>3, <1>8, <1>11, Rewritten
  <2> QED BY <1>6, <1>16, <1>8, <1>11, <2>4
<1> QED
  BY <1>14, <1>15, <1>16

LEMMA UnpinGood ==
  ASSUME NEW s, Good(s)
  PROVE  Good(UnpinAll(s)) /\ Open(UnpinAll(s)) = Open(s) /\ UnpinAll(s).next = s.next
<1>1. PICK W : W = Unpinned(s.win)
  OBVIOUS
<1>2. PICK ids : ids = {i \in Open(s) : IsPinned(s.win[i])}
  OBVIOUS
<1>3. PICK u : u = Persist([s EXCEPT !.win = W])
  OBVIOUS
<1>4. PICK t : t = Forget(u, ids)
  OBVIOUS
<1>5. t = UnpinAll(s)
  <2>1. [s EXCEPT !.win = Unpinned(@)] = [s EXCEPT !.win = W]
    BY <1>1
  <2> QED BY <1>2, <1>3, <1>4, <2>1 DEF UnpinAll
<1>6. u = Store(W, s.z, s.sym, s.rt, s.max, s.pend, s.next, Pic(W, s.z, s.sym, s.pend))
  BY <1>3, WriteWindows
<1>7. t = Store(W, s.z, s.sym, Cleared(s.rt, ids), s.max, s.pend, s.next, Pic(W, s.z, s.sym, s.pend))
  BY <1>4, <1>6, Forgot
<1>8. /\ t.win = W /\ t.sym = s.sym /\ t.rt = Cleared(s.rt, ids) /\ t.next = s.next
      /\ t.saved = Pic(t.win, t.z, t.sym, t.pend) /\ IsStore(t)
  BY <1>7, Fields
<1>9. /\ W \in [Open(s) -> Window]
      /\ \A i \in Open(s) : /\ W[i].kind = s.win[i].kind /\ W[i].tf = s.win[i].tf
                            /\ W[i].pinned = None /\ W[i].group = s.win[i].group
  <2>1. \A i \in Open(s) : s.win[i] \in Window
    BY GoodParts
  <2>2. \A i \in Open(s) : LET v == [s.win[i] EXCEPT !.pinned = None]
                           IN  /\ v \in Window /\ v.kind = s.win[i].kind /\ v.tf = s.win[i].tf
                               /\ v.pinned = None /\ v.group = s.win[i].group
    BY <2>1, Written
  <2> QED BY <1>1, <2>2 DEF Unpinned, Open
<1>10. \A i \in Open(s) \ ids : t.win[i].kind = s.win[i].kind /\ View(t, i) = View(s, i)
  BY <1>2, <1>8, <1>9 DEF View, Shown, IsPinned
<1>11. t.sym \in [Groups -> Symbol \cup {None}]
  BY <1>8, GoodParts
<1>12. Good(t) /\ Open(t) = Open(s)
  BY <1>8, <1>9, <1>10, <1>11, Replaced
<1> QED
  BY <1>5, <1>8, <1>12

\* A window is pinned to what it draws: nothing on the screen changes.
LEMMA PinningKeeps ==
  ASSUME NEW s, Good(s), NEW ids
  PROVE  /\ Pinning(s, ids) \in [Open(s) -> Window]
         /\ \A i \in Open(s) : /\ Pinning(s, ids)[i].kind = s.win[i].kind
                               /\ IsPinned(s.win[i]) => Pinning(s, ids)[i].pinned = s.win[i].pinned
         /\ \A t : t.win = Pinning(s, ids) /\ t.sym = s.sym =>
              \A i \in Open(s) : View(t, i) = View(s, i)
<1>1. PICK W : W = Pinning(s, ids)
  OBVIOUS
<1>2. ASSUME NEW i \in Open(s)
      PROVE  /\ W[i] \in Window /\ W[i].kind = s.win[i].kind /\ W[i].tf = s.win[i].tf
             /\ W[i].group = s.win[i].group
             /\ W[i].pinned = s.win[i].pinned \/ (/\ W[i].pinned = Shown(s, s.win[i])
                                                  /\ s.win[i].kind \notin Unpinnable)
  <2>1. PICK w, x : w = s.win[i] /\ x = Shown(s, s.win[i])
    OBVIOUS
  <2>2. w \in Window /\ x \in Symbol \cup {None}
    <3>1. s.sym \in [Groups -> Symbol \cup {None}] /\ w \in Window
      BY <2>1, GoodParts
    <3> QED BY <3>1, <2>1, ShownType
  <2>3. PICK v : v = [w EXCEPT !.pinned = x]
    OBVIOUS
  <2>4. v \in Window /\ v.kind = w.kind /\ v.tf = w.tf /\ v.group = w.group /\ v.pinned = x
    BY <2>2, <2>3, Written
  <2>5. W[i] = IF i \in ids /\ w.kind \notin Unpinnable THEN v ELSE w
    BY <1>1, <2>1, <2>3 DEF Pinning
  <2> QED BY <2>1, <2>2, <2>4, <2>5
<1>3. W \in [Open(s) -> Window]
  <2>1. W = [i \in Open(s) |-> W[i]]
    BY <1>1 DEF Pinning
  <2> QED BY <2>1, <1>2
<1>4. ASSUME NEW i \in Open(s), IsPinned(s.win[i])
      PROVE  W[i].pinned = s.win[i].pinned
  <2>1. s.win[i].kind \notin Unpinnable => Shown(s, s.win[i]) = s.win[i].pinned
    BY <1>4 DEF Shown, Unpinnable
  <2> QED BY <2>1, <1>2
<1>5. ASSUME NEW t, t.win = W, t.sym = s.sym, NEW i \in Open(s)
      PROVE  View(t, i) = View(s, i)
  <2>1. CASE W[i].pinned = s.win[i].pinned
    BY <2>1, <1>2, <1>5 DEF View, Shown, IsPinned
  <2>2. CASE W[i].pinned = Shown(s, s.win[i]) /\ s.win[i].kind \notin Unpinnable
    <3>1. s.win[i].kind # "account-fills"
      BY <2>2 DEF Unpinnable
    <3>2. Shown(t, W[i]) = Shown(s, s.win[i])
      <4>1. CASE IsPinned(W[i])
        BY <4>1, <3>1, <2>2, <1>2 DEF Shown
      <4>2. CASE ~IsPinned(W[i])
        <5>1. ~IsPinned(s.win[i])
          BY <4>2, <2>2, <3>1 DEF Shown, IsPinned
        <5> QED BY <5>1, <4>2, <1>2, <1>5 DEF Shown
      <4> QED BY <4>1, <4>2
    <3> QED BY <3>2, <1>2, <1>5 DEF View
  <2> QED BY <2>1, <2>2, <1>2
<1> QED
  BY <1>1, <1>2, <1>3, <1>4, <1>5

LEMMA PinWindowsGood ==
  ASSUME NEW s, Good(s), NEW ids
  PROVE  /\ Good(PinWindows(s, ids)) /\ Extends(s, PinWindows(s, ids))
         /\ Open(PinWindows(s, ids)) = Open(s) /\ PinWindows(s, ids).next = s.next
<1>1. CASE Pinning(s, ids) = s.win
  <2>1. Same(s, s)
    BY DEF Same
  <2> QED BY <1>1, <2>1, SameExtends DEF PinWindows
<1>2. CASE Pinning(s, ids) # s.win
  <2>1. PICK W : W = Pinning(s, ids)
    OBVIOUS
  <2>2. PICK t : t = Persist([s EXCEPT !.win = W])
    OBVIOUS
  <2>3. t = PinWindows(s, ids)
    BY <1>2, <2>1, <2>2 DEF PinWindows
  <2>4. t = Store(W, s.z, s.sym, s.rt, s.max, s.pend, s.next, Pic(W, s.z, s.sym, s.pend))
    BY <2>2, WriteWindows
  <2>5. /\ t.win = W /\ t.sym = s.sym /\ t.rt = s.rt /\ t.next = s.next
        /\ t.saved = Pic(t.win, t.z, t.sym, t.pend) /\ IsStore(t)
    BY <2>4, Fields
  <2>6. \A i \in Open(s) : t.win[i].kind = s.win[i].kind /\ View(t, i) = View(s, i)
    BY <2>1, <2>5, PinningKeeps
  <2>7. W \in [Open(s) -> Window]
    BY <2>1, PinningKeeps
  <2>8. Good(t) /\ Open(t) = Open(s)
    BY <2>5, <2>6, <2>7, Rewritten
  <2>9. \A i \in Open(s) : IsPinned(s.win[i]) => t.win[i].pinned = s.win[i].pinned
    BY <2>1, <2>5, PinningKeeps
  <2> QED BY <2>3, <2>5, <2>8, <2>9, PinsExtend
<1> QED
  BY <1>1, <1>2

LEMMA RestoreGood ==
  ASSUME NEW s, Good(s)
  PROVE  /\ Good(RestorePins(s)) /\ Extends(s, RestorePins(s))
         /\ Open(RestorePins(s)) = Open(s) /\ RestorePins(s).next = s.next
<1>1. CASE s.pend = {}
  <2>1. Same(s, s)
    BY DEF Same
  <2> QED BY <1>1, <2>1, SameExtends DEF RestorePins
<1>2. CASE s.pend # {}
  <2>1. PICK W : W = Pinning(s, s.pend)
    OBVIOUS
  <2>2. PICK u : u = [s EXCEPT !.win = W]
    OBVIOUS
  <2>3. PICK v : v = [u EXCEPT !.pend = {}]
    OBVIOUS
  <2>4. PICK t : t = Persist(v)
    OBVIOUS
  <2>5. t = RestorePins(s)
    <3>1. v = [s EXCEPT !.win = Pinning(s, s.pend), !.pend = {}]
      BY <2>1, <2>2, <2>3
    <3> QED BY <1>2, <2>4, <3>1 DEF RestorePins
  <2>6. u = Store(W, s.z, s.sym, s.rt, s.max, s.pend, s.next, s.saved)
    BY <2>2, GoodParts, PutWin
  <2>7. PICK e : e = {}
    OBVIOUS
  <2>8. v = Store(W, s.z, s.sym, s.rt, s.max, e, s.next, s.saved)
    BY <2>3, <2>6, <2>7, PutPend
  <2>9. t = Store(W, s.z, s.sym, s.rt, s.max, e, s.next, Pic(W, s.z, s.sym, e))
    BY <2>4, <2>8, Persisted
  <2>10. /\ t.win = W /\ t.sym = s.sym /\ t.rt = s.rt /\ t.next = s.next
         /\ t.saved = Pic(t.win, t.z, t.sym, t.pend) /\ IsStore(t)
    BY <2>9, Fields
  <2>11. \A i \in Open(s) : t.win[i].kind = s.win[i].kind /\ View(t, i) = View(s, i)
    BY <2>1, <2>10, PinningKeeps
  <2>12. W \in [Open(s) -> Window]
    BY <2>1, PinningKeeps
  <2>13. Good(t) /\ Open(t) = Open(s)
    BY <2>10, <2>11, <2>12, Rewritten
  <2>14. \A i \in Open(s) : IsPinned(s.win[i]) => t.win[i].pinned = s.win[i].pinned
    BY <2>1, <2>10, PinningKeeps
  <2> QED BY <2>5, <2>10, <2>13, <2>14, PinsExtend
<1> QED
  BY <1>1, <1>2

-----------------------------------------------------------------------------
(* What the chart setters remember. *)

\* The window i of s may remember r.
MayRemember(s, i, r) ==
  /\ r.from # None => r.from = View(s, i)
  /\ r.last # None => r.last = [symbol |-> Shown(s, s.win[i]), tf |-> r.lastTf]
  /\ r.disk => s.win[i].tf \in Minutes
  /\ r.range # None => r.range = Shown(s, s.win[i]) /\ s.win[i].tf \in Seconds

LEMMA FreshRemembers ==
  ASSUME NEW s, NEW i
  PROVE  FreshAt(s, i) <=> MayRemember(s, i, s.rt[i])
BY DEF FreshAt, MayRemember

LEMMA SameRemember ==
  ASSUME NEW s, NEW t, NEW i, NEW r, View(t, i) = View(s, i), MayRemember(s, i, r)
  PROVE  MayRemember(t, i, r)
<1>1. Shown(t, t.win[i]) = Shown(s, s.win[i]) /\ t.win[i].tf = s.win[i].tf
  BY Seen
<1> QED
  BY <1>1 DEF MayRemember

LEMMA RuntimeSet ==
  ASSUME NEW s, Good(s), NEW i \in Open(s), NEW r \in Runtime,
         s.win[i].kind = "chart" => MayRemember(s, i, r)
  PROVE  /\ Good([s EXCEPT !.rt = [s.rt EXCEPT ![i] = r]])
         /\ Same(s, [s EXCEPT !.rt = [s.rt EXCEPT ![i] = r]])
<1>1. PICK R : R = [s.rt EXCEPT ![i] = r]
  OBVIOUS
<1>2. PICK t : t = [s EXCEPT !.rt = R]
  OBVIOUS
<1>3. t = Store(s.win, s.z, s.sym, R, s.max, s.pend, s.next, s.saved)
  BY <1>2, GoodParts, PutRt
<1>4. /\ t.win = s.win /\ t.sym = s.sym /\ t.rt = R /\ t.z = s.z /\ t.next = s.next
      /\ t.saved = s.saved /\ IsStore(t) /\ Open(t) = Open(s)
  BY <1>3, Fields DEF Open
<1>5. R \in [Open(s) -> Runtime] /\ R[i] = r /\ \A j \in Open(s) : j # i => R[j] = s.rt[j]
  <2>1. s.rt \in [Open(s) -> Runtime]
    BY GoodParts
  <2> QED BY <2>1, <1>1
<1>6. \A j \in OpenOf(t, "chart") : FreshAt(t, j)
  <2> TAKE j \in OpenOf(t, "chart")
  <2>1. j \in OpenOf(s, "chart") /\ j \in Open(s) /\ s.win[j].kind = "chart"
    BY <1>4 DEF OpenOf
  <2>2. View(t, j) = View(s, j)
    BY <1>4 DEF View, Shown
  <2>3. CASE j = i
    BY <2>1, <2>2, <2>3, <1>4, <1>5, SameRemember, FreshRemembers
  <2>4. CASE j # i
    <3>1. FreshAt(s, j)
      BY <2>1 DEF Good, Fresh
    <3> QED BY <2>1, <2>2, <2>4, <3>1, <1>4, <1>5, FreshKept
  <2> QED BY <2>3, <2>4
<1>7. Saves(s, t) /\ Same(s, t)
  BY <1>4 DEF Saves, Same
<1>8. /\ t.win \in [Open(t) -> Window] /\ Open(t) \subseteq 1..(t.next - 1)
      /\ t.next \in Nat \ {0} /\ s.next <= t.next
      /\ t.sym \in [Groups -> Symbol \cup {None}] /\ t.rt \in [Open(t) -> Runtime]
  BY <1>4, <1>5, GoodParts
<1>9. Good(t)
  BY <1>4, <1>6, <1>7, <1>8, Update
<1> QED
  BY <1>1, <1>2, <1>7, <1>9

LEMMA Noted ==
  ASSUME NEW r \in Runtime
  PROVE  /\ \A x \in Symbol \cup {None} :
              LET q == [r EXCEPT !.range = x]
              IN  /\ q \in Runtime /\ q.range = x /\ q.from = r.from /\ q.last = r.last
                  /\ q.lastTf = r.lastTf /\ q.disk = r.disk
         /\ \A x \in Views \cup {None} :
              LET q == [r EXCEPT !.from = x]
              IN  /\ q \in Runtime /\ q.range = r.range /\ q.from = x /\ q.last = r.last
                  /\ q.lastTf = r.lastTf /\ q.disk = r.disk
         /\ \A x \in Views \cup {None} :
              LET q == [r EXCEPT !.last = x]
              IN  /\ q \in Runtime /\ q.range = r.range /\ q.from = r.from /\ q.last = x
                  /\ q.lastTf = r.lastTf /\ q.disk = r.disk
         /\ \A x \in Frames \cup {None} :
              LET q == [r EXCEPT !.lastTf = x]
              IN  /\ q \in Runtime /\ q.range = r.range /\ q.from = r.from /\ q.last = r.last
                  /\ q.lastTf = x /\ q.disk = r.disk
         /\ \A x \in BOOLEAN :
              LET q == [r EXCEPT !.disk = x]
              IN  /\ q \in Runtime /\ q.range = r.range /\ q.from = r.from /\ q.last = r.last
                  /\ q.lastTf = r.lastTf /\ q.disk = x
BY DEF Runtime

LEMMA ViewType ==
  ASSUME NEW s, Good(s), NEW i \in Open(s)
  PROVE  View(s, i) \in Views /\ Shown(s, s.win[i]) \in Symbol \cup {None}
<1>1. s.win[i] \in Window /\ s.sym \in [Groups -> Symbol \cup {None}]
  BY GoodParts
<1>2. s.win[i].tf \in Frames \cup {None}
  BY <1>1 DEF Window
<1>3. Shown(s, s.win[i]) \in Symbol \cup {None}
  BY <1>1, ShownType
<1> QED
  BY <1>2, <1>3 DEF View, Views

LEMMA Remembered ==
  ASSUME NEW s, Good(s), NEW i \in Open(s)
  PROVE  s.rt[i] \in Runtime /\ (s.win[i].kind = "chart" => MayRemember(s, i, s.rt[i]))
<1>1. s.win[i].kind = "chart" => FreshAt(s, i)
  BY DEF Good, Fresh, OpenOf
<1> QED
  BY <1>1, FreshRemembers, GoodParts

LEMMA SecondRangeGood ==
  ASSUME NEW s, Good(s), NEW i \in Open(s), NEW on \in BOOLEAN
  PROVE  Good(SetSecondRange(s, i, on)) /\ Same(s, SetSecondRange(s, i, on))
<1>1. CASE s.win[i].tf \notin Seconds
  BY <1>1 DEF SetSecondRange, Same
<1>2. CASE s.win[i].tf \in Seconds
  <2>1. PICK x : x = IF on THEN Shown(s, s.win[i]) ELSE None
    OBVIOUS
  <2>2. PICK r : r = [s.rt[i] EXCEPT !.range = x]
    OBVIOUS
  <2>3. x \in Symbol \cup {None} /\ (x # None => x = Shown(s, s.win[i]))
    BY <2>1, ViewType
  <2>4. /\ r \in Runtime /\ r.range = x /\ r.from = s.rt[i].from /\ r.last = s.rt[i].last
        /\ r.lastTf = s.rt[i].lastTf /\ r.disk = s.rt[i].disk
    BY <2>2, <2>3, Remembered, Noted
  <2>5. s.win[i].kind = "chart" => MayRemember(s, i, r)
    BY <1>2, <2>3, <2>4, Remembered DEF MayRemember
  <2>6. SetSecondRange(s, i, on) = [s EXCEPT !.rt = [s.rt EXCEPT ![i] = r]]
    <3>1. [s EXCEPT !.rt[i].range = x] = [s EXCEPT !.rt = [s.rt EXCEPT ![i] = r]]
      BY <2>2
    <3> QED BY <1>2, <2>1, <3>1 DEF SetSecondRange
  <2> QED BY <2>4, <2>5, <2>6, RuntimeSet
<1> QED
  BY <1>1, <1>2

LEMMA ExtendGood ==
  ASSUME NEW s, Good(s), NEW i \in Open(s)
  PROVE  Good(ExtendRange(s, i)) /\ Same(s, ExtendRange(s, i))
<1>1. CASE s.rt[i].from # None
  BY <1>1 DEF ExtendRange, Same
<1>2. CASE s.rt[i].from = None
  <2>1. PICK x : x = View(s, i)
    OBVIOUS
  <2>2. PICK r : r = [s.rt[i] EXCEPT !.from = x]
    OBVIOUS
  <2>3. x \in Views \cup {None}
    BY <2>1, ViewType
  <2>4. /\ r \in Runtime /\ r.range = s.rt[i].range /\ r.from = x /\ r.last = s.rt[i].last
        /\ r.lastTf = s.rt[i].lastTf /\ r.disk = s.rt[i].disk
    BY <2>2, <2>3, Remembered, Noted
  <2>5. s.win[i].kind = "chart" => MayRemember(s, i, r)
    BY <2>1, <2>4, Remembered DEF MayRemember
  <2>6. ExtendRange(s, i) = [s EXCEPT !.rt = [s.rt EXCEPT ![i] = r]]
    <3>1. [s EXCEPT !.rt[i].from = x] = [s EXCEPT !.rt = [s.rt EXCEPT ![i] = r]]
      BY <2>2
    <3> QED BY <1>2, <2>1, <3>1 DEF ExtendRange
  <2> QED BY <2>4, <2>5, <2>6, RuntimeSet
<1> QED
  BY <1>1, <1>2

LEMMA DiskGood ==
  ASSUME NEW s, Good(s), NEW i \in Open(s), NEW on \in BOOLEAN
  PROVE  Good(SetDisk(s, i, on)) /\ Same(s, SetDisk(s, i, on))
<1>1. CASE on /\ s.win[i].tf \notin Minutes
  BY <1>1 DEF SetDisk, Same
<1>2. CASE ~(on /\ s.win[i].tf \notin Minutes)
  <2>1. PICK r : r = [s.rt[i] EXCEPT !.disk = on]
    OBVIOUS
  <2>2. /\ r \in Runtime /\ r.range = s.rt[i].range /\ r.from = s.rt[i].from
        /\ r.last = s.rt[i].last /\ r.lastTf = s.rt[i].lastTf /\ r.disk = on
    BY <2>1, Remembered, Noted
  <2>3. s.win[i].kind = "chart" => MayRemember(s, i, r)
    BY <1>2, <2>2, Remembered DEF MayRemember
  <2>4. SetDisk(s, i, on) = [s EXCEPT !.rt = [s.rt EXCEPT ![i] = r]]
    <3>1. [s EXCEPT !.rt[i].disk = on] = [s EXCEPT !.rt = [s.rt EXCEPT ![i] = r]]
      BY <2>1
    <3> QED BY <1>2, <3>1 DEF SetDisk
  <2> QED BY <2>2, <2>3, <2>4, RuntimeSet
<1> QED
  BY <1>1, <1>2

LEMMA ResetGood ==
  ASSUME NEW s, Good(s), NEW i \in Open(s)
  PROVE  Good(ResetRange(s, i)) /\ Same(s, ResetRange(s, i))
<1>1. PICK a : a = [s.rt[i] EXCEPT !.from = None]
  OBVIOUS
<1>2. PICK b : b = [a EXCEPT !.last = None]
  OBVIOUS
<1>3. PICK r : r = [b EXCEPT !.lastTf = None]
  OBVIOUS
<1>4. /\ a \in Runtime /\ a.range = s.rt[i].range /\ a.from = None /\ a.disk = s.rt[i].disk
  BY <1>1, Remembered, Noted
<1>5. /\ b \in Runtime /\ b.range = s.rt[i].range /\ b.from = None /\ b.last = None
      /\ b.disk = s.rt[i].disk
  BY <1>2, <1>4, Noted
<1>6. /\ r \in Runtime /\ r.range = s.rt[i].range /\ r.from = None /\ r.last = None
      /\ r.disk = s.rt[i].disk
  BY <1>3, <1>5, Noted
<1>7. s.win[i].kind = "chart" => MayRemember(s, i, r)
  BY <1>6, Remembered DEF MayRemember
<1>8. ResetRange(s, i) = [s EXCEPT !.rt = [s.rt EXCEPT ![i] = r]]
  <2>1. r = [s.rt[i] EXCEPT !.from = None, !.last = None, !.lastTf = None]
    BY <1>1, <1>2, <1>3
  <2>2. [s EXCEPT !.rt[i] = r] = [s EXCEPT !.rt = [s.rt EXCEPT ![i] = r]]
    OBVIOUS
  <2> QED BY <2>1, <2>2 DEF ResetRange
<1> QED
  BY <1>6, <1>7, <1>8, RuntimeSet

LEMMA FrameGood ==
  ASSUME NEW s, Good(s), NEW i \in Open(s), NEW a \in Frames \cup {None}
  PROVE  /\ Good(SetTimeframe(s, i, a)) /\ Open(SetTimeframe(s, i, a)) = Open(s)
         /\ SetTimeframe(s, i, a).next = s.next /\ Extends(s, SetTimeframe(s, i, a))
         /\ \A j \in Open(s) : SetTimeframe(s, i, a).win[j].pinned = s.win[j].pinned
<1>1. CASE s.win[i].kind # "chart"
  <2>1. SetTimeframe(s, i, a) = s
    BY <1>1 DEF SetTimeframe
  <2>2. Same(s, s)
    BY DEF Same
  <2> QED BY <2>1, <2>2, SameExtends
<1>2. CASE s.win[i].kind = "chart"
  <2>1. PICK w : w = s.win[i]
    OBVIOUS
  <2>2. PICK f : f = Fit([w EXCEPT !.tf = a], Shown(s, w)).tf
    OBVIOUS
  <2>3. PICK old : old = s.rt[i]
    OBVIOUS
  <2>4. PICK leaving : leaving = (w.tf \in Minutes /\ old.from # None)
    OBVIOUS
  <2>5. PICK last : last = IF leaving THEN old.from ELSE old.last
    OBVIOUS
  <2>6. PICK lastTf : lastTf = IF leaving THEN w.tf ELSE old.lastTf
    OBVIOUS
  <2>7. PICK disk : disk = (f \in Minutes /\ old.disk)
    OBVIOUS
  <2>8. PICK range : range = IF w.tf \in Seconds /\ f \in Seconds THEN old.range ELSE None
    OBVIOUS
  <2>9. PICK r : r = [from |-> None, last |-> last, lastTf |-> lastTf, disk |-> disk, range |-> range]
    OBVIOUS
  <2>10. PICK v : v = [w EXCEPT !.tf = f]
    OBVIOUS
  <2>11. PICK W : W = [s.win EXCEPT ![i] = v]
    OBVIOUS
  <2>12. PICK R : R = [s.rt EXCEPT ![i] = r]
    OBVIOUS
  <2>13. PICK u1 : u1 = [s EXCEPT !.win = W]
    OBVIOUS
  <2>14. PICK u2 : u2 = [u1 EXCEPT !.rt = R]
    OBVIOUS
  <2>15. PICK t : t = Persist(u2)
    OBVIOUS
  <2>16. t = SetTimeframe(s, i, a)
    <3>1. [s EXCEPT !.win[i].tf = f, !.rt[i] = r] = u2
      BY <2>1, <2>10, <2>11, <2>12, <2>13, <2>14
    <3>2. r = [from   |-> None,
               last   |-> IF w.tf \in Minutes /\ old.from # None THEN old.from ELSE old.last,
               lastTf |-> IF w.tf \in Minutes /\ old.from # None THEN w.tf ELSE old.lastTf,
               disk   |-> f \in Minutes /\ old.disk,
               range  |-> IF w.tf \in Seconds /\ f \in Seconds THEN old.range ELSE None]
      BY <2>4, <2>5, <2>6, <2>7, <2>8, <2>9
    <3> QED BY <1>2, <2>1, <2>2, <2>3, <2>15, <3>1, <3>2 DEF SetTimeframe
  <2>17. /\ t.win = W /\ t.sym = s.sym /\ t.rt = R /\ t.next = s.next
         /\ t.saved = Pic(t.win, t.z, t.sym, t.pend) /\ IsStore(t)
    <3>1. u1 = Store(W, s.z, s.sym, s.rt, s.max, s.pend, s.next, s.saved)
      BY <2>13, GoodParts, PutWin
    <3>2. u2 = Store(W, s.z, s.sym, R, s.max, s.pend, s.next, s.saved)
      BY <2>14, <3>1, PutRt
    <3>3. t = Store(W, s.z, s.sym, R, s.max, s.pend, s.next, Pic(W, s.z, s.sym, s.pend))
      BY <2>15, <3>2, Persisted
    <3> QED BY <3>3, Fields
  <2>18. w \in Window /\ w.kind = "chart" /\ w.tf \in Frames \cup {None}
    <3>1. w \in Window
      BY <2>1, GoodParts
    <3> QED BY <1>2, <2>1, <3>1 DEF Window
  <2>19. f \in Frames \cup {None}
    <3>1. [w EXCEPT !.tf = a] \in Window
      BY <2>18, Written
    <3>2. Fit([w EXCEPT !.tf = a], Shown(s, w)) \in Window
      BY <3>1, FitKeeps
    <3> QED BY <2>2, <3>2 DEF Window
  <2>20. v \in Window /\ v.kind = w.kind /\ v.pinned = w.pinned /\ v.group = w.group /\ v.tf = f
    BY <2>10, <2>18, <2>19, Written
  <2>21. W \in [Open(s) -> Window] /\ W[i] = v /\ \A j \in Open(s) : j # i => W[j] = s.win[j]
    BY <2>11, <2>20, WriteOne
  <2>22. Shown(t, t.win[i]) = Shown(s, w) /\ t.win[i].tf = f /\ t.win[i].kind = "chart"
    BY <2>17, <2>18, <2>20, <2>21 DEF Shown, IsPinned
  <2>23. old \in Runtime /\ MayRemember(s, i, old)
    BY <1>2, <2>3, Remembered
  <2>24. r \in Runtime
    <3>1. /\ old.from \in Views \cup {None} /\ old.last \in Views \cup {None}
          /\ old.lastTf \in Frames \cup {None} /\ old.range \in Symbol \cup {None}
      BY <2>23 DEF Runtime
    <3>2. last \in Views \cup {None} /\ lastTf \in Frames \cup {None} /\ range \in Symbol \cup {None}
      BY <2>5, <2>6, <2>8, <2>18, <3>1
    <3>3. disk \in BOOLEAN
      BY <2>7
    <3> QED BY <2>9, <3>2, <3>3 DEF Runtime
  <2>25. /\ r.from = None /\ r.last = last /\ r.lastTf = lastTf /\ r.disk = disk /\ r.range = range
    BY <2>9
  <2>26. MayRemember(t, i, r)
    <3>1. old.from # None => old.from = [symbol |-> Shown(s, w), tf |-> w.tf]
      BY <2>1, <2>23 DEF MayRemember, View
    <3>2. old.last # None => old.last = [symbol |-> Shown(s, w), tf |-> old.lastTf]
      BY <2>1, <2>23 DEF MayRemember
    <3>3. old.range # None => old.range = Shown(s, w)
      BY <2>1, <2>23 DEF MayRemember
    <3>4. r.last # None => r.last = [symbol |-> Shown(t, t.win[i]), tf |-> r.lastTf]
      <4>1. CASE leaving
        BY <4>1, <2>4, <2>5, <2>6, <2>22, <2>25, <3>1
      <4>2. CASE ~leaving
        BY <4>2, <2>5, <2>6, <2>22, <2>25, <3>2
      <4> QED BY <4>1, <4>2
    <3>5. r.disk => t.win[i].tf \in Minutes
      BY <2>7, <2>22, <2>25
    <3>6. r.range # None => r.range = Shown(t, t.win[i]) /\ t.win[i].tf \in Seconds
      BY <2>8, <2>22, <2>25, <3>3
    <3> QED BY <2>25, <3>4, <3>5, <3>6 DEF MayRemember
  <2>27. R \in [Open(s) -> Runtime] /\ R[i] = r /\ \A j \in Open(s) : j # i => R[j] = s.rt[j]
    <3>1. s.rt \in [Open(s) -> Runtime]
      BY GoodParts
    <3> QED BY <3>1, <2>12, <2>24
  <2>28. Open(t) = Open(s)
    BY <2>17, <2>21 DEF Open
  <2>29. \A j \in OpenOf(t, "chart") : FreshAt(t, j)
    <3> TAKE j \in OpenOf(t, "chart")
    <3>1. CASE j = i
      BY <3>1, <2>17, <2>26, <2>27, FreshRemembers
    <3>2. CASE j # i
      <4>1. j \in Open(s) /\ t.win[j] = s.win[j] /\ t.rt[j] = s.rt[j] /\ t.win[j].kind = "chart"
        BY <3>2, <2>17, <2>21, <2>27, <2>28 DEF OpenOf
      <4>2. FreshAt(s, j)
        BY <4>1 DEF Good, Fresh, OpenOf
      <4>3. View(t, j) = View(s, j)
        BY <4>1, <2>17 DEF View, Shown
      <4> QED BY <4>1, <4>2, <4>3, FreshKept
    <3> QED BY <3>1, <3>2
  <2>30. Saves(s, t)
    BY <2>17 DEF Saves
  <2>31. /\ t.win \in [Open(t) -> Window] /\ Open(t) \subseteq 1..(t.next - 1)
         /\ t.next \in Nat \ {0} /\ s.next <= t.next
         /\ t.sym \in [Groups -> Symbol \cup {None}] /\ t.rt \in [Open(t) -> Runtime]
    BY <2>17, <2>21, <2>27, <2>28, GoodParts
  <2>32. Good(t)
    BY <2>17, <2>29, <2>30, <2>31, Update
  <2>33. \A j \in Open(s) : t.win[j].pinned = s.win[j].pinned
    BY <2>1, <2>17, <2>20, <2>21
  <2> QED BY <2>16, <2>17, <2>28, <2>32, <2>33, PinsExtend
<1> QED
  BY <1>1, <1>2

-----------------------------------------------------------------------------
(* Orders and executions. *)

LEMMA ExecutionsType ==
  ASSUME NEW s, Good(s), NEW j \in Open(s)
  PROVE  Executions(s, j) \in Shares
<1>1. PICK o : o = Source(s, j)
  OBVIOUS
<1>2. CASE o = None
  <2>1. s.win[j].kept \in Shares
    BY GoodParts DEF Window
  <2> QED BY <1>1, <1>2, <2>1 DEF Executions
<1>3. CASE o # None
  <2>1. o \in Open(s)
    BY <1>1, <1>3 DEF Source, OpenOf
  <2>2. s.win[o].account \in Account \cup {None}
    BY <2>1, GoodParts DEF Window
  <2>3. Shown(s, s.win[o]) \in Symbol \cup {None}
    BY <2>1, ViewType
  <2> QED BY <1>1, <1>3, <2>2, <2>3 DEF Executions, Shares
<1> QED
  BY <1>2, <1>3

LEMMA CloseGood ==
  ASSUME NEW s, Good(s), NEW i \in Open(s)
  PROVE  /\ Good(CloseWindow(s, i)) /\ Open(CloseWindow(s, i)) = Open(s) \ {i}
         /\ CloseWindow(s, i).next = s.next /\ CloseWindow(s, i).sym = s.sym
         /\ \A j \in Open(s) \ {i} :
              CloseWindow(s, i).win[j] =
                IF i \in OpenOf(s, "order") /\ s.win[j].source = i
                  THEN [s.win[j] EXCEPT !.kept = Executions(s, j)] ELSE s.win[j]
         /\ \A j \in Open(s) \ {i} : CloseWindow(s, i).win[j].pinned = s.win[j].pinned
<1>1. PICK rest : rest = Open(s) \ {i}
  OBVIOUS
<1>2. PICK W : W = [j \in rest |-> IF i \in OpenOf(s, "order") /\ s.win[j].source = i
                                     THEN [s.win[j] EXCEPT !.kept = Executions(s, j)] ELSE s.win[j]]
  OBVIOUS
<1>3. PICK R : R = [j \in rest |-> s.rt[j]]
  OBVIOUS
<1>4. PICK Z : Z = Remove(s.z, i)
  OBVIOUS
<1>5. PICK m : m = IF s.max = i THEN None ELSE s.max
  OBVIOUS
<1>6. PICK u1 : u1 = [s EXCEPT !.win = W]
  OBVIOUS
<1>7. PICK u2 : u2 = [u1 EXCEPT !.z = Z]
  OBVIOUS
<1>8. PICK u3 : u3 = [u2 EXCEPT !.rt = R]
  OBVIOUS
<1>9. PICK u4 : u4 = [u3 EXCEPT !.max = m]
  OBVIOUS
<1>10. PICK t : t = Persist(u4)
  OBVIOUS
<1>11. t = CloseWindow(s, i)
  <2>1. [s EXCEPT !.win = W, !.z = Z, !.rt = R, !.max = m] = u4
    BY <1>6, <1>7, <1>8, <1>9
  <2>2. [s EXCEPT !.win = W, !.z = Remove(@, i), !.rt = [j \in rest |-> @[j]],
                  !.max = IF @ = i THEN None ELSE @] = u4
    BY <2>1, <1>3, <1>4, <1>5
  <2> QED BY <2>2, <1>1, <1>2, <1>10 DEF CloseWindow
<1>12. /\ t.win = W /\ t.sym = s.sym /\ t.rt = R /\ t.next = s.next
       /\ t.saved = Pic(t.win, t.z, t.sym, t.pend) /\ IsStore(t)
  <2>1. u1 = Store(W, s.z, s.sym, s.rt, s.max, s.pend, s.next, s.saved)
    BY <1>6, GoodParts, PutWin
  <2>2. u2 = Store(W, Z, s.sym, s.rt, s.max, s.pend, s.next, s.saved)
    BY <1>7, <2>1, PutZ
  <2>3. u3 = Store(W, Z, s.sym, R, s.max, s.pend, s.next, s.saved)
    BY <1>8, <2>2, PutRt
  <2>4. u4 = Store(W, Z, s.sym, R, m, s.pend, s.next, s.saved)
    BY <1>9, <2>3, PutMax
  <2>5. t = Store(W, Z, s.sym, R, m, s.pend, s.next, Pic(W, Z, s.sym, s.pend))
    BY <1>10, <2>4, Persisted
  <2> QED BY <2>5, Fields
<1>13. /\ W \in [rest -> Window]
       /\ \A j \in rest : /\ W[j].kind = s.win[j].kind /\ W[j].tf = s.win[j].tf
                          /\ W[j].pinned = s.win[j].pinned /\ W[j].group = s.win[j].group
  <2>1. \A j \in rest : s.win[j] \in Window /\ Executions(s, j) \in Shares
    BY <1>1, GoodParts, ExecutionsType
  <2>2. \A j \in rest : LET v == [s.win[j] EXCEPT !.kept = Executions(s, j)]
                        IN  /\ v \in Window /\ v.kind = s.win[j].kind /\ v.tf = s.win[j].tf
                            /\ v.pinned = s.win[j].pinned /\ v.group = s.win[j].group
    BY <2>1, Written
  <2> QED BY <1>2, <2>1, <2>2
<1>14. Open(t) = rest /\ R \in [rest -> Runtime] /\ \A j \in rest : R[j] = s.rt[j]
  <2>1. \A j \in rest : s.rt[j] \in Runtime
    BY <1>1, GoodParts
  <2> QED BY <2>1, <1>3, <1>12, <1>13 DEF Open
<1>15. \A j \in OpenOf(t, "chart") : FreshAt(t, j)
  <2> TAKE j \in OpenOf(t, "chart")
  <2>1. j \in rest /\ t.win[j].kind = "chart"
    BY <1>14 DEF OpenOf
  <2>2. j \in OpenOf(s, "chart")
    BY <2>1, <1>1, <1>12, <1>13 DEF OpenOf
  <2>3. FreshAt(s, j)
    BY <2>2 DEF Good, Fresh
  <2>4. View(t, j) = View(s, j)
    BY <2>1, <1>12, <1>13 DEF View, Shown, IsPinned
  <2> QED BY <2>1, <2>3, <2>4, <1>12, <1>14, FreshKept
<1>16. Saves(s, t)
  BY <1>12 DEF Saves
<1>17. /\ t.win \in [Open(t) -> Window] /\ Open(t) \subseteq 1..(t.next - 1)
       /\ t.next \in Nat \ {0} /\ s.next <= t.next
       /\ t.sym \in [Groups -> Symbol \cup {None}] /\ t.rt \in [Open(t) -> Runtime]
  BY <1>1, <1>12, <1>13, <1>14, GoodParts
<1>18. Good(t)
  BY <1>12, <1>15, <1>16, <1>17, Update
<1> QED
  BY <1>1, <1>2, <1>11, <1>12, <1>13, <1>14, <1>18

\* What an execution window shows survives its order window.
LEMMA CloseKeeps ==
  ASSUME NEW s, Good(s), NEW c \in Open(s), NEW i \in OpenOf(s, "account-fills"),
         Source(s, i) # None, i \in Open(CloseWindow(s, c))
  PROVE  Executions(CloseWindow(s, c), i) = Executions(s, i)
<1>1. PICK t : t = CloseWindow(s, c)
  OBVIOUS
<1>2. /\ Open(t) = Open(s) \ {c} /\ t.sym = s.sym
      /\ \A j \in Open(s) \ {c} :
           t.win[j] = IF c \in OpenOf(s, "order") /\ s.win[j].source = c
                        THEN [s.win[j] EXCEPT !.kept = Executions(s, j)] ELSE s.win[j]
  BY <1>1, CloseGood
<1>3. PICK o : o = s.win[i].source
  OBVIOUS
<1>4. o \in OpenOf(s, "order") /\ Source(s, i) = o /\ o # None
  BY <1>3 DEF Source
<1>5. i \in Open(s) \ {c}
  BY <1>1, <1>2
<1>6. ASSUME NEW j \in Open(s) \ {c}
      PROVE  /\ t.win[j].kind = s.win[j].kind /\ t.win[j].group = s.win[j].group
             /\ t.win[j].pinned = s.win[j].pinned /\ t.win[j].account = s.win[j].account
             /\ t.win[j].source = s.win[j].source
  <2>1. s.win[j] \in Window
    BY GoodParts
  <2>2. PICK k : k = Executions(s, j)
    OBVIOUS
  <2>3. LET v == [s.win[j] EXCEPT !.kept = k]
        IN  /\ v.kind = s.win[j].kind /\ v.group = s.win[j].group /\ v.pinned = s.win[j].pinned
            /\ v.account = s.win[j].account /\ v.source = s.win[j].source
    BY <2>1 DEF Window
  <2> QED BY <1>2, <2>2, <2>3
<1>7. CASE o = c
  <2>1. t.win[i] = [s.win[i] EXCEPT !.kept = Executions(s, i)]
    BY <1>2, <1>3, <1>4, <1>5, <1>7
  <2>2. t.win[i].kept = Executions(s, i)
    <3>1. s.win[i] \in Window /\ Executions(s, i) \in Shares
      BY <1>5, GoodParts, ExecutionsType
    <3>2. PICK k : k = Executions(s, i)
      OBVIOUS
    <3>3. [s.win[i] EXCEPT !.kept = k].kept = k
      BY <3>1 DEF Window
    <3> QED BY <2>1, <3>2, <3>3
  <2>3. Source(t, i) = None
    BY <1>2, <1>3, <1>5, <1>6, <1>7 DEF Source, OpenOf
  <2> QED BY <1>1, <2>2, <2>3 DEF Executions
<1>8. CASE o # c
  <2>1. o \in Open(s) \ {c}
    BY <1>4, <1>8 DEF OpenOf
  <2>2. o \in OpenOf(t, "order")
    BY <2>1, <1>2, <1>4, <1>6 DEF OpenOf
  <2>3. Source(t, i) = o
    BY <2>2, <1>3, <1>5, <1>6 DEF Source
  <2>4. Shown(t, t.win[o]) = Shown(s, s.win[o])
    BY <2>1, <1>2, <1>6, SameShown
  <2> QED BY <1>1, <1>4, <2>1, <2>3, <2>4, <1>6 DEF Executions
<1> QED
  BY <1>7, <1>8

LEMMA AccountGood ==
  ASSUME NEW s, Good(s), NEW o \in Open(s), NEW a \in Account
  PROVE  /\ Good(SetOrderAccount(s, o, a)) /\ Open(SetOrderAccount(s, o, a)) = Open(s)
         /\ SetOrderAccount(s, o, a).next = s.next /\ Extends(s, SetOrderAccount(s, o, a))
<1>1. CASE s.win[o].account = a
  <2>1. SetOrderAccount(s, o, a) = s
    BY <1>1 DEF SetOrderAccount
  <2>2. Same(s, s)
    BY DEF Same
  <2> QED BY <2>1, <2>2, SameExtends
<1>2. CASE s.win[o].account # a
  <2>1. PICK k : k = [account |-> a, symbol |-> Shown(s, s.win[o])]
    OBVIOUS
  <2>2. PICK W : W = [j \in Open(s) |->
                        CASE j = o            -> [s.win[j] EXCEPT !.account = a]
                          [] j \in Linked(s, o) -> [s.win[j] EXCEPT !.kept = k]
                          [] OTHER            -> s.win[j]]
    OBVIOUS
  <2>3. PICK t : t = Persist([s EXCEPT !.win = W])
    OBVIOUS
  <2>4. t = SetOrderAccount(s, o, a)
    BY <1>2, <2>1, <2>2, <2>3 DEF SetOrderAccount
  <2>5. t = Store(W, s.z, s.sym, s.rt, s.max, s.pend, s.next, Pic(W, s.z, s.sym, s.pend))
    BY <2>3, WriteWindows
  <2>6. /\ t.win = W /\ t.sym = s.sym /\ t.rt = s.rt /\ t.next = s.next
        /\ t.saved = Pic(t.win, t.z, t.sym, t.pend) /\ IsStore(t)
    BY <2>5, Fields
  <2>7. k \in Shares
    <3>1. Shown(s, s.win[o]) \in Symbol \cup {None}
      BY ViewType
    <3> QED BY <2>1, <3>1 DEF Shares
  <2>8. ASSUME NEW j \in Open(s)
        PROVE  /\ W[j] \in Window /\ W[j].kind = s.win[j].kind /\ W[j].tf = s.win[j].tf
               /\ W[j].pinned = s.win[j].pinned /\ W[j].group = s.win[j].group
    <3>1. s.win[j] \in Window
      BY GoodParts
    <3>2. LET v == [s.win[j] EXCEPT !.account = a]
          IN  /\ v \in Window /\ v.kind = s.win[j].kind /\ v.tf = s.win[j].tf
              /\ v.pinned = s.win[j].pinned /\ v.group = s.win[j].group
      BY <3>1, Written
    <3>3. LET v == [s.win[j] EXCEPT !.kept = k]
          IN  /\ v \in Window /\ v.kind = s.win[j].kind /\ v.tf = s.win[j].tf
              /\ v.pinned = s.win[j].pinned /\ v.group = s.win[j].group
      BY <3>1, <2>7, Written
    <3>4. \/ W[j] = [s.win[j] EXCEPT !.account = a]
          \/ W[j] = [s.win[j] EXCEPT !.kept = k]
          \/ W[j] = s.win[j]
      BY <2>2
    <3> QED BY <3>1, <3>2, <3>3, <3>4
  <2>9. W \in [Open(s) -> Window]
    <3>1. W = [j \in Open(s) |-> W[j]]
      BY <2>2
    <3> QED BY <3>1, <2>8
  <2>10. \A j \in Open(s) : t.win[j].kind = s.win[j].kind /\ View(t, j) = View(s, j)
    BY <2>6, <2>8 DEF View, Shown, IsPinned
  <2>11. Good(t) /\ Open(t) = Open(s)
    BY <2>6, <2>9, <2>10, Rewritten
  <2>12. \A j \in Open(s) : IsPinned(s.win[j]) => t.win[j].pinned = s.win[j].pinned
    BY <2>6, <2>8
  <2> QED BY <2>4, <2>6, <2>11, <2>12, PinsExtend
<1> QED
  BY <1>1, <1>2

\* An execution window is given a source and something to keep.
WriteLink(s, i, o, k) == Persist([s EXCEPT !.win[i] = [s.win[i] EXCEPT !.source = o, !.kept = k]])

LEMMA LinkWritten ==
  ASSUME NEW s, Good(s), NEW i \in Open(s), NEW o \in Nat \cup {None}, NEW k \in Shares,
         NEW t, t = WriteLink(s, i, o, k)
  PROVE  Good(t) /\ Open(t) = Open(s) /\ t.next = s.next /\ Extends(s, t)
<1>1. PICK w : w = s.win[i]
  OBVIOUS
<1>3. PICK x : x = [w EXCEPT !.source = o]
  OBVIOUS
<1>4. PICK v : v = [x EXCEPT !.kept = k]
  OBVIOUS
<1>5. PICK W : W = [s.win EXCEPT ![i] = v]
  OBVIOUS
<1>6. t = Persist([s EXCEPT !.win = W])
  <2>1. v = [s.win[i] EXCEPT !.source = o, !.kept = k]
    BY <1>1, <1>3, <1>4
  <2>2. [s EXCEPT !.win[i] = v] = [s EXCEPT !.win = W]
    BY <1>5
  <2> QED BY <2>1, <2>2 DEF WriteLink
<1>8. t = Store(W, s.z, s.sym, s.rt, s.max, s.pend, s.next, Pic(W, s.z, s.sym, s.pend))
  BY <1>6, WriteWindows
<1>9. /\ t.win = W /\ t.sym = s.sym /\ t.rt = s.rt /\ t.next = s.next
      /\ t.saved = Pic(t.win, t.z, t.sym, t.pend) /\ IsStore(t)
  BY <1>8, Fields
<1>10. w \in Window
  BY <1>1, GoodParts
<1>11. x \in Window /\ x.kind = w.kind /\ x.tf = w.tf /\ x.pinned = w.pinned /\ x.group = w.group
  BY <1>3, <1>10, Written
<1>12. v \in Window /\ v.kind = w.kind /\ v.tf = w.tf /\ v.pinned = w.pinned /\ v.group = w.group
  BY <1>4, <1>10, <1>11, Written
<1>13. W \in [Open(s) -> Window] /\ W[i] = v /\ \A j \in Open(s) : j # i => W[j] = s.win[j]
  BY <1>5, <1>12, WriteOne
<1>14. \A j \in Open(s) : /\ W[j].kind = s.win[j].kind /\ W[j].tf = s.win[j].tf
                          /\ W[j].pinned = s.win[j].pinned /\ W[j].group = s.win[j].group
  BY <1>1, <1>12, <1>13
<1>15. \A j \in Open(s) : t.win[j].kind = s.win[j].kind /\ View(t, j) = View(s, j)
  BY <1>9, <1>14 DEF View, Shown, IsPinned
<1>16. Good(t) /\ Open(t) = Open(s)
  BY <1>9, <1>13, <1>15, Rewritten
<1>17. \A j \in Open(s) : IsPinned(s.win[j]) => t.win[j].pinned = s.win[j].pinned
  BY <1>9, <1>14
<1> QED
  BY <1>9, <1>16, <1>17, PinsExtend

LEMMA LinkGood ==
  ASSUME NEW s, Good(s), NEW i \in Open(s), NEW o \in Open(s)
  PROVE  /\ Good(LinkExecutions(s, i, o)) /\ Open(LinkExecutions(s, i, o)) = Open(s)
         /\ LinkExecutions(s, i, o).next = s.next /\ Extends(s, LinkExecutions(s, i, o))
<1>1. PICK k, t : /\ k = [account |-> s.win[o].account, symbol |-> Shown(s, s.win[o])]
                  /\ t = LinkExecutions(s, i, o)
  OBVIOUS
<1>2. k \in Shares /\ o \in Nat \cup {None}
  <2>1. Shown(s, s.win[o]) \in Symbol \cup {None}
    BY ViewType
  <2>2. s.win[o].account \in Account \cup {None}
    BY GoodParts DEF Window
  <2>3. Open(s) \subseteq 1..(s.next - 1) /\ s.next \in Nat
    BY GoodParts
  <2> QED BY <1>1, <2>1, <2>2, <2>3 DEF Shares
<1>3. t = WriteLink(s, i, o, k)
  BY <1>1 DEF LinkExecutions, WriteLink
<1>4. Good(t) /\ Open(t) = Open(s) /\ t.next = s.next /\ Extends(s, t)
  BY <1>2, <1>3, LinkWritten
<1> QED
  BY <1>1, <1>4

LEMMA UnlinkGood ==
  ASSUME NEW s, Good(s), NEW i \in Open(s)
  PROVE  /\ Good(UnlinkExecutions(s, i)) /\ Open(UnlinkExecutions(s, i)) = Open(s)
         /\ UnlinkExecutions(s, i).next = s.next /\ Extends(s, UnlinkExecutions(s, i))
<1>1. PICK o, k, t : o = None /\ k = NothingKept /\ t = UnlinkExecutions(s, i)
  OBVIOUS
<1>2. k \in Shares /\ o \in Nat \cup {None}
  BY <1>1, EmptyType
<1>3. t = WriteLink(s, i, o, k)
  BY <1>1 DEF UnlinkExecutions, WriteLink
<1>4. Good(t) /\ Open(t) = Open(s) /\ t.next = s.next /\ Extends(s, t)
  BY <1>2, <1>3, LinkWritten
<1> QED
  BY <1>1, <1>4

-----------------------------------------------------------------------------
(* Navigation. *)

LEMMA SelfExtends ==
  ASSUME NEW s, Good(s)
  PROVE  Extends(s, s) /\ Same(s, s)
BY SameExtends DEF Same

LEMMA Names ==
  /\ "chart" \in Kinds /\ "trade" \in Kinds /\ "account-fills" \in Kinds
  /\ "1m" \in Frames \cup {None} /\ "5s" \in Frames \cup {None} /\ None \in Frames \cup {None}
BY DEF Kinds, Frames

LEMMA RangeGood ==
  ASSUME NEW s, Good(s), NEW i, NEW on \in BOOLEAN
  PROVE  Good(SetSecondRange(s, i, on)) /\ Same(s, SetSecondRange(s, i, on))
<1>1. CASE i \in Open(s)
  BY <1>1, SecondRangeGood
<1>2. CASE i \notin Open(s)
  <2>1. PICK x : x = IF on THEN Shown(s, s.win[i]) ELSE None
    OBVIOUS
  <2>2. PICK R : R = [s.rt EXCEPT ![i].range = x]
    OBVIOUS
  <2>3. R = s.rt
    <3>1. s.rt \in [Open(s) -> Runtime]
      BY GoodParts
    <3> QED BY <3>1, <2>2, <1>2
  <2>4. PICK u : u = [s EXCEPT !.rt = R]
    OBVIOUS
  <2>5. u = Store(s.win, s.z, s.sym, R, s.max, s.pend, s.next, s.saved)
    BY <2>4, GoodParts, PutRt
  <2>6. u = s
    BY <2>3, <2>5, GoodParts
  <2>7. [s EXCEPT !.rt[i].range = x] = u
    BY <2>2, <2>4
  <2>8. SetSecondRange(s, i, on) = s
    BY <2>1, <2>6, <2>7 DEF SetSecondRange
  <2> QED BY <2>8, SelfExtends
<1> QED
  BY <1>1, <1>2

\* A new window in a group.
LEMMA MadeGood ==
  ASSUME NEW s, Good(s), NEW kind \in Kinds, NEW pref \in Frames \cup {None}, NEW g \in Groups,
         NEW t, t = SetWindowGroup(AddWindow(s, kind, pref), s.next, g)
  PROVE  /\ Good(t) /\ Extends(s, t) /\ s.next \in Open(t) /\ s.next \notin Open(s)
<1>1. PICK a, n : a = AddWindow(s, kind, pref) /\ n = s.next
  OBVIOUS
<1>2. Good(a) /\ Extends(s, a) /\ n \in Open(a) /\ n \notin Open(s) /\ ~IsPinned(a.win[n])
  BY <1>1, AddGood
<1>3. t = SetWindowGroup(a, n, g)
  BY <1>1
<1>4. Good(t) /\ Extends(a, t) /\ Open(t) = Open(a)
  BY <1>2, <1>3, SetGroupGood
<1> QED
  BY <1>1, <1>2, <1>4, ExtendsTwice

\* What is done to the new window alone extends what there was before it.
LEMMA NewOnly ==
  ASSUME NEW s, NEW t, NEW u, NEW n, Good(s), Good(t), Good(u), Extends(s, t), n \notin Open(s),
         Open(u) = Open(t), u.next = t.next,
         \A j \in Open(t) : j # n => u.win[j].pinned = t.win[j].pinned
  PROVE  Extends(s, u)
<1>1. s.next <= u.next
  BY DEF Extends
<1>2. \A i \in Open(s) : IsPinned(s.win[i]) => u.win[i].pinned = s.win[i].pinned
  BY DEF Extends
<1> QED
  BY <1>1, <1>2 DEF Extends

LEMMA FocusExtends ==
  ASSUME NEW s, NEW t, NEW i, Good(s), Good(t), Extends(s, t)
  PROVE  Good(FocusWindow(t, i)) /\ Extends(s, FocusWindow(t, i))
<1>1. PICK u : u = FocusWindow(t, i)
  OBVIOUS
<1>2. Good(u) /\ Extends(t, u)
  BY <1>1, FocusGood, SameExtends
<1> QED
  BY <1>1, <1>2, ExtendsTwice

LEMMA OpenExecutionsGood ==
  ASSUME NEW s, Good(s), NEW o \in Open(s), NEW a \in Account
  PROVE  Good(OpenExecutions(s, o, a)) /\ Extends(s, OpenExecutions(s, o, a))
<1>1. PICK t : t = SetOrderAccount(s, o, a)
  OBVIOUS
<1>2. Good(t) /\ Extends(s, t) /\ Open(t) = Open(s)
  BY <1>1, AccountGood
<1>3. CASE Linked(t, o) # {}
  <2>1. OpenExecutions(s, o, a) = FocusWindow(t, CHOOSE j \in Linked(t, o) : TRUE)
    BY <1>1, <1>3 DEF OpenExecutions
  <2> QED BY <2>1, <1>2, FocusExtends
<1>4. CASE Linked(t, o) = {}
  <2>1. PICK k, n : k = "account-fills" /\ n = t.next
    OBVIOUS
  <2>2. PICK u : u = AddWindow(t, k, None)
    OBVIOUS
  <2>3. Good(u) /\ Extends(t, u) /\ n \in Open(u)
    BY <2>1, <2>2, <1>2, Names, AddGood
  <2>4. PICK v : v = LinkExecutions(u, n, o)
    OBVIOUS
  <2>5. o \in Open(u)
    BY <2>3, <1>2 DEF Extends
  <2>6. Good(v) /\ Extends(u, v)
    BY <2>3, <2>4, <2>5, LinkGood
  <2>7. v = OpenExecutions(s, o, a)
    BY <1>1, <1>4, <2>1, <2>2, <2>4 DEF OpenExecutions
  <2> QED BY <2>3, <2>6, <2>7, <1>2, ExtendsTwice
<1> QED
  BY <1>3, <1>4

LEMMA ActivateGood ==
  ASSUME NEW s, Good(s), NEW y \in Symbol
  PROVE  Good(Activate(s, y)) /\ Extends(s, Activate(s, y))
<1>1. PICK windows : windows = Open(s) \ OpenOf(s, "account-fills")
  OBVIOUS
<1>2. PICK target : target = Topmost(s, {i \in windows : ~IsPinned(s.win[i])})
  OBVIOUS
<1>3. Activate(s, y) = IF windows = {} THEN SetGroupSymbol(s, 1, y)
                       ELSE IF target = None THEN s
                       ELSE FocusWindow(SetGroupSymbol(s, s.win[target].group, y), target)
  BY <1>1, <1>2 DEF Activate
<1>4. CASE windows = {}
  BY <1>3, <1>4, ConstantTypes, SetSymbolGood
<1>5. CASE windows # {} /\ target = None
  BY <1>3, <1>5, SelfExtends
<1>6. CASE windows # {} /\ target # None
  <2>1. target \in Open(s)
    BY <1>1, <1>2, <1>6, Above
  <2>2. PICK g : g = s.win[target].group
    OBVIOUS
  <2>3. g \in Groups
    BY <2>1, <2>2, GoodParts DEF Window
  <2>4. PICK t : t = SetGroupSymbol(s, g, y)
    OBVIOUS
  <2>5. Good(t) /\ Extends(s, t)
    BY <2>3, <2>4, SetSymbolGood
  <2>6. Activate(s, y) = FocusWindow(t, target)
    BY <1>3, <1>6, <2>2, <2>4
  <2> QED BY <2>5, <2>6, FocusExtends
<1> QED
  BY <1>4, <1>5, <1>6

LEMMA OpenSecondRangeGood ==
  ASSUME NEW s, Good(s), NEW i \in Open(s)
  PROVE  Good(OpenSecondRange(s, i)) /\ Extends(s, OpenSecondRange(s, i))
<1>1. PICK w, y, n : w = s.win[i] /\ y = Shown(s, w) /\ n = s.next
  OBVIOUS
<1>2. PICK like : like = {j \in OpenOf(s, "chart") \ {i} :
                            /\ s.win[j].group = w.group /\ s.win[j].tf \in Seconds
                            /\ Shown(s, s.win[j]) = y}
  OBVIOUS
<1>3. PICK f : f = FocusWindow(s, i)
  OBVIOUS
<1>4. Good(f) /\ Same(s, f) /\ Extends(s, f) /\ Open(f) = Open(s)
  BY <1>3, FocusGood, SameExtends
<1>5. PICK kind, pref, tf : kind = "chart" /\ pref = "1m" /\ tf = "5s"
  OBVIOUS
<1>6. PICK m : m = SetWindowGroup(AddWindow(f, kind, pref), f.next, w.group)
  OBVIOUS
<1>7. w.group \in Groups /\ y \in Symbol \cup {None}
  <2>1. w \in Window
    BY <1>1, GoodParts
  <2>2. y \in Symbol \cup {None}
    BY <1>1, ViewType
  <2> QED BY <2>1, <2>2 DEF Window
<1>8. f.next = n
  BY <1>1, <1>4 DEF Same
<1>9. Good(m) /\ Extends(f, m) /\ n \in Open(m) /\ n \notin Open(s)
  BY <1>4, <1>5, <1>6, <1>7, <1>8, Names, MadeGood
<1>10. PICK made : made = SetTimeframe(m, n, tf)
  OBVIOUS
<1>11. Good(made) /\ Extends(m, made) /\ Open(made) = Open(m)
  BY <1>5, <1>9, <1>10, Names, FrameGood
<1>12. Extends(s, made)
  BY <1>4, <1>9, <1>11, ExtendsTwice
<1>13. PICK p : p = PinTo(made, n, y)
  OBVIOUS
<1>14. Good(p) /\ Extends(s, p)
  <2>1. /\ Good(p) /\ Open(p) = Open(made) /\ p.next = made.next
        /\ \A j \in Open(made) : j # n => p.win[j].pinned = made.win[j].pinned
    BY <1>7, <1>9, <1>11, <1>13, PinToGood
  <2> QED BY <2>1, <1>9, <1>11, <1>12, NewOnly
<1>15. PICK t : t = IF like # {} THEN s ELSE IF s.sym[w.group] # y THEN p ELSE made
  OBVIOUS
<1>16. Good(t) /\ Extends(s, t)
  BY <1>11, <1>12, <1>14, <1>15, SelfExtends
<1>17. PICK target : target = IF like # {} THEN Topmost(s, like) ELSE n
  OBVIOUS
<1>18. PICK on : on \in BOOLEAN /\ on = TRUE
  OBVIOUS
<1>19. PICK r : r = SetSecondRange(t, target, on)
  OBVIOUS
<1>20. Good(r) /\ Extends(s, r)
  BY <1>16, <1>18, <1>19, RangeGood, SameExtends, ExtendsTwice
<1>21. OpenSecondRange(s, i) = FocusWindow(r, target)
  <2>1. made = SetTimeframe(SetWindowGroup(AddWindow(FocusWindow(s, i), "chart", "1m"), s.next,
                                           w.group), s.next, "5s")
    BY <1>1, <1>3, <1>5, <1>6, <1>8, <1>10
  <2>2. r = SetSecondRange(t, target, TRUE)
    BY <1>18, <1>19
  <2> QED BY <2>1, <2>2, <1>1, <1>2, <1>13, <1>15, <1>17 DEF OpenSecondRange
<1> QED
  BY <1>20, <1>21, FocusExtends

LEMMA OpenTradeGood ==
  ASSUME NEW s, Good(s), NEW o \in Open(s)
  PROVE  Good(OpenTrade(s, o)) /\ Extends(s, OpenTrade(s, o))
<1>1. PICK w, y, n : w = s.win[o] /\ y = Shown(s, w) /\ n = s.next
  OBVIOUS
<1>2. PICK like : like = {j \in OpenOf(s, "trade") :
                            s.win[j].group = w.group /\ Shown(s, s.win[j]) = y}
  OBVIOUS
<1>3. PICK f : f = FocusWindow(s, o)
  OBVIOUS
<1>4. Good(f) /\ Same(s, f) /\ Extends(s, f) /\ Open(f) = Open(s)
  BY <1>3, FocusGood, SameExtends
<1>5. PICK kind : kind = "trade"
  OBVIOUS
<1>6. PICK made : made = SetWindowGroup(AddWindow(f, kind, None), f.next, w.group)
  OBVIOUS
<1>7. w.group \in Groups /\ y \in Symbol \cup {None}
  <2>1. w \in Window
    BY <1>1, GoodParts
  <2>2. y \in Symbol \cup {None}
    BY <1>1, ViewType
  <2> QED BY <2>1, <2>2 DEF Window
<1>8. f.next = n
  BY <1>1, <1>4 DEF Same
<1>9. Good(made) /\ Extends(f, made) /\ n \in Open(made) /\ n \notin Open(s)
  BY <1>4, <1>5, <1>6, <1>7, <1>8, Names, MadeGood
<1>10. Extends(s, made)
  BY <1>4, <1>9, ExtendsTwice
<1>11. PICK p : p = PinTo(made, n, y)
  OBVIOUS
<1>12. Good(p) /\ Extends(s, p)
  <2>1. /\ Good(p) /\ Open(p) = Open(made) /\ p.next = made.next
        /\ \A j \in Open(made) : j # n => p.win[j].pinned = made.win[j].pinned
    BY <1>7, <1>9, <1>11, PinToGood
  <2> QED BY <2>1, <1>9, <1>10, NewOnly
<1>13. PICK t : t = IF IsPinned(w) THEN p ELSE made
  OBVIOUS
<1>14. Good(t) /\ Extends(s, t)
  BY <1>9, <1>10, <1>12, <1>13
<1>15. OpenTrade(s, o) = IF like # {} THEN FocusWindow(s, Topmost(s, like)) ELSE FocusWindow(t, n)
  <2>1. made = SetWindowGroup(AddWindow(FocusWindow(s, o), "trade", None), s.next, w.group)
    BY <1>1, <1>3, <1>5, <1>6, <1>8
  <2> QED BY <2>1, <1>1, <1>2, <1>11, <1>13 DEF OpenTrade
<1>16. CASE like # {}
  BY <1>15, <1>16, SelfExtends, FocusExtends
<1>17. CASE like = {}
  BY <1>14, <1>15, <1>17, FocusExtends
<1> QED
  BY <1>16, <1>17

LEMMA OpenSavedGood ==
  ASSUME NEW s, Good(s), NEW y \in Symbol, NEW tf \in Frames
  PROVE  Good(OpenSaved(s, y, tf)) /\ Extends(s, OpenSaved(s, y, tf))
<1>1. PICK windows : windows = Open(s) \ OpenOf(s, "account-fills")
  OBVIOUS
<1>2. PICK dest : dest = Topmost(s, {i \in windows : ~IsPinned(s.win[i])})
  OBVIOUS
<1>3. PICK group : group = IF dest = None THEN 1 ELSE s.win[dest].group
  OBVIOUS
<1>4. PICK t, n : t = Activate(s, y) /\ n = t.next
  OBVIOUS
<1>5. PICK target : target = IF dest \in OpenOf(s, "chart") THEN dest
                             ELSE Topmost(t, {i \in OpenOf(t, "chart") :
                                                t.win[i].group = group /\ Shown(t, t.win[i]) = y})
  OBVIOUS
<1>6. PICK kind, pref : kind = "chart" /\ pref = "1m"
  OBVIOUS
<1>7. PICK made : made = SetWindowGroup(AddWindow(t, kind, pref), t.next, group)
  OBVIOUS
<1>8. PICK u : u = IF target = None /\ tf \in Seconds THEN made ELSE t
  OBVIOUS
<1>9. PICK chart : chart = IF target = None /\ tf \in Seconds THEN n ELSE target
  OBVIOUS
<1>10. PICK on : on \in BOOLEAN /\ on = FALSE
  OBVIOUS
<1>11. PICK a, b : a = SetTimeframe(u, chart, tf) /\ b = SetSecondRange(a, chart, on)
  OBVIOUS
<1>12. OpenSaved(s, y, tf) =
         IF windows # {} /\ dest = None THEN s
         ELSE IF chart # None /\ (tf \in Seconds \/ u.win[chart].tf \in Seconds)
           THEN FocusWindow(b, chart) ELSE u
  <2>1. made = SetWindowGroup(AddWindow(t, "chart", "1m"), t.next, group)
    BY <1>6, <1>7
  <2>2. b = SetSecondRange(SetTimeframe(u, chart, tf), chart, FALSE)
    BY <1>10, <1>11
  <2> QED BY <2>1, <2>2, <1>1, <1>2, <1>3, <1>4, <1>5, <1>8, <1>9 DEF OpenSaved
<1>13. Good(t) /\ Extends(s, t)
  BY <1>4, ActivateGood
<1>14. group \in Groups
  <2>1. dest # None => dest \in Open(s)
    BY <1>1, <1>2, Above
  <2>2. dest # None => s.win[dest].group \in Groups
    BY <2>1, GoodParts DEF Window
  <2> QED BY <2>2, <1>3, ConstantTypes
<1>15. Good(made) /\ Extends(s, made) /\ n \in Open(made)
  BY <1>4, <1>6, <1>7, <1>13, <1>14, Names, MadeGood, ExtendsTwice
<1>16. Good(u) /\ Extends(s, u)
  BY <1>8, <1>13, <1>15
<1>17. target # None => target \in Open(t)
  <2>1. CASE dest \in OpenOf(s, "chart")
    BY <2>1, <1>5, <1>13 DEF OpenOf, Extends
  <2>2. CASE dest \notin OpenOf(s, "chart")
    BY <2>2, <1>5, Above DEF OpenOf
  <2> QED BY <2>1, <2>2
<1>18. chart # None => chart \in Open(u)
  BY <1>8, <1>9, <1>15, <1>17
<1>19. CASE chart # None
  <2>1. tf \in Frames \cup {None}
    OBVIOUS
  <2>2. Good(a) /\ Extends(u, a)
    BY <2>1, <1>11, <1>16, <1>18, <1>19, FrameGood
  <2>3. Good(b) /\ Extends(a, b)
    BY <2>2, <1>10, <1>11, RangeGood, SameExtends
  <2>4. Extends(s, b)
    BY <2>2, <2>3, <1>16, ExtendsTwice
  <2>5. Good(FocusWindow(b, chart)) /\ Extends(s, FocusWindow(b, chart))
    BY <2>3, <2>4, FocusExtends
  <2> QED BY <2>5, <1>12, <1>16, SelfExtends
<1>20. CASE chart = None
  BY <1>12, <1>16, <1>20, SelfExtends
<1> QED
  BY <1>19, <1>20

-----------------------------------------------------------------------------
(* Presets, storage and tabs. *)

\* What is pinned in s stays pinned in t, if it is still there.
Pins(s, t) ==
  \A i \in Open(s) \cap Open(t) : IsPinned(s.win[i]) => t.win[i].pinned = s.win[i].pinned

LEMMA ExtendsPins ==
  ASSUME NEW s, NEW t, Extends(s, t)
  PROVE  Pins(s, t) /\ s.next <= t.next
BY DEF Extends, Pins

LEMMA PinsExtends ==
  ASSUME NEW s, NEW t, NEW u, Pins(s, t), Extends(t, u), Open(u) = Open(t)
  PROVE  Pins(s, u)
BY DEF Extends, Pins, IsPinned

LEMMA StrippedType ==
  ASSUME NEW win, win \in [DOMAIN win -> Window]
  PROVE  /\ Stripped(win) \in [DOMAIN win -> Window] /\ Unpinned(Stripped(win)) = Stripped(win)
         /\ Unpinned(win) \in [DOMAIN win -> Window]
<1>1. ASSUME NEW i \in DOMAIN win
      PROVE  /\ [win[i] EXCEPT !.pinned = None] \in Window
             /\ Stripped(win)[i] \in Window /\ Stripped(win)[i].pinned = None
  <2>1. PICK w : w = win[i]
    OBVIOUS
  <2>2. PICK a : a = [w EXCEPT !.pinned = None]
    OBVIOUS
  <2>3. PICK b : b = [a EXCEPT !.account = None]
    OBVIOUS
  <2>4. PICK c : c = [b EXCEPT !.kept = NothingKept]
    OBVIOUS
  <2>5. a \in Window /\ a.pinned = None
    BY <2>1, <2>2, Written
  <2>6. b \in Window /\ b.pinned = None
    BY <2>3, <2>5, Written
  <2>7. c \in Window /\ c.pinned = None
    BY <2>4, <2>6, EmptyType, Written
  <2>8. Stripped(win)[i] = c
    BY <2>1, <2>2, <2>3, <2>4 DEF Stripped
  <2> QED BY <2>1, <2>2, <2>5, <2>7, <2>8
<1>2. Stripped(win) = [i \in DOMAIN win |-> Stripped(win)[i]]
  BY DEF Stripped
<1>3. Stripped(win) \in [DOMAIN win -> Window] /\ DOMAIN Stripped(win) = DOMAIN win
  BY <1>1, <1>2
<1>4. Unpinned(Stripped(win)) = Stripped(win)
  <2>1. PICK W : W = Stripped(win)
    OBVIOUS
  <2>2. \A i \in DOMAIN win : [W[i] EXCEPT !.pinned = None] = W[i]
    <3> TAKE i \in DOMAIN win
    <3>1. W[i] \in Window /\ W[i].pinned = None
      BY <1>1, <2>1
    <3> QED BY <3>1 DEF Window
  <2>3. Unpinned(W) = [i \in DOMAIN win |-> W[i]]
    BY <1>3, <2>1, <2>2 DEF Unpinned
  <2>4. W = [i \in DOMAIN win |-> W[i]]
    BY <1>2, <2>1
  <2> QED BY <2>1, <2>3, <2>4
<1>5. Unpinned(win) \in [DOMAIN win -> Window]
  BY <1>1 DEF Unpinned
<1> QED
  BY <1>3, <1>4, <1>5

LEMMA SnapshotGood ==
  ASSUME NEW s, Good(s), NEW p, PresetOK(p, s.next)
  PROVE  /\ Good(ApplySnapshot(s, p)) /\ Pins(s, ApplySnapshot(s, p))
         /\ ApplySnapshot(s, p).next = s.next
<1>1. PICK C : C = [i \in DOMAIN p.win |->
                      IF i \in PinnedIds(s) THEN [p.win[i] EXCEPT !.pinned = s.win[i].pinned]
                      ELSE p.win[i]]
  OBVIOUS
<1>2. PICK W : W = [i \in DOMAIN C |-> Fit(C[i], Shown(s, C[i]))]
  OBVIOUS
<1>3. PICK R : R = [i \in DOMAIN p.win |-> EmptyRuntime]
  OBVIOUS
<1>4. PICK Z, e : Z = p.z /\ e = {}
  OBVIOUS
<1>5. PICK u1 : u1 = [s EXCEPT !.win = W]
  OBVIOUS
<1>6. PICK u2 : u2 = [u1 EXCEPT !.z = Z]
  OBVIOUS
<1>7. PICK u3 : u3 = [u2 EXCEPT !.pend = e]
  OBVIOUS
<1>8. PICK u4 : u4 = [u3 EXCEPT !.max = None]
  OBVIOUS
<1>9. PICK u5 : u5 = [u4 EXCEPT !.rt = R]
  OBVIOUS
<1>10. PICK t : t = Persist(u5)
  OBVIOUS
<1>11. t = ApplySnapshot(s, p)
  <2>1. [s EXCEPT !.win = W, !.z = Z, !.pend = e, !.max = None, !.rt = R] = u5
    BY <1>5, <1>6, <1>7, <1>8, <1>9
  <2> QED BY <2>1, <1>1, <1>2, <1>3, <1>4, <1>10 DEF ApplySnapshot
<1>12. /\ t.win = W /\ t.sym = s.sym /\ t.rt = R /\ t.next = s.next
       /\ t.saved = Pic(t.win, t.z, t.sym, t.pend) /\ IsStore(t)
  <2>1. u1 = Store(W, s.z, s.sym, s.rt, s.max, s.pend, s.next, s.saved)
    BY <1>5, GoodParts, PutWin
  <2>2. u2 = Store(W, Z, s.sym, s.rt, s.max, s.pend, s.next, s.saved)
    BY <1>6, <2>1, PutZ
  <2>3. u3 = Store(W, Z, s.sym, s.rt, s.max, e, s.next, s.saved)
    BY <1>7, <2>2, PutPend
  <2>4. u4 = Store(W, Z, s.sym, s.rt, None, e, s.next, s.saved)
    BY <1>8, <2>3, PutMax
  <2>5. u5 = Store(W, Z, s.sym, R, None, e, s.next, s.saved)
    BY <1>9, <2>4, PutRt
  <2>6. t = Store(W, Z, s.sym, R, None, e, s.next, Pic(W, Z, s.sym, e))
    BY <1>10, <2>5, Persisted
  <2> QED BY <2>6, Fields
<1>13. ASSUME NEW i \in DOMAIN p.win
       PROVE  /\ W[i] \in Window
              /\ i \in PinnedIds(s) => W[i].pinned = s.win[i].pinned
  <2>1. PICK w : w = p.win[i]
    OBVIOUS
  <2>2. w \in Window
    BY <2>1 DEF PresetOK
  <2>3. C[i] \in Window /\ (i \in PinnedIds(s) => C[i].pinned = s.win[i].pinned)
    <3>1. CASE i \in PinnedIds(s)
      <4>1. PICK x : x = s.win[i].pinned
        OBVIOUS
      <4>2. i \in Open(s)
        BY <3>1 DEF PinnedIds
      <4>3. x \in Symbol \cup {None}
        BY <4>1, <4>2, GoodParts DEF Window
      <4>4. C[i] = [w EXCEPT !.pinned = x]
        BY <1>1, <2>1, <3>1, <4>1
      <4> QED BY <4>1, <4>3, <4>4, <2>2, Written
    <3>2. CASE i \notin PinnedIds(s)
      BY <1>1, <2>1, <2>2, <3>2
    <3> QED BY <3>1, <3>2
  <2>4. W[i] = Fit(C[i], Shown(s, C[i]))
    BY <1>1, <1>2
  <2> QED BY <2>3, <2>4, FitKeeps
<1>14. W \in [DOMAIN p.win -> Window] /\ R \in [DOMAIN p.win -> Runtime]
  <2>1. W = [i \in DOMAIN p.win |-> W[i]]
    BY <1>1, <1>2
  <2>2. W \in [DOMAIN p.win -> Window]
    BY <2>1, <1>13
  <2> QED BY <2>2, <1>3, EmptyType
<1>15. Open(t) = DOMAIN p.win /\ DOMAIN p.win \subseteq 1..(s.next - 1)
  BY <1>12, <1>14 DEF Open, PresetOK
<1>16. \A i \in OpenOf(t, "chart") : FreshAt(t, i)
  BY <1>3, <1>12, <1>15, FreshEmpty DEF OpenOf
<1>17. Saves(s, t)
  BY <1>12 DEF Saves
<1>18. /\ t.win \in [Open(t) -> Window] /\ Open(t) \subseteq 1..(t.next - 1)
       /\ t.next \in Nat \ {0} /\ s.next <= t.next
       /\ t.sym \in [Groups -> Symbol \cup {None}] /\ t.rt \in [Open(t) -> Runtime]
  BY <1>12, <1>14, <1>15, GoodParts
<1>19. Good(t)
  BY <1>12, <1>16, <1>17, <1>18, Update
<1>20. Pins(s, t)
  BY <1>12, <1>13, <1>15 DEF Pins, PinnedIds
<1> QED
  BY <1>11, <1>12, <1>19, <1>20

LEMMA PresetGood ==
  ASSUME NEW s, Good(s), NEW p, PresetOK(p, s.next)
  PROVE  /\ Good(ApplyPreset(s, p)) /\ Pins(s, ApplyPreset(s, p))
         /\ s.next <= ApplyPreset(s, p).next
<1>1. CASE p.win = <<>>
  <2>1. PICK n : n = s.next + 1
    OBVIOUS
  <2>2. n \in Nat \ {0} /\ s.next <= n /\ s.next \in 1..(n - 1) /\ 1..(s.next - 1) \subseteq 1..(n - 1)
    BY <2>1, GoodParts
  <2>3. PICK u : u = [s EXCEPT !.next = n]
    OBVIOUS
  <2>4. u = Store(s.win, s.z, s.sym, s.rt, s.max, s.pend, n, s.saved)
    BY <2>3, GoodParts, PutNext
  <2>5. /\ u.win = s.win /\ u.z = s.z /\ u.sym = s.sym /\ u.rt = s.rt /\ u.next = n
        /\ u.saved = s.saved /\ IsStore(u) /\ Open(u) = Open(s)
    BY <2>4, Fields DEF Open
  <2>6. Good(u)
    <3>1. \A i \in OpenOf(u, "chart") : FreshAt(u, i)
      <4> TAKE i \in OpenOf(u, "chart")
      <4>1. FreshAt(s, i) /\ View(u, i) = View(s, i)
        BY <2>5 DEF Good, Fresh, OpenOf, View, Shown
      <4> QED BY <4>1, <2>5, FreshKept
    <3>2. Saves(s, u)
      BY <2>5 DEF Saves
    <3>3. /\ u.win \in [Open(u) -> Window] /\ Open(u) \subseteq 1..(u.next - 1)
          /\ u.next \in Nat \ {0} /\ s.next <= u.next
          /\ u.sym \in [Groups -> Symbol \cup {None}] /\ u.rt \in [Open(u) -> Runtime]
      BY <2>2, <2>5, GoodParts
    <3> QED BY <3>1, <3>2, <3>3, <2>5, Update
  <2>7. PICK w : w = [kind |-> "chart", group |-> 1, pinned |-> None, tf |-> "1m",
                      account |-> None, source |-> None, kept |-> NothingKept]
    OBVIOUS
  <2>8. w \in Window
    BY <2>7, ConstantTypes, Names, EmptyType DEF Window
  <2>9. PICK q : q = Factory(s.next)
    OBVIOUS
  <2>10. q.win = [i \in {s.next} |-> w]
    BY <2>7, <2>9 DEF Factory
  <2>11. PresetOK(q, u.next)
    BY <2>2, <2>5, <2>8, <2>10 DEF PresetOK
  <2>12. PICK t : t = ApplySnapshot(u, q)
    OBVIOUS
  <2>13. Good(t) /\ Pins(u, t) /\ t.next = n
    BY <2>5, <2>6, <2>11, <2>12, SnapshotGood
  <2>14. Pins(s, t)
    BY <2>5, <2>13 DEF Pins
  <2>15. t = ApplyPreset(s, p)
    BY <1>1, <2>1, <2>3, <2>9, <2>12 DEF ApplyPreset
  <2> QED BY <2>2, <2>13, <2>14, <2>15
<1>2. CASE p.win # <<>>
  <2>1. PICK t : t = ApplySnapshot(s, p)
    OBVIOUS
  <2>2. Good(t) /\ Pins(s, t) /\ t.next = s.next
    BY <2>1, SnapshotGood
  <2>3. PICK u : u = PinWindows(t, p.flagged)
    OBVIOUS
  <2>4. Good(u) /\ Extends(t, u) /\ Open(u) = Open(t) /\ u.next = t.next
    BY <2>2, <2>3, PinWindowsGood
  <2>5. Pins(s, u)
    BY <2>2, <2>4, PinsExtends
  <2>6. u = ApplyPreset(s, p)
    BY <1>2, <2>1, <2>3 DEF ApplyPreset
  <2> QED BY <2>2, <2>4, <2>5, <2>6, GoodParts
<1> QED
  BY <1>1, <1>2

\* A load that reads the windows w of the picture p, and takes storage for the
\* storage of the tab.
LEMMA LoadGood ==
  ASSUME NEW p, NEW next \in Nat \ {0}, IsPicture(p, next), NEW storage, NEW inherited, NEW linked,
         storage # None =>
           /\ IsPicture(storage, next) /\ storage.z = p.z /\ storage.sym = p.sym
           /\ ReadStorage(p, inherited, linked).win = Fitted(storage)
  PROVE  /\ Good(Hydrated(ReadStorage(p, inherited, linked), next, storage))
         /\ Hydrated(ReadStorage(p, inherited, linked), next, storage).next = next
         /\ Open(Hydrated(ReadStorage(p, inherited, linked), next, storage)) = DOMAIN p.win
         /\ Hydrated(ReadStorage(p, inherited, linked), next, storage).win
              = ReadStorage(p, inherited, linked).win
<1>1. PICK read : read = ReadStorage(p, inherited, linked)
  OBVIOUS
<1>2. PICK win : win = IF inherited /\ linked THEN Unpinned(p.win) ELSE p.win
  OBVIOUS
<1>3. PICK W : W = [i \in DOMAIN win |-> Fit(win[i], Shown(p, win[i]))]
  OBVIOUS
<1>4. read.win = W /\ read.z = p.z /\ read.sym = p.sym
  BY <1>1, <1>2, <1>3 DEF ReadStorage
<1>5. PICK R : R = [i \in DOMAIN read.win |-> EmptyRuntime]
  OBVIOUS
<1>6. PICK t : t = Hydrated(read, next, storage)
  OBVIOUS
<1>7. t = Store(W, read.z, read.sym, R, None, read.pend, next, storage)
  BY <1>4, <1>5, <1>6 DEF Hydrated, Store
<1>8. /\ t.win = W /\ t.z = p.z /\ t.sym = p.sym /\ t.rt = R /\ t.next = next
      /\ t.saved = storage /\ IsStore(t)
  BY <1>4, <1>7, Fields
<1>9. win \in [DOMAIN p.win -> Window]
  <2>1. p.win \in [DOMAIN p.win -> Window]
    BY DEF IsPicture
  <2> QED BY <2>1, <1>2, StrippedType
<1>10. W \in [DOMAIN p.win -> Window]
  <2>1. \A i \in DOMAIN p.win : Fit(win[i], Shown(p, win[i])) \in Window
    BY <1>9, FitKeeps
  <2> QED BY <2>1, <1>3, <1>9
<1>11. Open(t) = DOMAIN p.win /\ DOMAIN W = DOMAIN p.win /\ R \in [DOMAIN p.win -> Runtime]
  BY <1>4, <1>5, <1>8, <1>10, EmptyType DEF Open
<1>12. IsPicture(t, t.next)
  <2>1. /\ p.sym \in [Groups -> Symbol \cup {None}] /\ DOMAIN p.win \subseteq 1..(next - 1)
    BY DEF IsPicture
  <2> QED BY <2>1, <1>8, <1>10, <1>11 DEF IsPicture
<1>13. StoreOK(t)
  BY <1>8, <1>11, <1>12 DEF StoreOK
<1>14. Fresh(t)
  <2> SUFFICES ASSUME NEW i \in OpenOf(t, "chart") PROVE FreshAt(t, i)
    BY DEF Fresh
  <2>1. t.rt[i] = EmptyRuntime
    BY <1>4, <1>5, <1>8, <1>11 DEF OpenOf
  <2> QED BY <2>1, FreshEmpty
<1>15. Stored(t)
  BY <1>1, <1>4, <1>8 DEF Stored
<1> QED
  BY <1>1, <1>4, <1>6, <1>8, <1>11, <1>13, <1>14, <1>15 DEF Good

LEMMA SeededGood ==
  ASSUME NEW s, Good(s), NEW address
  PROVE  /\ Good(Seeded(s, address)) /\ Extends(s, Seeded(s, address))
<1>1. CASE address \in Symbol
  <2>1. PICK t : t = Activate(s, address)
    OBVIOUS
  <2>2. Good(t) /\ Extends(s, t)
    BY <1>1, <2>1, ActivateGood
  <2>3. Good(RestorePins(t)) /\ Extends(t, RestorePins(t))
    BY <2>2, RestoreGood
  <2>4. Seeded(s, address) = RestorePins(t)
    BY <1>1, <2>1 DEF Seeded
  <2> QED BY <2>2, <2>3, <2>4, ExtendsTwice
<1>2. CASE address \notin Symbol
  <2>1. Seeded(s, address) = s
    BY <1>2 DEF Seeded
  <2> QED BY <2>1, SelfExtends
<1> QED
  BY <1>1, <1>2

LEMMA OwnGood ==
  ASSUME NEW s, Good(s), s.saved # None, NEW linked, NEW address
  PROVE  LET t == Seeded(Hydrated(ReadStorage(s.saved, FALSE, linked), s.next, s.saved), address)
         IN  Good(t) /\ s.next <= t.next /\ Pins(s, t)
<1>1. PICK p : p = s.saved
  OBVIOUS
<1>2. PICK read : read = ReadStorage(p, FALSE, linked)
  OBVIOUS
<1>3. read.win = Fitted(p)
  BY <1>2 DEF ReadStorage, Fitted
<1>4. IsPicture(p, s.next) /\ s.next \in Nat \ {0}
  BY <1>1 DEF Good, StoreOK
<1>5. PICK h : h = Hydrated(read, s.next, p)
  OBVIOUS
<1>6. PICK no : no = FALSE
  OBVIOUS
<1>7. Good(h) /\ h.next = s.next /\ Open(h) = DOMAIN p.win /\ h.win = Fitted(p)
  <2>1. read = ReadStorage(p, no, linked)
    BY <1>2, <1>6
  <2>2. /\ ReadStorage(p, no, linked).win = Fitted(p)
    BY <1>3, <2>1
  <2>3. /\ Good(Hydrated(ReadStorage(p, no, linked), s.next, p))
        /\ Hydrated(ReadStorage(p, no, linked), s.next, p).next = s.next
        /\ Open(Hydrated(ReadStorage(p, no, linked), s.next, p)) = DOMAIN p.win
        /\ Hydrated(ReadStorage(p, no, linked), s.next, p).win = ReadStorage(p, no, linked).win
    BY <1>4, <2>2, LoadGood
  <2> QED BY <2>1, <2>2, <2>3, <1>5
<1>8. Pins(s, h)
  <2>1. \A i \in DOMAIN p.win : Fitted(p)[i].pinned = p.win[i].pinned
    <3>1. \A i \in DOMAIN p.win : p.win[i] \in Window
      BY <1>4 DEF IsPicture
    <3> QED BY <3>1, FitKeeps DEF Fitted
  <2>2. p.win = s.win \/ s.win = Fitted(p)
    BY <1>1 DEF Good, Stored
  <2> QED BY <2>1, <2>2, <1>7 DEF Pins
<1>9. PICK t : t = Seeded(h, address)
  OBVIOUS
<1>10. Good(t) /\ Extends(h, t)
  BY <1>7, <1>9, SeededGood
<1>11. Pins(s, t) /\ s.next <= t.next
  <2>1. h.next <= t.next /\ Open(h) \subseteq Open(t)
    BY <1>10 DEF Extends
  <2>2. Open(s) = Open(h)
    <3>1. p.win = s.win \/ s.win = Fitted(p)
      BY <1>1 DEF Good, Stored
    <3> QED BY <3>1, <1>7 DEF Open, Fitted
  <2>3. \A i \in Open(s) : IsPinned(s.win[i]) => t.win[i].pinned = s.win[i].pinned
    BY <2>1, <2>2, <1>8, <1>10 DEF Pins, Extends, IsPinned
  <2> QED BY <2>1, <2>3, <1>7 DEF Pins
<1>12. t = Seeded(Hydrated(ReadStorage(s.saved, FALSE, linked), s.next, s.saved), address)
  BY <1>1, <1>2, <1>5, <1>9
<1> QED
  BY <1>10, <1>11, <1>12

LEMMA InheritedGood ==
  ASSUME NEW p, NEW next \in Nat \ {0}, IsPicture(p, next), NEW linked, NEW address
  PROVE  LET t == Seeded(Hydrated(ReadStorage(p, TRUE, linked), next, None), address)
         IN  Good(t) /\ next <= t.next
<1>1. PICK yes : yes = TRUE
  OBVIOUS
<1>2. PICK h : h = Hydrated(ReadStorage(p, yes, linked), next, None)
  OBVIOUS
<1>3. Good(h) /\ h.next = next
  BY <1>2, LoadGood
<1>4. PICK t : t = Seeded(h, address)
  OBVIOUS
<1>5. Good(t) /\ h.next <= t.next
  BY <1>3, <1>4, SeededGood DEF Extends
<1>6. t = Seeded(Hydrated(ReadStorage(p, TRUE, linked), next, None), address)
  BY <1>1, <1>2, <1>4
<1> QED
  BY <1>3, <1>5, <1>6

LEMMA SentGood ==
  ASSUME NEW s, Good(s), NEW address
  PROVE  LET t == Seeded(Hydrated(ReadStorage(Transfer(s), TRUE, TRUE), s.next, Transfer(s)), address)
         IN  Good(t) /\ s.next <= t.next
<1>1. PICK p : p = Transfer(s)
  OBVIOUS
<1>2. PICK yes : yes = TRUE
  OBVIOUS
<1>3. p.win = Stripped(s.win) /\ p.sym = s.sym
  BY <1>1 DEF Transfer
<1>4. p.win \in [Open(s) -> Window] /\ DOMAIN p.win = Open(s) /\ Unpinned(p.win) = p.win
  <2>1. s.win \in [DOMAIN s.win -> Window] /\ Open(s) = DOMAIN s.win
    BY GoodParts
  <2>2. Stripped(s.win) \in [DOMAIN s.win -> Window] /\ Unpinned(Stripped(s.win)) = Stripped(s.win)
    BY <2>1, StrippedType
  <2> QED BY <2>1, <2>2, <1>3
<1>5. IsPicture(p, s.next) /\ s.next \in Nat \ {0}
  BY <1>3, <1>4, GoodParts DEF IsPicture
<1>6. ReadStorage(p, yes, yes).win = Fitted(p)
  <2>1. ReadStorage(p, TRUE, TRUE).win = Fitted(p)
    BY <1>4 DEF ReadStorage, Fitted
  <2> QED BY <2>1, <1>2
<1>7. PICK h : h = Hydrated(ReadStorage(p, yes, yes), s.next, p)
  OBVIOUS
<1>8. Good(h) /\ h.next = s.next
  BY <1>5, <1>6, <1>7, LoadGood
<1>9. PICK t : t = Seeded(h, address)
  OBVIOUS
<1>10. Good(t) /\ h.next <= t.next
  BY <1>8, <1>9, SeededGood DEF Extends
<1>11. t = Seeded(Hydrated(ReadStorage(Transfer(s), TRUE, TRUE), s.next, Transfer(s)), address)
  BY <1>1, <1>2, <1>7, <1>9
<1> QED
  BY <1>8, <1>10, <1>11

LEMMA CaptureOK ==
  ASSUME NEW s, Good(s)
  PROVE  PresetOK(Capture(s), s.next)
<1>1. Capture(s).win = Stripped(s.win)
  BY DEF Capture
<1>2. s.win \in [DOMAIN s.win -> Window] /\ Open(s) = DOMAIN s.win /\ Open(s) \subseteq 1..(s.next - 1)
  BY GoodParts
<1>3. Stripped(s.win) \in [DOMAIN s.win -> Window]
  BY <1>2, StrippedType
<1>4. DOMAIN Stripped(s.win) = DOMAIN s.win
  BY <1>3
<1> QED
  BY <1>1, <1>2, <1>3, <1>4 DEF PresetOK

-----------------------------------------------------------------------------
(* The steps. *)

LEMMA LaterPreset ==
  ASSUME NEW p, NEW m \in Nat, NEW n \in Nat, m <= n
  PROVE  /\ PresetOK(p, m) => PresetOK(p, n)
         /\ IsPicture(p, m) => IsPicture(p, n)
BY DEF PresetOK, IsPicture

LEMMA GoodNext ==
  ASSUME NEW s, Good(s)
  PROVE  s.next \in Nat \ {0}
BY GoodParts

\* A step to a good store that takes no identifier back.
LEMMA Kept ==
  ASSUME IInv, NEW s, ws' = s, Good(s), ws.next <= s.next, url' \in Symbol \cup {"view", None},
         preset' = preset
  PROVE  IInv'
<1>1. ws.next \in Nat \ {0} /\ s.next \in Nat \ {0}
  BY GoodNext DEF IInv
<1>2. FirstId <= s.next
  BY <1>1, SeedsAssumption DEF IInv
<1>3. preset' # None => PresetOK(preset', s.next)
  BY <1>1, LaterPreset DEF IInv
<1>4. Good(ws')
  OBVIOUS
<1>5. FirstId <= ws'.next /\ (preset' # None => PresetOK(preset', ws'.next))
  BY <1>2, <1>3
<1> QED
  BY <1>4, <1>5 DEF IInv

\* A command that keeps the pins.
LEMMA Commanded ==
  ASSUME IInv, NEW s, Command(s), Good(s), Extends(ws, s)
  PROVE  IInv' /\ Pins(ws, ws')
<1>1. ws' = s /\ url' = url /\ preset' = preset
  BY DEF Command, Does
<1>2. Pins(ws, s) /\ ws.next <= s.next
  BY ExtendsPins
<1>3. IInv'
  BY <1>1, <1>2, Kept DEF IInv
<1> QED
  BY <1>1, <1>2, <1>3

\* A command that changes what is remembered, or the order of the windows, only.
LEMMA Noticed ==
  ASSUME IInv, NEW s, Command(s), Good(s), Same(ws, s)
  PROVE  IInv' /\ Pins(ws, ws')
<1>1. Extends(ws, s)
  BY SameExtends DEF IInv
<1> QED
  BY <1>1, Commanded

LEMMA Initial ==
  ASSUME Init
  PROVE  IInv
<1>1. PICK seed \in Seeds : ws = Hydrated(ReadStorage(seed, TRUE, FALSE), FirstId, None)
  BY DEF Init
<1>2. PICK yes, no : yes = TRUE /\ no = FALSE
  OBVIOUS
<1>3. FirstId \in Nat \ {0} /\ IsPicture(seed, FirstId)
  BY SeedsAssumption
<1>4. ws = Hydrated(ReadStorage(seed, yes, no), FirstId, None)
  BY <1>1, <1>2
<1>5. Good(ws) /\ ws.next = FirstId
  BY <1>3, <1>4, LoadGood
<1>6. url = None /\ preset = None
  BY DEF Init
<1> QED
  BY <1>3, <1>5, <1>6 DEF IInv

\* The commands on one window.
LEMMA WindowStep ==
  ASSUME IInv, Focus \/ Maximize \/ Add \/ PickFrame \/ Bind \/ Unbind \/ PickAccount \/ ShowExecutions
  PROVE  IInv' /\ Pins(ws, ws')
<1>0. Good(ws)
  BY DEF IInv
<1>1. CASE Focus
  <2>1. PICK i : Command(FocusWindow(ws, i))
    BY <1>1 DEF Focus
  <2> QED BY <2>1, <1>0, FocusGood, Noticed
<1>2. CASE Maximize
  <2>1. PICK i : Command(ToggleMaximize(ws, i))
    BY <1>2 DEF Maximize
  <2> QED BY <2>1, <1>0, MaximizeGood, Noticed
<1>3. CASE Add
  <2>1. PICK kind \in Addable, pref \in {"1m", "5s"} : Command(AddWindow(ws, kind, pref))
    BY <1>3 DEF Add
  <2>2. kind \in Kinds /\ pref \in Frames \cup {None}
    BY WorkspaceAssumption, Names
  <2> QED BY <2>1, <2>2, <1>0, AddGood, Commanded
<1>4. CASE PickFrame
  <2>1. PICK i \in Open(ws), tf \in Frames \cup {None} : Command(SetTimeframe(ws, i, tf))
    BY <1>4 DEF PickFrame, OpenOf
  <2> QED BY <2>1, <1>0, FrameGood, Commanded
<1>5. CASE Bind
  <2>1. PICK i \in Open(ws), o \in Open(ws) : Command(LinkExecutions(ws, i, o))
    BY <1>5 DEF Bind, OpenOf
  <2> QED BY <2>1, <1>0, LinkGood, Commanded
<1>6. CASE PickAccount
  <2>1. PICK o \in Open(ws), a \in Account : Command(SetOrderAccount(ws, o, a))
    BY <1>6 DEF PickAccount, OpenOf
  <2> QED BY <2>1, <1>0, AccountGood, Commanded
<1>7. CASE ShowExecutions
  <2>1. PICK o \in Open(ws), a \in Account : Command(OpenExecutions(ws, o, a))
    BY <1>7 DEF ShowExecutions, OpenOf
  <2> QED BY <2>1, <1>0, OpenExecutionsGood, Commanded
<1>8. CASE Unbind
  <2>1. PICK i \in Open(ws) : Command(UnlinkExecutions(ws, i))
    BY <1>8 DEF Unbind, Unlink
  <2> QED BY <2>1, <1>0, UnlinkGood, Commanded
<1> QED
  BY <1>1, <1>2, <1>3, <1>4, <1>5, <1>6, <1>7, <1>8

LEMMA PickGroupStep ==
  ASSUME IInv, PickGroup
  PROVE  IInv' /\ Pins(ws, ws')
<1>1. PICK i \in Open(ws), g \in Groups : Command(SetWindowGroup(ws, i, g))
  BY DEF PickGroup
<1>2. Good(ws) /\ Unfit(ws) = {}
  BY <1>1 DEF IInv, Command, Does
<1>3. Fit(ws.win[i], Shown(ws, ws.win[i])) = ws.win[i]
  <2>1. CASE ws.win[i].kind = "chart"
    BY <2>1, <1>2 DEF Unfit, OpenOf
  <2>2. CASE ws.win[i].kind # "chart"
    BY <2>2 DEF Fit
  <2> QED BY <2>1, <2>2
<1> QED
  BY <1>1, <1>2, <1>3, SetGroupGood, Commanded

\* The commands on what a chart remembers.
LEMMA ChartStep ==
  ASSUME IInv, Pan \/ Jump \/ Disk \/ LeaveRange
  PROVE  IInv' /\ Pins(ws, ws')
<1>0. Good(ws)
  BY DEF IInv
<1>1. CASE Pan
  <2>1. PICK i \in Open(ws) : Command(ExtendRange(ws, i))
    BY <1>1 DEF Pan, OpenOf
  <2> QED BY <2>1, <1>0, ExtendGood, Noticed
<1>2. CASE Jump
  <2>1. PICK i \in Open(ws) : Command(ResetRange(ws, i))
    BY <1>2 DEF Jump, OpenOf
  <2> QED BY <2>1, <1>0, ResetGood, Noticed
<1>3. CASE Disk
  <2>1. PICK i \in Open(ws), on \in BOOLEAN : Command(SetDisk(ws, i, on))
    BY <1>3 DEF Disk, OpenOf
  <2> QED BY <2>1, <1>0, DiskGood, Noticed
<1>4. CASE LeaveRange
  <2>1. PICK no : no \in BOOLEAN /\ no = FALSE
    OBVIOUS
  <2>2. PICK i \in Open(ws) : Command(SetSecondRange(ws, i, no))
    BY <1>4, <2>1 DEF LeaveRange, OpenOf
  <2> QED BY <2>1, <2>2, <1>0, SecondRangeGood, Noticed
<1> QED
  BY <1>1, <1>2, <1>3, <1>4

\* The navigations.
LEMMA NavigationStep ==
  ASSUME IInv, Click \/ Inspect \/ Trades \/ PickSaved
  PROVE  IInv' /\ Pins(ws, ws')
<1>0. Good(ws)
  BY DEF IInv
<1>1. CASE Click
  <2>1. PICK y \in Symbol : Command(Activate(ws, y))
    BY <1>1 DEF Click
  <2> QED BY <2>1, <1>0, ActivateGood, Commanded
<1>2. CASE Inspect
  <2>1. PICK i \in Open(ws) : Command(OpenSecondRange(ws, i))
    BY <1>2 DEF Inspect, InspectSeconds
  <2> QED BY <2>1, <1>0, OpenSecondRangeGood, Commanded
<1>3. CASE Trades
  <2>1. PICK o \in Open(ws) : Command(OpenTrade(ws, o))
    BY <1>3 DEF Trades, OpenOf
  <2> QED BY <2>1, <1>0, OpenTradeGood, Commanded
<1>4. CASE PickSaved
  <2>1. PICK y \in Symbol, tf \in Frames : Command(OpenSaved(ws, y, tf))
    BY <1>4 DEF PickSaved, Symbol, Frames
  <2> QED BY <2>1, <1>0, OpenSavedGood, Commanded
<1> QED
  BY <1>1, <1>2, <1>3, <1>4

LEMMA CloseStep ==
  ASSUME IInv, Close
  PROVE  IInv' /\ Pins(ws, ws')
<1>1. PICK i \in Open(ws) : Command(CloseWindow(ws, i))
  BY DEF Close
<1>2. PICK t : t = CloseWindow(ws, i)
  OBVIOUS
<1>3. Good(ws) /\ ws' = t /\ url' = url /\ preset' = preset
  BY <1>1, <1>2 DEF IInv, Command, Does
<1>4. /\ Good(t) /\ Open(t) = Open(ws) \ {i} /\ t.next = ws.next
      /\ \A j \in Open(ws) \ {i} : t.win[j].pinned = ws.win[j].pinned
  BY <1>2, <1>3, CloseGood
<1>5. ws.next <= t.next
  BY <1>3, <1>4, GoodParts
<1>6. IInv'
  BY <1>3, <1>4, <1>5, Kept DEF IInv
<1>7. Pins(ws, t)
  BY <1>4 DEF Pins
<1> QED
  BY <1>3, <1>6, <1>7

\* What a drop, the pin button and the release of all pins keep.
LEMMA UserPins ==
  ASSUME IInv, NEW s, Does(s), Good(s), Open(s) = Open(ws), s.next = ws.next
  PROVE  IInv' /\ ws' = s
<1>1. ws' = s /\ url' = url /\ preset' = preset
  BY DEF Does
<1>2. ws.next <= s.next
  BY GoodParts DEF IInv
<1> QED
  BY <1>1, <1>2, Kept DEF IInv

LEMMA DropStep ==
  ASSUME IInv, NEW i, NEW y \in Symbol, DropOn(i, y)
  PROVE  /\ IInv'
         /\ \A j \in Open(ws) : j # i /\ IsPinned(ws.win[j]) => ws'.win[j].pinned = ws.win[j].pinned
<1>1. PICK t : t = SetWindowSymbol(ws, i, y)
  OBVIOUS
<1>2. Good(ws) /\ i \in Open(ws) /\ Does(t)
  BY <1>1 DEF IInv, DropOn, Command
<1>3. /\ Good(t) /\ Open(t) = Open(ws) /\ t.next = ws.next
      /\ \A j \in Open(ws) \ {i} : IsPinned(ws.win[j]) => t.win[j].pinned = ws.win[j].pinned
  BY <1>1, <1>2, SetWindowSymbolGood
<1> QED
  BY <1>2, <1>3, UserPins

LEMMA PinStep ==
  ASSUME IInv, NEW i, PinButton(i)
  PROVE  IInv' /\ \A j \in Open(ws) : j # i => ws'.win[j].pinned = ws.win[j].pinned
<1>1. PICK t : t = TogglePin(ws, i)
  OBVIOUS
<1>2. Good(ws) /\ i \in Open(ws) /\ Does(t)
  BY <1>1 DEF IInv, PinButton, Command
<1>3. /\ Good(t) /\ Open(t) = Open(ws) /\ t.next = ws.next
      /\ \A j \in Open(ws) : j # i => t.win[j].pinned = ws.win[j].pinned
  BY <1>1, <1>2, TogglePinGood
<1> QED
  BY <1>2, <1>3, UserPins

LEMMA ReleaseStep ==
  ASSUME IInv, ReleaseAll
  PROVE  IInv'
<1>1. PICK t : t = UnpinAll(ws)
  OBVIOUS
<1>2. Good(ws) /\ Does(t)
  BY <1>1 DEF IInv, ReleaseAll
<1> QED
  BY <1>1, <1>2, UnpinGood, UserPins

\* The presets, the chart's own effect, the saved view of the address.
LEMMA PresetStep ==
  ASSUME IInv, SavePreset \/ UsePreset
  PROVE  IInv' /\ Pins(ws, ws')
<1>0. Good(ws) /\ ws.next \in Nat
  BY GoodNext DEF IInv
<1>1. CASE SavePreset
  <2>1. ws' = ws /\ url' = url /\ preset' = Capture(ws)
    BY <1>1 DEF SavePreset
  <2>2. PresetOK(preset', ws.next)
    BY <1>0, <2>1, CaptureOK
  <2>3. IInv'
    BY <2>1, <2>2 DEF IInv
  <2>4. Pins(ws, ws)
    BY DEF Pins
  <2> QED BY <2>1, <2>3, <2>4
<1>2. CASE UsePreset
  <2>1. PICK t : t = ApplyPreset(ws, preset)
    OBVIOUS
  <2>2. preset # None /\ ws' = t /\ url' = url /\ preset' = preset
    BY <1>2, <2>1 DEF UsePreset, Command, Does
  <2>3. Good(t) /\ Pins(ws, t) /\ ws.next <= t.next
    BY <1>0, <2>1, <2>2, PresetGood DEF IInv
  <2>4. IInv'
    BY <2>2, <2>3, Kept DEF IInv
  <2> QED BY <2>2, <2>3, <2>4
<1> QED
  BY <1>1, <1>2

LEMMA EffectStep ==
  ASSUME IInv, Heal \/ ViewArrives \/ ClickInVain
  PROVE  IInv' /\ Pins(ws, ws')
<1>0. Good(ws)
  BY DEF IInv
<1>1. ASSUME NEW t, Good(t), Extends(ws, t), ws' = t, url' = url, preset' = preset
      PROVE  IInv' /\ Pins(ws, ws')
  <2>1. Pins(ws, t) /\ ws.next <= t.next
    BY <1>1, ExtendsPins
  <2>2. IInv'
    BY <1>1, <2>1, Kept DEF IInv
  <2> QED BY <1>1, <2>1, <2>2
<1>2. CASE Heal
  <2>1. PICK i \in Unfit(ws) :
          /\ ws' = SetTimeframe(ws, i, Fit(ws.win[i], Shown(ws, ws.win[i])).tf)
          /\ url' = url /\ preset' = preset
    BY <1>2 DEF Heal
  <2>2. PICK f, t : f = Fit(ws.win[i], Shown(ws, ws.win[i])).tf /\ t = SetTimeframe(ws, i, f)
    OBVIOUS
  <2>3. i \in Open(ws)
    BY DEF Unfit, OpenOf
  <2>4. f \in Frames \cup {None}
    <3>1. ws.win[i] \in Window
      BY <1>0, <2>3, GoodParts
    <3>2. Fit(ws.win[i], Shown(ws, ws.win[i])) \in Window
      BY <3>1, FitKeeps
    <3> QED BY <3>2, <2>2 DEF Window
  <2>5. Good(t) /\ Extends(ws, t)
    BY <1>0, <2>2, <2>3, <2>4, FrameGood
  <2> QED BY <1>1, <2>1, <2>2, <2>5
<1>3. CASE ViewArrives
  <2>1. PICK y \in Symbol, tf \in Frames :
          /\ ws' = RestorePins(OpenSaved(ws, y, tf)) /\ url' = url /\ preset' = preset
    BY <1>3 DEF ViewArrives, Symbol, Frames
  <2>2. PICK s, t : s = OpenSaved(ws, y, tf) /\ t = RestorePins(s)
    OBVIOUS
  <2>3. Good(s) /\ Extends(ws, s)
    BY <1>0, <2>2, OpenSavedGood
  <2>4. Good(t) /\ Extends(s, t)
    BY <2>2, <2>3, RestoreGood
  <2>5. Extends(ws, t)
    BY <1>0, <2>3, <2>4, ExtendsTwice
  <2> QED BY <1>1, <2>1, <2>2, <2>4, <2>5
<1>4. CASE ClickInVain
  <2>1. ws' = ws /\ url' = url /\ preset' = preset
    BY <1>4 DEF ClickInVain
  <2> QED BY <1>0, <1>1, <2>1, SelfExtends
<1> QED
  BY <1>2, <1>3, <1>4

\* The loads of the page and the new tabs.
LEMMA ReloadStep ==
  ASSUME IInv, Reload
  PROVE  IInv' /\ (ws.saved # None => Pins(ws, ws'))
<1>0. Good(ws) /\ ws.next \in Nat \ {0} /\ url' = url /\ preset' = preset
  BY GoodNext DEF IInv, Reload
<1>1. PICK seed, own, from, linked :
        /\ seed \in Seeds /\ own = (ws.saved # None) /\ linked = (url # None)
        /\ from = IF own THEN ws.saved ELSE seed
        /\ ws' = Seeded(Hydrated(ReadStorage(from, ~own, linked), ws.next, ws.saved), url)
  BY DEF Reload
<1>2. CASE ws.saved # None
  <2>1. ReadStorage(from, ~own, linked) = ReadStorage(ws.saved, FALSE, linked)
    BY <1>1, <1>2 DEF ReadStorage
  <2>2. PICK t : t = Seeded(Hydrated(ReadStorage(ws.saved, FALSE, linked), ws.next, ws.saved), url)
    OBVIOUS
  <2>3. ws' = t
    BY <1>1, <2>1, <2>2
  <2>4. Good(t) /\ ws.next <= t.next /\ Pins(ws, t)
    BY <1>0, <1>2, <2>2, OwnGood
  <2>5. IInv'
    BY <1>0, <2>3, <2>4, Kept DEF IInv
  <2> QED BY <2>3, <2>4, <2>5
<1>3. CASE ws.saved = None
  <2>1. ReadStorage(from, ~own, linked) = ReadStorage(seed, TRUE, linked)
    BY <1>1, <1>3 DEF ReadStorage
  <2>2. PICK t : t = Seeded(Hydrated(ReadStorage(seed, TRUE, linked), ws.next, None), url)
    OBVIOUS
  <2>3. ws' = t
    BY <1>1, <1>3, <2>1, <2>2
  <2>4. IsPicture(seed, ws.next)
    <3>1. IsPicture(seed, FirstId) /\ FirstId \in Nat
      BY <1>1, SeedsAssumption
    <3>2. FirstId <= ws.next /\ ws.next \in Nat
      BY <1>0 DEF IInv
    <3> QED BY <3>1, <3>2, LaterPreset
  <2>5. Good(t) /\ ws.next <= t.next
    BY <1>0, <2>2, <2>4, InheritedGood
  <2>6. IInv'
    BY <1>0, <2>3, <2>5, Kept DEF IInv
  <2> QED BY <2>6, <1>3
<1> QED
  BY <1>2, <1>3

LEMMA FollowStep ==
  ASSUME IInv, FollowLink
  PROVE  IInv'
<1>1. PICK address \in Symbol \cup {"view"} :
        /\ ws' = Seeded(Hydrated(ReadStorage(Transfer(ws), TRUE, TRUE), ws.next, Transfer(ws)), address)
        /\ url' = address /\ preset' = preset
  BY DEF FollowLink
<1>2. PICK t : t = Seeded(Hydrated(ReadStorage(Transfer(ws), TRUE, TRUE), ws.next, Transfer(ws)),
                          address)
  OBVIOUS
<1>3. Good(t) /\ ws.next <= t.next
  BY <1>2, SentGood DEF IInv
<1>4. url' \in Symbol \cup {"view", None}
  BY <1>1
<1> QED
  BY <1>1, <1>2, <1>3, <1>4, Kept

-----------------------------------------------------------------------------
(* The theorems. *)

LEMMA Inductive ==
  ASSUME IInv, [Next]_vars
  PROVE  IInv'
<1>1. CASE Drop
  <2>1. PICK i, y : y \in Symbol /\ DropOn(i, y)
    BY <1>1 DEF Drop
  <2> QED BY <2>1, DropStep
<1>2. CASE Pin
  <2>1. PICK i : PinButton(i)
    BY <1>2 DEF Pin
  <2> QED BY <2>1, PinStep
<1>3. CASE UNCHANGED vars
  BY <1>3 DEF vars, IInv
<1> QED
  BY <1>1, <1>2, <1>3, WindowStep, PickGroupStep, ChartStep, NavigationStep, CloseStep,
     ReleaseStep, PresetStep, EffectStep, ReloadStep, FollowStep DEF Next

LEMMA Invariance == Spec => []IInv
<1>1. Init => IInv
  BY Initial
<1>2. IInv /\ [Next]_vars => IInv'
  BY Inductive
<1> QED
  BY <1>1, <1>2, PTL DEF Spec

\* What a chart remembers it may still use, whatever setters and navigations,
\* presets, loads and new tabs came before: it is Fresh of the invariant, and the
\* setters keep it for the windows they do not write because the view of those
\* does not change (clearedChartRuntime, setChartTimeframe).
THEOREM ViewsAreFresh == Spec => []FreshView
<1>1. IInv => FreshView
  BY DEF IInv, Good, Fresh, FreshAt, FreshView
<1> QED
  BY <1>1, Invariance, PTL

\* A reload of a tab that has written its storage reads what is on the screen: the
\* storage holds the windows, or windows that a load turns into those of the store,
\* and a load changes no window that fits its symbol (persistFromState, readStorage).
THEOREM ReloadsRestore == Spec => []ReloadRestores
<1>1. ASSUME IInv, ws.saved # None, Unfit(ws) = {}, NEW linked
      PROVE  LET read == ReadStorage(ws.saved, FALSE, linked)
             IN  read.win = ws.win /\ read.z = ws.z /\ read.sym = ws.sym
  <2>1. PICK p : p = ws.saved
    OBVIOUS
  <2>2. PICK read : read = ReadStorage(p, FALSE, linked)
    OBVIOUS
  <2>3. read.win = Fitted(p) /\ read.z = p.z /\ read.sym = p.sym
    BY <2>2 DEF ReadStorage, Fitted
  <2>4. Good(ws) /\ p.z = ws.z /\ p.sym = ws.sym /\ (p.win = ws.win \/ ws.win = Fitted(p))
    BY <1>1, <2>1 DEF IInv, Good, Stored
  <2>5. CASE p.win = ws.win
    <3>1. \A i \in Open(ws) : Fit(ws.win[i], Shown(ws, ws.win[i])) = ws.win[i]
      BY <1>1 DEF Unfit, OpenOf, Fit
    <3>2. \A i \in Open(ws) : Shown(p, p.win[i]) = Shown(ws, ws.win[i])
      BY <2>4, <2>5 DEF Shown
    <3>3. Fitted(p) = [i \in Open(ws) |-> ws.win[i]]
      BY <2>5, <3>1, <3>2 DEF Fitted, Open
    <3>4. ws.win = [i \in Open(ws) |-> ws.win[i]]
      BY <2>4, GoodParts
    <3> QED BY <2>1, <2>2, <2>3, <2>4, <3>3, <3>4
  <2>6. CASE ws.win = Fitted(p)
    BY <2>1, <2>2, <2>3, <2>4, <2>6
  <2> QED BY <2>4, <2>5, <2>6
<1>2. IInv => ReloadRestores
  BY <1>1 DEF ReloadRestores
<1> QED
  BY <1>2, Invariance, PTL

\* A pinned window keeps its symbol through every step but a drop on it, its own
\* pin button, the release of all pins, a new tab, and a load from the shared seed
\* (activationTarget, setGroupSymbol, applyWorkspaceSnapshot, readStorage).
THEOREM PinsHold == Spec => PinHolds
<1>1. ASSUME IInv, [Next]_vars, NEW i \in Open(ws) \cap Open(ws)',
             IsPinned(ws.win[i]), ws'.win[i].pinned # ws.win[i].pinned
      PROVE  \/ \E y \in Symbol : DropOn(i, y)
             \/ PinButton(i) \/ ReleaseAll \/ FollowLink
             \/ Reload /\ ws.saved = None
  <2>1. ~Pins(ws, ws')
    <3>1. Open(ws') = Open(ws)'
      BY DEF Open
    <3> QED BY <3>1, <1>1 DEF Pins
  <2>2. CASE Drop
    <3>1. PICK j, y : y \in Symbol /\ DropOn(j, y)
      BY <2>2 DEF Drop
    <3>2. j = i
      BY <1>1, <3>1, DropStep
    <3> QED BY <3>1, <3>2
  <2>3. CASE Pin
    <3>1. PICK j : PinButton(j)
      BY <2>3 DEF Pin
    <3>2. j = i
      BY <1>1, <3>1, PinStep
    <3> QED BY <3>1, <3>2
  <2>4. CASE UNCHANGED vars
    BY <1>1, <2>4 DEF vars
  <2>5. CASE Reload
    BY <1>1, <2>1, <2>5, ReloadStep
  <2> QED
    BY <1>1, <2>1, <2>2, <2>3, <2>4, <2>5, WindowStep, PickGroupStep, ChartStep, NavigationStep,
       CloseStep, PresetStep, EffectStep DEF Next
<1>2. IInv /\ [Next]_vars =>
        [\A i \in Open(ws) \cap Open(ws)' :
           IsPinned(ws.win[i]) /\ ws'.win[i].pinned # ws.win[i].pinned =>
             \/ \E y \in Symbol : DropOn(i, y)
             \/ PinButton(i) \/ ReleaseAll \/ FollowLink
             \/ Reload /\ ws.saved = None]_vars
  BY <1>1
<1> QED
  BY <1>2, Invariance, PTL DEF Spec, PinHolds

\* When an order window is closed, the execution windows linked to it keep the
\* account and the symbol they showed: what they are given is what the two windows
\* showed (closeWindow).
THEOREM FillsKeep == Spec => FillsKeepLast
<1>1. ASSUME IInv, NEW i \in OpenOf(ws, "account-fills"), Source(ws, i) # None, Close,
             i \in Open(ws)'
      PROVE  Executions(ws', i) = Executions(ws, i)
  <2>1. PICK c \in Open(ws) : ws' = CloseWindow(ws, c)
    BY <1>1 DEF Close, Command, Does
  <2>2. Open(ws') = Open(ws)'
    BY DEF Open
  <2> QED BY <1>1, <2>1, <2>2, CloseKeeps DEF IInv
<1>2. IInv /\ [Next]_vars =>
        [\A i \in OpenOf(ws, "account-fills") :
           Source(ws, i) # None /\ Close /\ i \in Open(ws)' =>
             Executions(ws', i) = Executions(ws, i)]_vars
  BY <1>1
<1> QED
  BY <1>2, Invariance, PTL DEF Spec, FillsKeepLast
=============================================================================
