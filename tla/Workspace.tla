------------------------------ MODULE Workspace ------------------------------
(***************************************************************************)
(* The window workspace of one browser tab (frontend/src/state/workspace.ts):*)
(* windows that follow the symbol of their group or hold a pinned one, what *)
(* a chart remembers about the view it was panned in, the order and         *)
(* execution windows that are linked, the layout presets, the tab's own     *)
(* storage and the tabs opened from this one.                               *)
(*                                                                         *)
(* A command is one event of the page: a setter, or a navigation that calls *)
(* several setters in a row.  So every setter is an operator from a store   *)
(* to a store, and a navigation composes them.  A date the code remembers   *)
(* is represented by the view (symbol and frame) in which it was made.      *)
(***************************************************************************)
EXTENDS Integers, Sequences, FiniteSets, SequencesExt

CONSTANTS
  Groups,       \* link groups, the first of them 1
  Kr, Us,       \* domestic stocks; US stocks and US indices
  Account,
  Addable,      \* the kinds of window the user adds
  Seeds,        \* pictures the shared seed may hold when this tab is opened
  FirstId,      \* the first identifier of a window that no seed holds
  MaxId,        \* bound: window identifiers handed out
  MaxOpen,      \* bound: windows open when one more is added
  MaxCommands,  \* bound: commands given
  None

Symbol == Kr \cup Us
Kinds == {"chart", "order", "trade", "account-fills", "market-indices"}
Unpinnable == {"account-fills", "market-indices"}

ASSUME WorkspaceAssumption ==
  /\ Kr \cap Us = {} /\ None \notin Symbol \cup Account
  /\ 1 \in Groups /\ Addable \subseteq Kinds

Frames == {"5s", "1m", "240m", "D"}
Seconds == {"5s"}
Minutes == {"1m", "240m"}
UsFrames == {"1m", "D"}

Shares == [account : Account \cup {None}, symbol : Symbol \cup {None}]
Window == [kind : Kinds, group : Groups, pinned : Symbol \cup {None}, tf : Frames \cup {None},
           account : Account \cup {None}, source : Nat \cup {None}, kept : Shares]
Views == [symbol : Symbol \cup {None}, tf : Frames \cup {None}]
Runtime == [from : Views \cup {None}, last : Views \cup {None}, lastTf : Frames \cup {None},
            disk : BOOLEAN, range : Symbol \cup {None}]

\* windows and symbols as a layout, a tab or its storage holds them: their
\* identifiers were handed out before next
IsPicture(p, next) ==
  /\ DOMAIN p.win \subseteq 1..(next - 1) /\ p.win \in [DOMAIN p.win -> Window]
  /\ p.sym \in [Groups -> Symbol \cup {None}]

ASSUME SeedsAssumption ==
  FirstId \in Nat \ {0} /\ \A seed \in Seeds : IsPicture(seed, FirstId)

VARIABLES
  ws,      \* the store: win, z, sym, rt, max, pend, next and saved, the tab's storage
  url,     \* what the tab was opened by: None, a symbol, or "view"
  asked,   \* the saved view of the address has been asked for
  preset,  \* the last layout preset captured
  toast,   \* the notice is up that a click had nowhere to go
  given    \* commands given so far

vars == <<ws, url, asked, preset, toast, given>>

-----------------------------------------------------------------------------
(* Reading the store. *)

Open(s) == DOMAIN s.win
OpenOf(s, kind) == {i \in Open(s) : s.win[i].kind = kind}
IsPinned(w) == w.pinned # None

\* the symbol a window draws: its own copy, or that of its group
Shown(s, w) ==
  IF w.kind = "account-fills" THEN None
  ELSE IF IsPinned(w) THEN w.pinned ELSE s.sym[w.group]

\* the topmost window of a set, None if the set is empty
Topmost(s, ids) ==
  LET Over(i) == {n \in DOMAIN s.z : s.z[n] = i /\ \A m \in DOMAIN s.z : s.z[m] \in ids => m <= n}
      tops    == {i \in ids : Over(i) # {}}
  IN  IF tops = {} THEN None ELSE CHOOSE i \in tops : TRUE

ActiveGroup(s) ==
  LET top == Topmost(s, Open(s) \ OpenOf(s, "account-fills"))
  IN  IF top = None THEN 1 ELSE s.win[top].group

\* a US symbol has no second bars and no long minute bars
Fit(w, y) ==
  IF w.kind = "chart" /\ y \in Us /\ w.tf \notin UsFrames
    THEN [w EXCEPT !.tf = "D"] ELSE w

View(s, i) == [symbol |-> Shown(s, s.win[i]), tf |-> s.win[i].tf]

\* what the execution window i shows: its order window's, or what it kept
Source(s, i) ==
  LET o == s.win[i].source IN IF o \in OpenOf(s, "order") THEN o ELSE None
Executions(s, i) ==
  LET o == Source(s, i)
  IN  IF o = None THEN s.win[i].kept
      ELSE [account |-> s.win[o].account, symbol |-> Shown(s, s.win[o])]

-----------------------------------------------------------------------------
(* The setters. *)

EmptyRuntime == [from |-> None, last |-> None, lastTf |-> None,
                 disk |-> FALSE, range |-> None]
NothingKept == [account |-> None, symbol |-> None]

Picture(s) == [win |-> s.win, z |-> s.z, sym |-> s.sym, pend |-> s.pend]
Persist(s) == [s EXCEPT !.saved = Picture(s)]

\* the fresh-view rule: what the windows ids remember is dropped
Forget(s, ids) ==
  [s EXCEPT !.rt = [i \in DOMAIN @ |-> IF i \in ids THEN EmptyRuntime ELSE @[i]]]

With(f, id, x) == [i \in DOMAIN f \cup {id} |-> IF i = id THEN x ELSE f[i]]

FocusWindow(s, i) ==
  IF i \notin Open(s) \/ Last(s.z) = i THEN s
  ELSE Persist([s EXCEPT !.z = Append(Remove(@, i), i), !.max = None])

ToggleMaximize(s, i) ==
  [FocusWindow(s, i) EXCEPT !.max = IF @ = i THEN None ELSE i]

\* pref is the frame of the last chart the user set up, for a first chart
AddWindow(s, kind, pref) ==
  LET id    == s.next
      group == ActiveGroup(s)
      top   == Topmost(s, OpenOf(s, "chart"))
      tf    == IF kind # "chart" THEN None
               ELSE IF top = None THEN pref ELSE s.win[top].tf
      w     == [kind |-> kind, group |-> group, pinned |-> None, tf |-> tf,
                account |-> None, source |-> None, kept |-> NothingKept]
  IN  Persist([s EXCEPT !.next = id + 1, !.max = None, !.z = Append(@, id),
                        !.win = With(@, id, Fit(w, s.sym[group])),
                        !.rt = With(@, id, EmptyRuntime)])

\* Mutant: the linked execution window is not given what the order window showed.
CloseWindowBare(s, i) ==
  LET rest == Open(s) \ {i}
  IN  Persist([s EXCEPT !.win = [j \in rest |-> @[j]], !.z = Remove(@, i),
                        !.rt = [j \in rest |-> @[j]],
                        !.max = IF @ = i THEN None ELSE @])

CloseWindow(s, i) ==
  LET rest == Open(s) \ {i}
      kept == [j \in rest |->
                 IF i \in OpenOf(s, "order") /\ s.win[j].source = i
                   THEN [s.win[j] EXCEPT !.kept = Executions(s, j)] ELSE s.win[j]]
  IN  Persist([s EXCEPT !.win = kept, !.z = Remove(@, i),
                        !.rt = [j \in rest |-> @[j]],
                        !.max = IF @ = i THEN None ELSE @])

SetWindowGroup(s, i, g) ==
  LET w == [s.win[i] EXCEPT !.group = g]
      t == Persist([s EXCEPT !.win[i] = Fit(w, Shown(s, w))])
  IN  IF s.win[i].group = g THEN s ELSE IF IsPinned(w) THEN t ELSE Forget(t, {i})

Followers(s, g) == {i \in Open(s) : s.win[i].group = g /\ ~IsPinned(s.win[i])}

SetGroupSymbol(s, g, y) ==
  LET to == Followers(s, g)
  IN  Forget(Persist([s EXCEPT !.sym[g] = y,
                               !.win = [i \in DOMAIN @ |-> IF i \in to THEN Fit(@[i], y) ELSE @[i]]]),
             to)

PinTo(s, i, y) ==
  IF s.win[i].kind \in Unpinnable THEN s
  ELSE Forget(Persist([s EXCEPT !.win[i] = Fit([@ EXCEPT !.pinned = y], y)]), {i})

SetWindowSymbol(s, i, y) ==
  IF s.win[i].kind = "account-fills" THEN s
  ELSE IF IsPinned(s.win[i]) THEN PinTo(s, i, y)
  ELSE SetGroupSymbol(s, s.win[i].group, y)

TogglePin(s, i) ==
  LET w == s.win[i]
      t == Persist([s EXCEPT !.win[i].pinned = IF IsPinned(w) THEN None ELSE Shown(s, w)])
  IN  IF w.kind \in Unpinnable \/ Shown(s, w) = None THEN s
      ELSE IF IsPinned(w) /\ s.sym[w.group] # w.pinned THEN Forget(t, {i}) ELSE t

Unpinned(win) == [i \in DOMAIN win |-> [win[i] EXCEPT !.pinned = None]]

UnpinAll(s) ==
  Forget(Persist([s EXCEPT !.win = Unpinned(@)]), {i \in Open(s) : IsPinned(s.win[i])})

\* the windows of ids are pinned to the symbol they draw
Pinning(s, ids) ==
  [i \in Open(s) |->
     LET w == s.win[i]
     IN  IF i \in ids /\ w.kind \notin Unpinnable
           THEN [w EXCEPT !.pinned = Shown(s, w)] ELSE w]

PinWindows(s, ids) ==
  IF Pinning(s, ids) = s.win THEN s ELSE Persist([s EXCEPT !.win = Pinning(s, ids)])

RestorePins(s) ==
  IF s.pend = {} THEN s
  ELSE Persist([s EXCEPT !.win = Pinning(s, s.pend), !.pend = {}])

\* Mutant: the frame is stamped on the remembered date also when no date is new.
SetTimeframeStamping(s, i, asked_tf) ==
  LET w   == s.win[i]
      tf  == Fit([w EXCEPT !.tf = asked_tf], Shown(s, w)).tf
      old == s.rt[i]
      new == [from   |-> None,
              last   |-> IF w.tf \in Minutes /\ old.from # None THEN old.from ELSE old.last,
              lastTf |-> IF w.tf \in Minutes THEN w.tf ELSE old.lastTf,
              disk   |-> tf \in Minutes /\ old.disk,
              range  |-> IF w.tf \in Seconds /\ tf \in Seconds THEN old.range ELSE None]
  IN  IF w.kind # "chart" THEN s
      ELSE Persist([s EXCEPT !.win[i].tf = tf, !.rt[i] = new])

SetTimeframe(s, i, asked_tf) ==
  LET w   == s.win[i]
      tf  == Fit([w EXCEPT !.tf = asked_tf], Shown(s, w)).tf
      old == s.rt[i]
      leaving == w.tf \in Minutes /\ old.from # None
      new == [from   |-> None,
              last   |-> IF leaving THEN old.from ELSE old.last,
              lastTf |-> IF leaving THEN w.tf ELSE old.lastTf,
              disk   |-> tf \in Minutes /\ old.disk,
              range  |-> IF w.tf \in Seconds /\ tf \in Seconds THEN old.range ELSE None]
  IN  IF w.kind # "chart" THEN s
      ELSE Persist([s EXCEPT !.win[i].tf = tf, !.rt[i] = new])

SetSecondRange(s, i, on) ==
  IF s.win[i].tf \notin Seconds THEN s
  ELSE [s EXCEPT !.rt[i].range = IF on THEN Shown(s, s.win[i]) ELSE None]

ExtendRange(s, i) ==
  IF s.rt[i].from # None THEN s ELSE [s EXCEPT !.rt[i].from = View(s, i)]

ResetRange(s, i) ==
  [s EXCEPT !.rt[i] = [@ EXCEPT !.from = None, !.last = None, !.lastTf = None]]

SetDisk(s, i, on) ==
  IF on /\ s.win[i].tf \notin Minutes THEN s ELSE [s EXCEPT !.rt[i].disk = on]

-----------------------------------------------------------------------------
(* Orders and executions. *)

Linked(s, o) == {j \in OpenOf(s, "account-fills") : s.win[j].source = o}

SetOrderAccount(s, o, a) ==
  LET kept == [account |-> a, symbol |-> Shown(s, s.win[o])]
      win  == [j \in Open(s) |->
                 CASE j = o            -> [s.win[j] EXCEPT !.account = a]
                   [] j \in Linked(s, o) -> [s.win[j] EXCEPT !.kept = kept]
                   [] OTHER            -> s.win[j]]
  IN  IF s.win[o].account = a THEN s ELSE Persist([s EXCEPT !.win = win])

LinkExecutions(s, i, o) ==
  Persist([s EXCEPT !.win[i] = [@ EXCEPT !.source = o,
                                         !.kept = [account |-> s.win[o].account,
                                                   symbol  |-> Shown(s, s.win[o])]]])

\* no order window is chosen: what the window kept goes too
UnlinkExecutions(s, i) ==
  Persist([s EXCEPT !.win[i] = [@ EXCEPT !.source = None, !.kept = NothingKept]])

OpenExecutions(s, o, a) ==
  LET t   == SetOrderAccount(s, o, a)
      old == Linked(t, o)
  IN  IF old # {} THEN FocusWindow(t, CHOOSE j \in old : TRUE)
      ELSE LinkExecutions(AddWindow(t, "account-fills", None), t.next, o)

-----------------------------------------------------------------------------
(* Navigation: several setters in one event. *)

\* a click on a symbol lands on the topmost window that is not pinned
Activate(s, y) ==
  LET windows == Open(s) \ OpenOf(s, "account-fills")
      target  == Topmost(s, {i \in windows : ~IsPinned(s.win[i])})
  IN  IF windows = {} THEN SetGroupSymbol(s, 1, y)
      ELSE IF target = None THEN s
      ELSE FocusWindow(SetGroupSymbol(s, s.win[target].group, y), target)

OpenSecondRange(s, i) ==
  LET w == s.win[i]
      y == Shown(s, w)
      like == {j \in OpenOf(s, "chart") \ {i} :
                 /\ s.win[j].group = w.group /\ s.win[j].tf \in Seconds
                 /\ Shown(s, s.win[j]) = y}
      new  == s.next
      made == SetTimeframe(SetWindowGroup(AddWindow(FocusWindow(s, i), "chart", "1m"),
                                          new, w.group), new, "5s")
      t == IF like # {} THEN s
           ELSE IF s.sym[w.group] # y THEN PinTo(made, new, y) ELSE made
      target == IF like # {} THEN Topmost(s, like) ELSE new
  IN  FocusWindow(SetSecondRange(t, target, TRUE), target)

OpenTrade(s, o) ==
  LET w == s.win[o]
      y == Shown(s, w)
      like == {j \in OpenOf(s, "trade") :
                 s.win[j].group = w.group /\ Shown(s, s.win[j]) = y}
      new  == s.next
      made == SetWindowGroup(AddWindow(FocusWindow(s, o), "trade", None), new, w.group)
  IN  IF like # {} THEN FocusWindow(s, Topmost(s, like))
      ELSE FocusWindow(IF IsPinned(w) THEN PinTo(made, new, y) ELSE made, new)

\* a saved range of a domestic stock, kept in the frame tf
OpenSaved(s, y, tf) ==
  LET windows == Open(s) \ OpenOf(s, "account-fills")
      dest    == Topmost(s, {i \in windows : ~IsPinned(s.win[i])})
      group   == IF dest = None THEN 1 ELSE s.win[dest].group
      t       == Activate(s, y)
      target  == IF dest \in OpenOf(s, "chart") THEN dest
                 ELSE Topmost(t, {i \in OpenOf(t, "chart") :
                                    t.win[i].group = group /\ Shown(t, t.win[i]) = y})
      made    == SetWindowGroup(AddWindow(t, "chart", "1m"), t.next, group)
      u       == IF target = None /\ tf \in Seconds THEN made ELSE t
      chart   == IF target = None /\ tf \in Seconds THEN t.next ELSE target
  IN  IF windows # {} /\ dest = None THEN s
      ELSE IF chart # None /\ (tf \in Seconds \/ u.win[chart].tf \in Seconds)
        THEN FocusWindow(SetSecondRange(SetTimeframe(u, chart, tf), chart, FALSE), chart)
        ELSE u

-----------------------------------------------------------------------------
(* Presets, storage and tabs. *)

\* neither a symbol, nor a pin, nor an account leaves with a layout
Stripped(win) ==
  [i \in DOMAIN win |-> [win[i] EXCEPT !.pinned = None, !.account = None, !.kept = NothingKept]]
PinnedIds(s) == {i \in Open(s) : IsPinned(s.win[i])}

Capture(s) == [win |-> Stripped(s.win), z |-> s.z, flagged |-> PinnedIds(s)]

\* with no window in it, the factory layout: here its chart, under a new identifier
Factory(id) ==
  [win |-> [i \in {id} |-> [kind |-> "chart", group |-> 1, pinned |-> None, tf |-> "1m",
                            account |-> None, source |-> None, kept |-> NothingKept]],
   z |-> <<id>>, flagged |-> {}]

\* Mutant: the layout replaces the windows with their pins.
ApplySnapshotUnpinned(s, p) ==
  Persist([s EXCEPT !.win = [i \in DOMAIN p.win |-> Fit(p.win[i], Shown(s, p.win[i]))],
                    !.z = p.z, !.pend = {}, !.max = None,
                    !.rt = [i \in DOMAIN p.win |-> EmptyRuntime]])

\* the layout p replaces the windows; the symbols stay, and so do the pins of
\* the windows that survive
ApplySnapshot(s, p) ==
  LET carried == [i \in DOMAIN p.win |->
                    IF i \in PinnedIds(s) THEN [p.win[i] EXCEPT !.pinned = s.win[i].pinned]
                    ELSE p.win[i]]
  IN  Persist([s EXCEPT !.win = [i \in DOMAIN carried |-> Fit(carried[i], Shown(s, carried[i]))],
                        !.z = p.z, !.pend = {}, !.max = None,
                        !.rt = [i \in DOMAIN p.win |-> EmptyRuntime]])

ApplyPreset(s, p) ==
  IF p.win = <<>>
    THEN ApplySnapshot([s EXCEPT !.next = @ + 1], Factory(s.next))
    ELSE PinWindows(ApplySnapshot(s, p), p.flagged)

\* Mutant: a linked tab drops the pins also when it reads its own storage.
ReadStorageUnpinning(picture, inherited, linked) ==
  LET win == IF linked THEN Unpinned(picture.win) ELSE picture.win
  IN  [win |-> [i \in DOMAIN win |-> Fit(win[i], Shown(picture, win[i]))],
       z   |-> picture.z,
       sym |-> picture.sym,
       pend |-> picture.pend \cap DOMAIN win]

\* what a load reads from a picture; a tab opened by a link inherits no pin
ReadStorage(picture, inherited, linked) ==
  LET win == IF inherited /\ linked THEN Unpinned(picture.win) ELSE picture.win
  IN  [win |-> [i \in DOMAIN win |-> Fit(win[i], Shown(picture, win[i]))],
       z   |-> picture.z,
       sym |-> picture.sym,
       pend |-> picture.pend \cap DOMAIN win]

Hydrated(read, next, saved) ==
  [win |-> read.win, z |-> read.z, sym |-> read.sym, pend |-> read.pend,
   rt |-> [i \in DOMAIN read.win |-> EmptyRuntime], max |-> None,
   next |-> next, saved |-> saved]

\* the first effect of the page: a symbol in the address takes its place, then
\* the pins that came along are set
Seeded(s, address) ==
  IF address \in Symbol THEN RestorePins(Activate(s, address)) ELSE s

\* what a tab opened from this one receives
Transfer(s) == [win |-> Stripped(s.win), z |-> s.z, sym |-> s.sym, pend |-> PinnedIds(s)]

-----------------------------------------------------------------------------
(* Behaviour. *)

\* the chart's own effect has run: no US chart is left in a frame it cannot have
Unfit(s) == {i \in OpenOf(s, "chart") : Fit(s.win[i], Shown(s, s.win[i])) # s.win[i]}

Does(s) ==
  /\ Unfit(ws) = {} /\ given < MaxCommands /\ s # ws
  /\ ws' = s /\ given' = given + 1
  /\ UNCHANGED <<url, asked, preset>>

Command(s) == Does(s) /\ UNCHANGED toast

Room == Cardinality(Open(ws)) < MaxOpen /\ ws.next <= MaxId

Heal == \E i \in Unfit(ws) :
  /\ ws' = SetTimeframe(ws, i, Fit(ws.win[i], Shown(ws, ws.win[i])).tf)
  /\ UNCHANGED <<url, asked, preset, toast, given>>

Focus == \E i \in Open(ws) : Command(FocusWindow(ws, i))
Maximize == \E i \in Open(ws) : Command(ToggleMaximize(ws, i))
Add == \E kind \in Addable, pref \in {"1m", "5s"} : Room /\ Command(AddWindow(ws, kind, pref))
Close == \E i \in Open(ws) : Command(CloseWindow(ws, i))
PickGroup == \E i \in Open(ws), g \in Groups : Command(SetWindowGroup(ws, i, g))
Click == \E y \in Symbol : Command(Activate(ws, y))
DropOn(i, y) == i \in Open(ws) /\ Command(SetWindowSymbol(ws, i, y))
Drop == \E i \in Open(ws), y \in Symbol : DropOn(i, y)
PinButton(i) == i \in Open(ws) /\ Command(TogglePin(ws, i))
Pin == \E i \in Open(ws) : PinButton(i)
\* a click when every window is pinned changes nothing; the notice that says so stays
\* while the user goes on, and its button releases all pins (it is up for six seconds,
\* or until it is used: how long is left open)
Blocked(s) ==
  LET windows == Open(s) \ OpenOf(s, "account-fills")
  IN  windows # {} /\ windows \subseteq PinnedIds(s)
ClickInVain ==
  /\ Unfit(ws) = {} /\ Blocked(ws) /\ toast' = TRUE
  /\ UNCHANGED <<ws, url, asked, preset, given>>
ReleaseAll == toast /\ Does(UnpinAll(ws)) /\ toast' = FALSE
PickFrame == \E i \in OpenOf(ws, "chart"), tf \in Frames :
  tf # ws.win[i].tf /\ Command(SetTimeframe(ws, i, tf))
Pan == \E i \in OpenOf(ws, "chart") : Command(ExtendRange(ws, i))
Jump == \E i \in OpenOf(ws, "chart") : Command(ResetRange(ws, i))
Disk == \E i \in OpenOf(ws, "chart"), on \in BOOLEAN : Command(SetDisk(ws, i, on))
LeaveRange == \E i \in OpenOf(ws, "chart") : Command(SetSecondRange(ws, i, FALSE))
PickAccount == \E o \in OpenOf(ws, "order"), a \in Account : Command(SetOrderAccount(ws, o, a))
ShowExecutions == \E o \in OpenOf(ws, "order"), a \in Account :
  (Linked(ws, o) = {} => Room) /\ Command(OpenExecutions(ws, o, a))
Bind == \E i \in OpenOf(ws, "account-fills"), o \in OpenOf(ws, "order") :
  o # Source(ws, i) /\ Command(LinkExecutions(ws, i, o))
Unlink(i) ==
  /\ i \in OpenOf(ws, "account-fills") /\ Source(ws, i) # None
  /\ Command(UnlinkExecutions(ws, i))
Unbind == \E i \in Open(ws) : Unlink(i)
InspectSeconds(i) ==
  /\ Room /\ i \in OpenOf(ws, "chart") /\ ws.win[i].tf \in Minutes
  /\ Shown(ws, ws.win[i]) \in Kr
  /\ Command(OpenSecondRange(ws, i))
Inspect == \E i \in Open(ws) : InspectSeconds(i)
Trades == \E o \in OpenOf(ws, "order") :
  Room /\ Shown(ws, ws.win[o]) \in Kr /\ Command(OpenTrade(ws, o))
PickSaved == \E y \in Kr, tf \in {"5s", "1m"} : Room /\ Command(OpenSaved(ws, y, tf))
UsePreset == Room /\ preset # None /\ Command(ApplyPreset(ws, preset))

SavePreset ==
  /\ Unfit(ws) = {} /\ given < MaxCommands /\ preset # Capture(ws)
  /\ preset' = Capture(ws) /\ given' = given + 1
  /\ UNCHANGED <<ws, url, asked, toast>>

\* the page is loaded again: its own storage, or what the shared seed holds by now
Reload ==
  /\ given < MaxCommands
  /\ \E seed \in Seeds :
       LET own  == ws.saved # None
           from == IF own THEN ws.saved ELSE seed
           read == Hydrated(ReadStorage(from, ~own, url # None), ws.next, ws.saved)
       IN  /\ own => seed = CHOOSE x \in Seeds : TRUE
           /\ ws' = Seeded(read, url) /\ toast' = (url \in Symbol /\ Blocked(read))
  /\ asked' = (url = "view") /\ given' = given + 1
  /\ UNCHANGED <<url, preset>>

\* ctrl-click on a symbol or a saved view: the model goes on in the new tab
FollowLink == \E address \in Symbol \cup {"view"} :
  LET sent == Transfer(ws)
  IN  /\ Unfit(ws) = {} /\ given < MaxCommands
      /\ ws' = Seeded(Hydrated(ReadStorage(sent, TRUE, TRUE), ws.next, sent), address)
      /\ url' = address /\ asked' = (address = "view") /\ given' = given + 1
      /\ toast' = FALSE /\ UNCHANGED preset

\* the saved view of the address has arrived, at whatever the user did meanwhile
ViewArrives == \E y \in Kr, tf \in {"5s", "1m"} :
  /\ asked /\ Room /\ Unfit(ws) = {}
  /\ asked' = FALSE /\ ws' = RestorePins(OpenSaved(ws, y, tf)) /\ toast' = (toast \/ Blocked(ws))
  /\ UNCHANGED <<url, preset, given>>

Init ==
  /\ \E seed \in Seeds :
       ws = Hydrated(ReadStorage(seed, TRUE, FALSE), FirstId, None)
  /\ url = None /\ asked = FALSE /\ preset = None /\ toast = FALSE /\ given = 0

Next ==
  \/ Focus \/ Maximize \/ Add \/ Close \/ PickGroup \/ Click \/ Drop \/ Pin
  \/ ClickInVain \/ ReleaseAll \/ PickFrame \/ Pan \/ Jump \/ Disk \/ LeaveRange
  \/ PickAccount \/ ShowExecutions \/ Bind \/ Unbind \/ Inspect \/ Trades \/ PickSaved
  \/ SavePreset \/ UsePreset \/ Reload \/ FollowLink \/ ViewArrives \/ Heal

Spec == Init /\ [][Next]_vars

-----------------------------------------------------------------------------
(* Properties. *)

\* What a chart window remembers was made in a view it may still use it for: the
\* panned date in the very view on the screen, the date kept for the return to a
\* minute frame for this symbol and under the frame that made it, the disk source
\* in a minute frame only, the seconds range for this symbol in a seconds frame
\* (clearedChartRuntime, and the pair of setChartTimeframe).
FreshView ==
  \A i \in OpenOf(ws, "chart") :
    LET rt == ws.rt[i]
        y  == Shown(ws, ws.win[i])
    IN  /\ rt.from # None => rt.from = View(ws, i)
        /\ rt.last # None => rt.last = [symbol |-> y, tf |-> rt.lastTf]
        /\ rt.disk => ws.win[i].tf \in Minutes
        /\ rt.range # None => rt.range = y /\ ws.win[i].tf \in Seconds

\* Once the tab has written its storage, a reload reads back the windows, their
\* order and the symbols that are on the screen (persistFromState, readStorage).
ReloadRestores ==
  ws.saved # None /\ Unfit(ws) = {} =>
    LET read == ReadStorage(ws.saved, FALSE, url # None)
    IN  read.win = ws.win /\ read.z = ws.z /\ read.sym = ws.sym

\* A pinned window goes on drawing its symbol whatever the groups, the presets,
\* the links and the reloads of the tab's own storage do: only a drop on it, its
\* own pin button, the release of all pins or a new tab changes it
\* (activationTarget, setGroupSymbol, applyWorkspaceSnapshot, readStorage).
PinHolds ==
  [][\A i \in Open(ws) \cap Open(ws)' :
       IsPinned(ws.win[i]) /\ ws'.win[i].pinned # ws.win[i].pinned =>
         \/ \E y \in Symbol : DropOn(i, y)
         \/ PinButton(i) \/ ReleaseAll \/ FollowLink
         \/ Reload /\ ws.saved = None]_vars

\* An execution window whose order window is closed goes on showing the account
\* and the symbol the two showed last (closeWindow; the window says the last
\* account is kept).
FillsKeepLast ==
  [][\A i \in OpenOf(ws, "account-fills") :
       Source(ws, i) # None /\ Close /\ i \in Open(ws)' =>
         Executions(ws', i) = Executions(ws, i)]_vars

\* Not kept by the code, see the README.
\* An execution window whose link is ended by choice keeps its last account, as the
\* choice itself says (ExecutionHistoryWindow.tsx:35).
UnlinkKeeps ==
  [][\A i \in Open(ws) :
       Unlink(i) => Executions(ws', i).account = Executions(ws, i).account]_vars

\* Not kept by the code, see the README.
\* The command to inspect a range in seconds ends with a seconds chart of the
\* source's symbol that holds the range, in a new window if none matched
\* (openSecondChartRange, "One explicit command").
SecondsCommand ==
  [][\A i \in Open(ws) : InspectSeconds(i) =>
       \E j \in OpenOf(ws', "chart") :
         /\ View(ws', j) = [symbol |-> Shown(ws, ws.win[i]), tf |-> "5s"]
         /\ ws'.rt[j].range # None]_vars
=============================================================================
