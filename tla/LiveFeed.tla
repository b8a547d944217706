------------------------------ MODULE LiveFeed ------------------------------
(***************************************************************************)
(* What a chart sees of one code: the publications of the live buffer go   *)
(* through two bounded deliveries of the server (hoga/live/delivery.py,    *)
(* hoga/api/ws.py) and the tab's one websocket (frontend/src/api/ws.ts) to *)
(* the series the windows share (sharedLiveSeries.ts), which also takes in *)
(* the answers of the series request (liveSeries.ts); eventStream.ts       *)
(* requests again after a gap.                                             *)
(* Publications are numbered; the number is the content of a frame, and    *)
(* TimeOf its HHMMSS time, which several may share and which may go back.  *)
(* One venue and one kind, a book.  Retention by time is left out.  The    *)
(* other codes of the tab are there in that they may fill its allowance.   *)
(***************************************************************************)
EXTENDS Integers, Sequences, SequencesExt

CONSTANTS
  MaxPublished,  \* publications
  TimeOf,        \* their times
  Capacity,      \* HISTORY_CAPACITY of a delivery
  Batch,         \* BATCH_SIZE
  MaxDown,       \* frames under way before the sender waits
  MaxMounts,     \* times the chart is opened
  MaxFaults      \* connections and requests that fail, restarts, subscriptions over the limit

Entry == 1..MaxPublished
ASSUME FeedAssumption ==
  /\ {MaxPublished, MaxDown, MaxMounts, MaxFaults} \subseteq Nat
  /\ {Capacity, Batch} \subseteq Nat \ {0}
  /\ TimeOf \in [Entry -> Nat \ {0}]

VARIABLES
  published,   \* publications so far
  base,        \* those a restart of the server has lost
  live,        \* the server has a connection of this tab
  subscribed,  \* code_subs has the code
  hub, out,    \* the delivery of the buffer, and that of the connection
  up, down,    \* commands and frames under way
  sock,        \* "none", "connecting", "open": the socket as the tab knows it
  timer,       \* a reconnection is scheduled
  config,      \* /config.json has been read: the tab knows where the server is
  limits,      \* live_subscription_limit events on their way to the tab
  limited,     \* _limitedSubscriptions has the code
  mounted,     \* a window shows the code: _liveSubs has it
  partial,     \* _partialHistory has the code
  floor,       \* _latestSeq
  buffer,      \* how often the series has each entry
  book,        \* its latest book, 0 for none
  retained,    \* the book kept of the last series
  gapTimer,    \* a request after a gap is scheduled
  query,       \* the cached answer and whether it is stale
  request,     \* "none", "sent", or the answer under way
  mounts, faults,       \* counters for the bounds
  since,       \* history: what was published when the server subscribed, or None
  from,        \* history: the same, of this series' first subscription
  dropped,     \* history: entries the deliveries dropped
  overlooked,  \* history: those not in an answer that a request after the gap made do with
  failed       \* history: the last request failed

serverVars == <<published, base, live, subscribed, hub, out>>
limitVars == <<limits, limited>>
socketVars == <<up, down, sock, timer, floor, config, limitVars>>
seriesVars == <<mounted, partial, buffer, book, retained, gapTimer>>
queryVars == <<query, request, failed>>
history == <<since, from, dropped, overlooked>>
vars == <<serverVars, socketVars, seriesVars, queryVars, mounts, faults, history>>

None == MaxPublished + 1
NoBuffer == [n \in Entry |-> 0]
NoDelivery == [hist |-> <<>>, latest |-> 0, dropped |-> FALSE]
Delivery == [hist : Seq(Entry), latest : 0..MaxPublished, dropped : BOOLEAN]
Frame == [data : Seq(Entry), latest : 0..MaxPublished, dropped : BOOLEAN]
Asked == [kind : {"none", "sent"}]
Answer(entries) == [kind |-> "answer", entries |-> entries]

TypeOK ==
  /\ published \in 0..MaxPublished /\ base \in 0..published
  /\ live \in BOOLEAN /\ subscribed \in BOOLEAN
  /\ hub \in Delivery /\ out \in Delivery
  /\ up \in Seq({"subscribe", "unsubscribe"}) /\ down \in Seq(Frame)
  /\ sock \in {"none", "connecting", "open"}
  /\ {timer, config, limited, mounted, partial, gapTimer, failed} \subseteq BOOLEAN
  /\ floor \in 0..MaxPublished /\ book \in 0..MaxPublished /\ retained \in 0..MaxPublished
  /\ buffer \in [Entry -> Nat]
  /\ query \in [entries : (SUBSET Entry) \cup {{None}}, stale : BOOLEAN]
  /\ request \in Asked \cup {Answer(entries) : entries \in SUBSET Entry}
  /\ mounts \in Nat /\ faults \in Nat /\ limits \in Nat
  /\ since \in 0..None /\ from \in 0..None
  /\ dropped \subseteq Entry /\ overlooked \subseteq Entry

Init ==
  /\ published = 0 /\ base = 0 /\ live = FALSE /\ subscribed = FALSE
  /\ hub = NoDelivery /\ out = NoDelivery /\ up = <<>> /\ down = <<>>
  /\ sock = "connecting" /\ timer = FALSE      \* the application listens to events
  /\ config = FALSE /\ limits = 0 /\ limited = FALSE
  /\ mounted = FALSE /\ partial = FALSE /\ floor = 0
  /\ buffer = NoBuffer /\ book = 0 /\ retained = 0 /\ gapTimer = FALSE
  /\ query = [entries |-> {None}, stale |-> FALSE] /\ request = [kind |-> "none"]
  /\ mounts = 0 /\ faults = 0
  /\ since = None /\ from = None /\ dropped = {} /\ overlooked = {} /\ failed = FALSE

---------------------------------------------------------------------------
(* The server.                                                             *)

Newest(m, n) == IF m > n THEN m ELSE n

\* LiveDelivery.put_nowait, of entries that come one after the other: the history
\* drops its head when it is full, the latest does not.
Put(d, entries) ==
  LET all == d.hist \o entries
      over == Len(all) - Capacity
  IN [hist    |-> IF over > 0 THEN SubSeq(all, over + 1, Len(all)) ELSE all,
      latest  |-> Max({d.latest} \cup ToSet(entries)),
      dropped |-> d.dropped \/ over > 0]

TakenOf(d) == SubSeq(d.hist, 1, IF Len(d.hist) < Batch THEN Len(d.hist) ELSE Batch)
LeftOf(d) == [NoDelivery EXCEPT !.hist = SubSeq(d.hist, Batch + 1, Len(d.hist))]
BatchOf(d) == [data |-> TakenOf(d), latest |-> d.latest, dropped |-> d.dropped]

\* Mutant: the drops that a batch reports are forgotten.
MergeQuietly(d, b) ==
  LET all == Put(d, b.data) IN [all EXCEPT !.latest = Newest(@, b.latest)]

\* LiveDelivery.merge.
Merge(d, b) ==
  LET all == Put(d, b.data) IN
  [all EXCEPT !.latest = Newest(@, b.latest), !.dropped = @ \/ b.dropped]

Publish ==
  /\ published < MaxPublished
  /\ published' = published + 1
  /\ hub' = IF subscribed THEN Put(hub, <<published'>>) ELSE hub
  /\ dropped' = dropped \cup (ToSet(hub.hist) \ ToSet(hub'.hist))
  /\ UNCHANGED <<base, live, subscribed, out, socketVars, seriesVars, queryVars, mounts, faults,
                 since, from, overlooked>>

\* pump_live: a batch of the buffer's delivery goes to the connection's.
Pump ==
  /\ hub.hist # <<>>
  /\ hub' = LeftOf(hub) /\ out' = Merge(out, BatchOf(hub))
  /\ dropped' = dropped \cup
       ((ToSet(out.hist) \cup ToSet(hub.hist)) \ (ToSet(out'.hist) \cup ToSet(hub'.hist)))
  /\ UNCHANGED <<published, base, live, subscribed, socketVars, seriesVars, queryVars, mounts,
                 faults, since, from, overlooked>>

Send ==
  /\ out.hist # <<>> /\ Len(down) < MaxDown
  /\ down' = Append(down, BatchOf(out)) /\ out' = LeftOf(out)
  /\ UNCHANGED <<published, base, live, subscribed, hub, up, sock, timer, floor, config, limitVars,
                 seriesVars, queryVars, mounts, faults, history>>

\* What becomes of the first command under way: a second subscription of the code
\* changes nothing; with the allowance of 512 codes used up it is refused, and where the
\* upstream has no room for it, it is kept; the tab is told of both.
Outcomes ==
  IF Head(up) = "unsubscribe" THEN {"off"}
  ELSE IF subscribed \/ faults >= MaxFaults THEN {"on"} ELSE {"on", "refused", "no_room"}

\* apply_commands.
Apply ==
  /\ live /\ up # <<>>
  /\ up' = Tail(up)
  /\ \E outcome \in Outcomes :
       /\ subscribed' = (outcome \in {"on", "no_room"})
       /\ IF outcome \in {"refused", "no_room"}
          THEN limits' = limits + 1 /\ faults' = faults + 1
          ELSE UNCHANGED <<limits, faults>>
  /\ IF subscribed' = subscribed THEN UNCHANGED <<hub, out, since>>
     ELSE /\ hub' = NoDelivery /\ out' = NoDelivery
          /\ since' = IF subscribed' THEN published ELSE None
  /\ from' = IF mounted /\ up' = <<>> /\ from = None THEN since' ELSE from
  /\ UNCHANGED <<published, base, live, down, sock, timer, floor, config, limited, seriesVars,
                 queryVars, mounts, dropped, overlooked>>

\* The connection ends: some of the frames under way still come (what a limit event
\* would still tell, the end of the socket takes back).
Disconnect ==
  /\ live /\ faults < MaxFaults
  /\ faults' = faults + 1
  /\ \E k \in 0..Len(down) : down' = SubSeq(down, 1, k)
  /\ base' \in {base, published}         \* the server goes on, or starts anew
  /\ live' = FALSE /\ subscribed' = FALSE /\ up' = <<>>
  /\ hub' = NoDelivery /\ out' = NoDelivery /\ limits' = 0 /\ since' = None
  /\ UNCHANGED <<published, sock, timer, floor, config, limited, seriesVars, queryVars, mounts,
                 from, dropped, overlooked>>

---------------------------------------------------------------------------
(* The socket (ws.ts).  The application itself listens to events, so there *)
(* is always a reason to reconnect.  "connecting" begins with the wait for *)
(* the server's address, which is read once (client.ts).                   *)

Command(c) == IF sock = "open" /\ live THEN Append(up, c) ELSE up

\* onopen: what is shown is subscribed again.
OnOpen ==
  /\ sock = "connecting"
  /\ sock' = "open" /\ live' = TRUE /\ config' = TRUE
  /\ up' = IF mounted THEN <<"subscribe">> ELSE <<>>
  /\ UNCHANGED <<published, base, subscribed, hub, out, down, timer, floor, limitVars, seriesVars,
                 queryVars, mounts, faults, history>>

\* The address cannot be read: open() gives up, and nothing is scheduled.
AddressFails ==
  /\ sock = "connecting" /\ ~config /\ faults < MaxFaults
  /\ faults' = faults + 1
  /\ sock' = "none"
  /\ UNCHANGED <<serverVars, up, down, timer, floor, config, limitVars, seriesVars, queryVars,
                 mounts, history>>

ConnectFail ==
  /\ sock = "connecting" /\ faults < MaxFaults
  /\ faults' = faults + 1
  /\ sock' = "none" /\ timer' = TRUE /\ floor' = 0 /\ config' = TRUE /\ limited' = FALSE
  /\ UNCHANGED <<serverVars, up, down, limits, seriesVars, queryVars, mounts, history>>

\* Mutant: the sequence numbers of the last connection are kept.
OnCloseKeepingNumbers ==
  /\ sock = "open" /\ ~live /\ down = <<>>
  /\ sock' = "none" /\ timer' = TRUE /\ limited' = FALSE
  /\ partial' = (partial \/ mounted)
  /\ gapTimer' = (gapTimer \/ mounted)
  /\ UNCHANGED <<serverVars, up, down, floor, config, limits, mounted, buffer, book, retained,
                 queryVars, mounts, faults, history>>

\* onclose: what is shown has a gap now.
OnClose ==
  /\ sock = "open" /\ ~live /\ down = <<>>
  /\ sock' = "none" /\ timer' = TRUE /\ floor' = 0 /\ limited' = FALSE
  /\ partial' = (partial \/ mounted)
  /\ gapTimer' = (gapTimer \/ mounted)
  /\ UNCHANGED <<serverVars, up, down, config, limits, mounted, buffer, book, retained, queryVars,
                 mounts, faults, history>>

\* open(): the timer finds no socket, or one that a subscription has opened.
Reconnect ==
  /\ timer /\ timer' = FALSE
  /\ sock' = IF sock = "none" THEN "connecting" ELSE sock
  /\ UNCHANGED <<serverVars, up, down, floor, config, limitVars, seriesVars, queryVars, mounts,
                 faults, history>>

\* Another part of the application begins to listen (subscribeEvents).
Listen ==
  /\ sock = "none" /\ sock' = "connecting"
  /\ UNCHANGED <<serverVars, up, down, timer, floor, config, limitVars, seriesVars, queryVars,
                 mounts, faults, history>>

\* The sequence number of a publication: a server that starts anew counts anew.
NumberOf(n) == IF n > base THEN n - base ELSE n

\* bookIsAtLeastAsNew, of a live book.
AtLeastAsNew(n, m) == m = 0 \/ TimeOf[n] >= TimeOf[m]

\* deliverLatest: the sequence admits the latest entry, its time selects it.
DeliverLatest(n) ==
  IF n = 0 \/ NumberOf(n) <= floor THEN UNCHANGED <<floor, book>>
  ELSE /\ floor' = NumberOf(n)
       /\ book' = IF mounted /\ AtLeastAsNew(n, book) THEN n ELSE book

OnMessage ==
  /\ sock = "open" /\ down # <<>>
  /\ down' = Tail(down)
  /\ LET f == Head(down) IN
     /\ DeliverLatest(f.latest)
     /\ partial' = (partial \/ f.dropped)
     /\ gapTimer' = (gapTimer \/ f.dropped)
     /\ buffer' = [n \in Entry |->
                     IF mounted /\ n \in ToSet(f.data) THEN buffer[n] + 1 ELSE buffer[n]]
  /\ UNCHANGED <<serverVars, up, sock, timer, config, limitVars, mounted, retained, queryVars,
                 mounts, faults, history>>

\* A limit event; it shares the socket with the frames, but not their order.
OnLimit ==
  /\ sock = "open" /\ limits > 0
  /\ limits' = limits - 1
  /\ limited' = (limited \/ mounted)
  /\ UNCHANGED <<serverVars, up, down, sock, timer, floor, config, seriesVars, queryVars, mounts,
                 faults, history>>

---------------------------------------------------------------------------
(* The shared series (sharedLiveSeries.ts) and its request.                *)

\* hydrate(): what the answer has and the buffer has not is merged in; its latest
\* book is taken if its time is strictly later.
MergeInitial(b, entries) == [n \in Entry |-> IF b[n] = 0 /\ n \in entries THEN 1 ELSE b[n]]
Later(m, n) == TimeOf[m] > TimeOf[n] \/ (TimeOf[m] = TimeOf[n] /\ m > n)
LatestOf(entries) == {n \in entries : \A m \in entries : ~Later(m, n)}     \* one, or none
NewerBook(b, entries) ==
  IF \E n \in LatestOf(entries) : b = 0 \/ TimeOf[n] > TimeOf[b]
  THEN CHOOSE n \in LatestOf(entries) : TRUE ELSE b

\* A window opens: a series starts with the retained book, if that is recent, and
\* with the answer in the cache, which is requested again if it is stale.
Mount ==
  /\ ~mounted /\ mounts < MaxMounts
  /\ mounts' = mounts + 1 /\ mounted' = TRUE
  /\ up' = Command("subscribe")
  /\ sock' = IF sock = "none" THEN "connecting" ELSE sock
  /\ LET cached == IF query.entries = {None} THEN {} ELSE query.entries IN
     /\ buffer' = MergeInitial(NoBuffer, cached)
     /\ \E b \in {0, retained} : book' = NewerBook(b, cached)
  /\ retained' = 0
  /\ \E old \in {query.stale, TRUE} :
       request' = [kind |-> IF query.entries = {None} \/ old THEN "sent" ELSE "none"]
  /\ UNCHANGED <<serverVars, down, timer, floor, config, limitVars, partial, gapTimer, query,
                 faults, history, failed>>

\* Mutant: the server is not told.
UnmountSilently ==
  /\ mounted /\ mounted' = FALSE
  /\ partial' = FALSE /\ floor' = 0 /\ limited' = FALSE
  /\ retained' = book /\ book' = 0 /\ buffer' = NoBuffer
  /\ request' = [kind |-> "none"]
  /\ from' = None /\ dropped' = {} /\ overlooked' = {} /\ failed' = FALSE
  /\ UNCHANGED <<serverVars, up, down, sock, timer, config, limits, gapTimer, query, mounts, faults,
                 since>>

\* The last window closes.
Unmount ==
  /\ mounted /\ mounted' = FALSE
  /\ up' = Command("unsubscribe")
  /\ partial' = FALSE /\ floor' = 0 /\ limited' = FALSE
  /\ retained' = book /\ book' = 0 /\ buffer' = NoBuffer
  /\ request' = [kind |-> "none"]
  /\ from' = None /\ dropped' = {} /\ overlooked' = {} /\ failed' = FALSE
  /\ UNCHANGED <<serverVars, down, sock, timer, config, limits, gapTimer, query, mounts, faults,
                 since>>

\* Mutant: a request under way is thought to be new enough.
RefetchGapJoining ==
  /\ gapTimer /\ gapTimer' = FALSE
  /\ query' = [query EXCEPT !.stale = TRUE]
  /\ request' = IF request.kind # "none" THEN request
                ELSE [kind |-> IF mounted THEN "sent" ELSE "none"]
  /\ UNCHANGED <<serverVars, socketVars, mounted, partial, buffer, book, retained, mounts, faults,
                 history, failed>>

\* invalidateQueries does not cancel the first request of a query, that has no cached
\* answer yet: it is left to bring what was dropped, also if it was answered before.
Joins == request.kind # "none" /\ query.entries = {None}
Missing == IF request.kind = "answer" THEN dropped \ request.entries ELSE {}

\* The second after a gap is over: another request under way is cancelled for a new one,
\* and a cached answer nobody shows is stale.
RefetchGap ==
  /\ gapTimer /\ gapTimer' = FALSE
  /\ query' = [query EXCEPT !.stale = TRUE]
  /\ IF Joins
     THEN request' = request /\ overlooked' = overlooked \cup Missing
     ELSE /\ request' = [kind |-> IF mounted THEN "sent" ELSE "none"]
          /\ overlooked' = {}
  /\ UNCHANGED <<serverVars, socketVars, mounted, partial, buffer, book, retained, mounts, faults,
                 since, from, dropped, failed>>

\* get_series: what the server has published since it started.
ServeSeries ==
  /\ request.kind = "sent"
  /\ request' = Answer((base + 1)..published) /\ config' = TRUE
  /\ UNCHANGED <<serverVars, up, down, sock, timer, floor, limitVars, seriesVars, query, mounts,
                 faults, history, failed>>

ReceiveSeries ==
  /\ request.kind = "answer"
  /\ request' = [kind |-> "none"] /\ failed' = FALSE
  /\ query' = [entries |-> request.entries, stale |-> FALSE]
  /\ buffer' = MergeInitial(buffer, request.entries)
  /\ book' = NewerBook(book, request.entries)
  /\ UNCHANGED <<serverVars, socketVars, mounted, partial, retained, gapTimer, mounts, faults,
                 history>>

FailSeries ==
  /\ request.kind # "none" /\ faults < MaxFaults
  /\ faults' = faults + 1
  /\ request' = [kind |-> "none"] /\ failed' = TRUE
  /\ UNCHANGED <<serverVars, socketVars, seriesVars, query, mounts, history>>

---------------------------------------------------------------------------
Serve == Pump \/ Send \/ Apply
Client == OnOpen \/ OnClose \/ Reconnect \/ OnMessage \/ OnLimit
Next ==
  \/ Publish \/ Serve \/ Client \/ Listen \/ Disconnect \/ AddressFails \/ ConnectFail
  \/ Mount \/ Unmount \/ RefetchGap \/ ServeSeries \/ ReceiveSeries \/ FailSeries

\* Tasks of the server and callbacks and timers of the browser come.
Fairness == WF_vars(Pump) /\ WF_vars(Send) /\ WF_vars(Apply) /\ WF_vars(Client)

Spec == Init /\ [][Next]_vars /\ Fairness

---------------------------------------------------------------------------
OnItsWay ==
  ToSet(hub.hist) \cup ToSet(out.hist) \cup UNION {ToSet(down[i].data) : i \in DOMAIN down}
DropToTell == hub.dropped \/ out.dropped \/ \E i \in DOMAIN down : down[i].dropped
Drained == hub = NoDelivery /\ out = NoDelivery /\ down = <<>> /\ up = <<>> /\ limits = 0
CloseToTell == sock = "open" /\ ~live

(* History loss is explicit (delivery.py): what was published since the    *)
(* series was first subscribed is in its buffer or on its way, or the      *)
(* history is marked partial or about to be, whatever was dropped, cut off *)
(* or opened again in between.                                             *)
LossIsKnown ==
  mounted /\ from # None =>
    partial \/ DropToTell \/ CloseToTell
    \/ \A n \in (from + 1)..published : buffer[n] > 0 \/ n \in OnItsWay

(* What a delivery dropped and the server still has comes back: with no    *)
(* gap left to tell and no request to come or to be answered, it is in the *)
(* buffer, unless the request failed.  The exception is what the first     *)
(* request of a query misses, when it was answered before the drop and a   *)
(* gap is told before its answer comes.                                    *)
DropsAreRecovered ==
  mounted /\ ~DropToTell /\ ~CloseToTell /\ ~gapTimer /\ request.kind = "none" /\ ~failed =>
    \A n \in dropped \ overlooked : n > base /\ n > from => buffer[n] > 0

(* In the end the tab is connected, what it shows is subscribed or known   *)
(* not to be, and the book that is shown is the last one published since,  *)
(* or one of a later time, though answers, batches and a kept book arrive  *)
(* in any order, times go back, connections were lost, and the server may  *)
(* have begun to count anew.  The exception is a tab that could not read   *)
(* the server's address: nothing opens its socket by itself.               *)
Stranded == sock = "none" /\ ~timer
ShowsTheLast == book # 0 /\ (book = published \/ TimeOf[book] > TimeOf[published])
BookConverges ==
  <>[](mounted => \/ Stranded
                  \/ /\ live /\ Drained /\ (subscribed \/ limited)
                     /\ (subscribed /\ published > since => ShowsTheLast))

(* The server's subscription is what the tab shows once the commands have  *)
(* come through, over reconnections and reopened windows, or the tab knows *)
(* or is being told that it is over the limit.                             *)
SubscriptionFollows ==
  live /\ sock = "open" /\ up = <<>> =>
    /\ subscribed => mounted
    /\ mounted => subscribed \/ limited \/ limits > 0

(* Not kept by the code, see the README.                                   *)
(* What came by the socket and by the request is in the history once       *)
(* (sharedLiveSeries.test.tsx: 'must not multiply already merged events'). *)
NothingTwice == \A n \in Entry : buffer[n] <= 1
=============================================================================
