-------------------------- MODULE TradingSnapshots --------------------------
(***************************************************************************)
(* What the trading services show of an account: display caches that every *)
(* changed() clears, filled by REST requests that may be under way at that *)
(* moment, and a websocket whose order events call changed()               *)
(* (hoga/trading/service.py; the Kiwoom adapter has the same cache with    *)
(* one entry, hoga/trading/kiwoom.py).                                     *)
(*                                                                         *)
(* The account at the broker is a version that grows; an answer made of    *)
(* several requests counts as old as the oldest of them.  REST may lag     *)
(* behind the account by at most Lag versions.                             *)
(***************************************************************************)
EXTENDS Integers, Sequences

CONSTANTS
  Entry,       \* the cached answers, each with its own lock
  NoEntry,     \* no entry, no cached answer
  Requests,    \* the REST requests of an entry
  Nested,      \* the entry whose value an entry contains, or NoEntry
  Bypassed,    \* entries that a command may read past the cache (fresh=True)
  Reader,      \* the calls of the service
  Lag,
  MaxVersion,  \* bound on the account's versions (not in the code)
  MaxRevision  \* bound on the changes (not in the code)

\* The coroutine of a caller and the one it starts for a nested entry.
Task == Reader \X {"own", "nested"}
Version == 0..MaxVersion
Answers == [version : Version, label : 0..MaxRevision]

ASSUME SnapshotAssumption ==
  /\ NoEntry \notin Entry /\ NoEntry \notin Answers
  /\ Nested \in [Entry -> Entry \cup {NoEntry}]
  /\ \A e \in Entry : Nested[e] # NoEntry => Nested[e] # e /\ Nested[Nested[e]] = NoEntry
  /\ Bypassed \subseteq Entry
  /\ Lag \in Nat /\ MaxVersion \in Nat /\ MaxRevision \in Nat

VARIABLES
  account,   \* external: the version of the account
  link,      \* external: what the broker thinks of the websocket
  channel,   \* frames under way to the service
  cache,     \* self._snapshots, self._balances, self._holdings
  revision,  \* self.revision
  lock,      \* the lock of each entry: owner and waiters
  place,     \* where each task is suspended
  entry,     \* the entry a task reads
  label,     \* the revision a task has noted
  due,       \* its requests that the broker has not yet read
  oldest,    \* the oldest version among those it has
  answer,    \* what a call returned
  called,    \* history: the revision when a call began
  at         \* history: the account's version when each revision began

external == <<account, link, channel>>
shared == <<cache, revision, at>>
local == <<lock, place, entry, label, due, oldest, answer, called>>
vars == <<external, shared, local>>

TypeOK ==
  /\ account \in Version
  /\ link \in {"down", "open", "subscribed", "dead"}
  /\ channel \in Seq({"order", "subscriptions"})
  /\ cache \in [Entry -> Answers \cup {NoEntry}]
  /\ revision \in 0..MaxRevision
  /\ lock \in [Entry -> Seq(Task)]
  /\ place \in [Task -> {"idle", "wait", "fetch", "done", "over"}]
  /\ entry \in [Task -> Entry \cup {NoEntry}]
  /\ label \in [Task -> 0..MaxRevision]
  /\ due \in [Task -> SUBSET UNION {Requests[e] : e \in Entry}]
  /\ oldest \in [Task -> Version]
  /\ answer \in [Reader -> Answers \cup {NoEntry}]
  /\ called \in [Reader -> 0..MaxRevision]
  /\ at \in [0..MaxRevision -> Version]
  \* who fetches an entry owns its lock
  /\ \A t \in Task : place[t] = "fetch" =>
       entry[t] \in Entry /\ lock[entry[t]] # <<>> /\ Head(lock[entry[t]]) = t

Init ==
  /\ account = 0 /\ link = "down" /\ channel = <<>>
  /\ cache = [e \in Entry |-> NoEntry]
  /\ revision = 0
  /\ at = [n \in 0..MaxRevision |-> 0]
  /\ lock = [e \in Entry |-> <<>>]
  /\ place = [t \in Task |-> "idle"]
  /\ entry = [t \in Task |-> NoEntry]
  /\ label = [t \in Task |-> 0]
  /\ due = [t \in Task |-> {}]
  /\ oldest = [t \in Task |-> MaxVersion]
  /\ answer = [r \in Reader |-> NoEntry]
  /\ called = [r \in Reader |-> 0]

-----------------------------------------------------------------------------
(* Changes *)

\* Mutant of Changed: a nested entry outlives the change.
ChangedKeepingNested ==
  /\ revision < MaxRevision
  /\ revision' = revision + 1
  /\ at' = [at EXCEPT ![revision + 1] = account]
  /\ cache' = [e \in Entry |-> IF \E d \in Entry : Nested[d] = e THEN cache[e] ELSE NoEntry]

\* changed(): all entries go, the revision grows.
Changed ==
  /\ revision < MaxRevision
  /\ revision' = revision + 1
  /\ at' = [at EXCEPT ![revision + 1] = account]
  /\ cache' = [e \in Entry |-> NoEntry]

\* The account changes, by a command of this service or not; the broker tells
\* whoever is subscribed.
AccountChange ==
  /\ account < MaxVersion
  /\ account' = account + 1
  /\ channel' = IF link = "subscribed" THEN Append(channel, "order") ELSE channel
  /\ UNCHANGED <<link, shared, local>>

\* The end of a command, a bulk cancel or a review; a failed connection.
LocalChange == Changed /\ UNCHANGED <<external, local>>

Connect == link = "down" /\ link' = "open" /\ UNCHANGED <<account, channel, shared, local>>

Subscribe ==
  /\ link = "open" /\ link' = "subscribed"
  /\ channel' = Append(channel, "subscriptions")
  /\ UNCHANGED <<account, shared, local>>

\* The broker sends no more, and the service does not know it yet.
LinkDies ==
  /\ link \in {"open", "subscribed"} /\ link' = "dead"
  /\ UNCHANGED <<account, channel, shared, local>>

\* Mutant of Receive: the acknowledgement of a subscription changes nothing.
ReceiveQuietly ==
  /\ channel # <<>> /\ channel' = Tail(channel)
  /\ IF Head(channel) = "subscriptions" THEN UNCHANGED shared ELSE Changed
  /\ UNCHANGED <<account, link, local>>

\* Every frame, understood or not, is a change; so is an acknowledgement.
Receive ==
  /\ channel # <<>> /\ channel' = Tail(channel)
  /\ Changed
  /\ UNCHANGED <<account, link, local>>

\* The connection ends on an exception of any kind; its frames are lost.
Disconnect ==
  /\ link # "down" /\ link' = "down" /\ channel' = <<>>
  /\ Changed
  /\ UNCHANGED <<account, local>>

-----------------------------------------------------------------------------
(* Readers *)

Own(r) == <<r, "own">>
Inner(t) == <<t[1], "nested">>
IsOwn(t) == t[2] = "own"

Call(r, e) ==
  /\ place[Own(r)] = "idle"
  /\ place' = [place EXCEPT ![Own(r)] = "wait"]
  /\ entry' = [entry EXCEPT ![Own(r)] = e]
  /\ lock' = [lock EXCEPT ![e] = Append(@, Own(r))]
  /\ called' = [called EXCEPT ![r] = revision]
  /\ UNCHANGED <<label, due, oldest, answer, shared, external>>

\* The coroutines in T are over, and their locals with them.
Ended(T) ==
  /\ place' = [t \in Task |-> IF t \in T THEN "over" ELSE place[t]]
  /\ label' = [t \in Task |-> IF t \in T THEN 0 ELSE label[t]]
  /\ oldest' = [t \in Task |-> IF t \in T THEN MaxVersion ELSE oldest[t]]
  /\ due' = [t \in Task |-> IF t \in T THEN {} ELSE due[t]]

\* A nested coroutine has returned a to the caller that awaits it.
Handed(t, a) ==
  /\ place' = [place EXCEPT ![t] = "done"]
  /\ oldest' = [oldest EXCEPT ![t] = a.version]
  /\ UNCHANGED <<label, due>>

HasLock(t) == lock[entry[t]] # <<>> /\ Head(lock[entry[t]]) = t

\* The lock of the entry passes on.
Release(t) == lock' = [lock EXCEPT ![entry[t]] = Tail(@)]

\* t leaves its entry with answer a; a nested coroutine hands it to its caller,
\* if that has not failed meanwhile.
Return(t, a) ==
  /\ IF IsOwn(t)
       THEN /\ answer' = [answer EXCEPT ![t[1]] = a]
            /\ Ended({t} \cup {u \in {Inner(t)} : place[u] = "done"})
       ELSE /\ IF place[Own(t[1])] = "fetch" THEN Handed(t, a) ELSE Ended({t})
            /\ UNCHANGED answer
  /\ Release(t)

Hit(t) ==
  /\ place[t] = "wait" /\ HasLock(t)
  /\ cache[entry[t]] # NoEntry
  /\ Return(t, cache[entry[t]])
  /\ UNCHANGED <<entry, called, shared, external>>

\* The revision is noted, the requests leave, a nested entry is asked for.
Fetch(t) ==
  /\ place[t] = "wait" /\ HasLock(t)
  /\ cache[entry[t]] = NoEntry \/ (IsOwn(t) /\ entry[t] \in Bypassed)
  /\ label' = [label EXCEPT ![t] = revision]
  /\ due' = [due EXCEPT ![t] = Requests[entry[t]]]
  /\ oldest' = [oldest EXCEPT ![t] = MaxVersion]
  /\ LET inner == Nested[entry[t]]
     IN  IF inner = NoEntry
           THEN place' = [place EXCEPT ![t] = "fetch"] /\ UNCHANGED <<entry, lock>>
           ELSE /\ place' = [place EXCEPT ![t] = "fetch", ![Inner(t)] = "wait"]
                /\ entry' = [entry EXCEPT ![Inner(t)] = inner]
                /\ lock' = [lock EXCEPT ![inner] = Append(@, Inner(t))]
  /\ UNCHANGED <<answer, called, shared, external>>

Lower(v, w) == IF v < w THEN v ELSE w

\* The broker reads the account for one request.
Serve(t, q) ==
  /\ place[t] = "fetch" /\ q \in due[t]
  /\ due' = [due EXCEPT ![t] = @ \ {q}]
  /\ \E v \in Version :
       /\ account - Lag <= v /\ v <= account
       /\ oldest' = [oldest EXCEPT ![t] = Lower(v, @)]
  /\ UNCHANGED <<lock, place, entry, label, answer, called, shared, external>>

\* Every request is answered, and the nested coroutine has returned.
Complete(t) ==
  /\ place[t] = "fetch" /\ due[t] = {}
  /\ Nested[entry[t]] # NoEntry => place[Inner(t)] = "done"

Oldest(t) == IF Nested[entry[t]] = NoEntry THEN oldest[t]
             ELSE Lower(oldest[t], oldest[Inner(t)])

\* Mutant of Finish: the revision of the answer is read when the answer is built.
FinishLabelledLate(t) ==
  /\ Complete(t)
  /\ LET a == [version |-> Oldest(t), label |-> revision]
     IN  /\ cache' = [cache EXCEPT ![entry[t]] = IF label[t] = revision THEN a ELSE @]
         /\ Return(t, a)
  /\ UNCHANGED <<entry, called, revision, at, external>>

\* The answer is cached only if nothing has changed since the requests left.
Finish(t) ==
  /\ Complete(t)
  /\ LET a == [version |-> Oldest(t), label |-> label[t]]
     IN  /\ cache' = [cache EXCEPT ![entry[t]] = IF label[t] = revision THEN a ELSE @]
         /\ Return(t, a)
  /\ UNCHANGED <<entry, called, revision, at, external>>

\* A request fails.  The failure of a nested coroutine is its caller's, but one
\* whose caller has failed goes on by itself.
Fail(t) ==
  /\ place[t] = "fetch" /\ due[t] # {}
  /\ LET caller == Own(t[1])
         failed == {t} \cup {u \in {caller} : place[u] = "fetch"}
     IN  /\ Ended(failed \cup {u \in {Inner(t)} : IsOwn(t) /\ place[u] = "done"})
         /\ lock' = [e \in Entry |-> IF \E u \in failed : entry[u] = e THEN Tail(lock[e]) ELSE lock[e]]
  /\ UNCHANGED <<entry, answer, called, shared, external>>

\* An entry is used for a limited time.
Expire(e) ==
  /\ cache[e] # NoEntry /\ cache' = [cache EXCEPT ![e] = NoEntry]
  /\ UNCHANGED <<revision, at, local, external>>

Step(t) == Hit(t) \/ Fetch(t) \/ (\E q \in due[t] : Serve(t, q)) \/ Finish(t)

Next ==
  \/ AccountChange \/ LocalChange
  \/ Connect \/ Subscribe \/ LinkDies \/ Receive \/ Disconnect
  \/ \E r \in Reader, e \in Entry : Call(r, e)
  \/ \E t \in Task : Step(t) \/ Fail(t)
  \/ \E e \in Entry : Expire(e)

Spec == Init /\ [][Next]_vars

-----------------------------------------------------------------------------
(* Properties *)

\* No older than the account was when revision n began, as far as REST can tell.
Since(v, n) == v + Lag >= at[n]

\* The revision of an answer says what the answer has seen: every change up to
\* it.  The frontend orders answers by it.
LabelIsTrue ==
  /\ \A e \in Entry : cache[e] # NoEntry => Since(cache[e].version, cache[e].label)
  /\ \A r \in Reader : answer[r] # NoEntry => Since(answer[r].version, answer[r].label)

\* A caller is not shown the account as it was before a change that the service
\* knew of when it called, through whatever caches and nested caches.
AnswerIsRecent ==
  \A r \in Reader : answer[r] # NoEntry => Since(answer[r].version, called[r])

\* While the subscription stands and no frame is under way, every cached entry is
\* as new as the account, whatever was lost before.
QuietMeansCurrent ==
  link = "subscribed" /\ channel = <<>> =>
    \A e \in Entry : cache[e] # NoEntry => cache[e].version + Lag >= account

\* The strengthening that makes them inductive.  Where a coroutine is says what
\* its requests have seen: all that had changed when it noted its revision, which
\* for a nested one is not before its caller's.
TaskInv(t) ==
  /\ label[t] <= revision
  /\ place[t] = "wait" => entry[t] \in Entry
  /\ place[t] = "fetch" => Since(oldest[t], label[t])

CallInv(r) ==
  LET t == Own(r)
      u == Inner(Own(r))
  IN  /\ called[r] <= revision
      /\ place[t] = "idle" => answer[r] = NoEntry
      /\ place[t] \in {"idle", "wait"} => place[u] = "idle"
      /\ place[t] = "fetch" => called[r] <= label[t]
      /\ place[t] = "fetch" /\ place[u] = "fetch" => label[t] <= label[u]
      /\ place[u] = "wait" => Nested[entry[u]] = NoEntry
      /\ place[u] = "done" => place[t] = "fetch" /\ Since(oldest[u], label[t])

FetchInv == (\A t \in Task : TaskInv(t)) /\ (\A r \in Reader : CallInv(r))

\* The account is not older than any revision, and no newer than the last one
\* while nothing is under way; a cached entry is of the current revision.
CacheInv ==
  /\ \A m, n \in 0..revision : m <= n => at[m] <= at[n]
  /\ at[revision] <= account
  /\ link = "subscribed" /\ channel = <<>> => at[revision] = account
  /\ \A e \in Entry : cache[e] # NoEntry =>
       cache[e].label = revision /\ Since(cache[e].version, revision)
  /\ \A r \in Reader : answer[r] # NoEntry => answer[r].label <= revision
  /\ LabelIsTrue
  /\ AnswerIsRecent
=============================================================================
