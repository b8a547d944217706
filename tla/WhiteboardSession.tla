------------------------- MODULE WhiteboardSession -------------------------
(***************************************************************************)
(* The editing sessions of one whiteboard (whiteboard/session.ts) in       *)
(* several browser tabs: a session saves its edits with requests that may  *)
(* be repeated, keeps a draft of them in a store that all tabs share       *)
(* (whiteboard/drafts.ts), and recovers the drafts of earlier sessions.    *)
(* The server (hoga/api/whiteboards.py, write) refuses a write that is not *)
(* based on its revision and knows its last mutation again.                *)
(* An edit is a number and the content of a board the set of the edits it  *)
(* contains; an edit that deletes something is one more element.  An       *)
(* action is what happens between two awaits.                              *)
(***************************************************************************)
EXTENDS Naturals, Sequences

CONSTANTS
  Tab,          \* the tabs; each is the key of one draft
  None,         \* no session, request, draft, ...
  Unfit,        \* what the contents may be that the server refuses as too large
  MaxEdits,     \* edits made
  MaxFaults,    \* failures of the network or of the browser's store
  MaxOpens,     \* times a tab opens the board
  MaxTrash      \* times somebody moves the board to the trash

ASSUME BoardAssumption ==
  /\ None \notin Tab
  /\ {MaxEdits, MaxFaults, MaxOpens, MaxTrash} \subseteq Nat
  /\ Unfit \subseteq SUBSET ((SUBSET (1..MaxEdits)) \ {{}})

VARIABLES
  server,    \* the document: its revision, content and last mutation; what is refused
  drafts,    \* the draft under the key of each tab, or None
  session,   \* the session of each tab, or None
  saving,    \* how far the save (or the trash) of each tab is
  net,       \* the request of each tab under way with its answer, or None
  stray,     \* requests whose client no longer waits
  local,     \* operations on the store that each tab has begun, in order
  opening,   \* what each tab has read of the board it opens, or None
  edits,     \* number of edits made
  trashes, opens, faults,  \* counters for the bounds
  held,      \* history: the edits that have been at the server, in the board or a copy
  forgiven,  \* history: the edits that the user gave up
  outrun,    \* history: the edits made while the copy was made before they were discarded
  mixed      \* history: the sessions that wrote a draft of a conflict they began in, or
             \* recovered such a draft

vars == <<server, drafts, session, saving, net, stray, local, opening, edits,
          trashes, opens, faults, held, forgiven, outrun, mixed>>
history == <<held, forgiven, outrun, mixed>>
counters == <<edits, trashes, opens, faults>>

Edit == 1..MaxEdits
SessionId == Tab \X (1..MaxOpens)
Token == SessionId \X (0..MaxEdits)
Mutation == (SessionId \cup {None}) \X (0..MaxEdits) \X Nat
Draft == [rev : Nat, content : SUBSET Edit, token : Token]
Request == [id : Mutation, rev : Nat, content : SUBSET Edit, gen : 0..MaxEdits]
Session ==
  [id : SessionId, rev : Nat, content : SUBSET Edit, gen : 0..MaxEdits,
   localGen : 0..MaxEdits \cup {None}, timer : BOOLEAN, draftTimer : BOOLEAN,
   status : {"saved", "dirty", "saving", "error", "conflict"},
   life : {"active", "trashing"}, pending : Request \cup {None},
   recovered : (Tab \X Token) \cup {None},
   copies : SUBSET SUBSET Edit]  \* the content of which a copy is being made, if any
Operation ==
  [op : {"put"}, key : Tab, draft : Draft, awaited : BOOLEAN]
    \cup [op : {"clear"}, key : Tab, token : Token, awaited : BOOLEAN]
    \cup [op : {"wipe"}, key : Tab, awaited : BOOLEAN]

\* None is none of the values it stands beside.
ASSUME NoneAssumption == None \notin SessionId \cup Session \cup Request \cup Draft \cup 0..MaxEdits

TypeOK ==
  /\ server \in [rev : Nat, content : SUBSET Edit, last : Mutation, unfit : Unfit]
  /\ drafts \in [Tab -> Draft \cup {None}]
  /\ session \in [Tab -> Session \cup {None}]
  /\ saving \in [Tab -> {"no", "draft", "sent", "settle", "end", "trash", "retire"}]
  /\ net \in [Tab -> [req : Request, answer : {"none", "ok", "conflict", "refused"}, rev : Nat]
                       \cup {None}]
  /\ stray \subseteq Request
  /\ local \in [Tab -> Seq(Operation)]
  /\ opening \in [Tab -> [rev : Nat, content : SUBSET Edit] \cup {None}]
  /\ held \subseteq Edit /\ forgiven \subseteq Edit /\ outrun \subseteq Edit
  /\ mixed \subseteq SessionId
  /\ <<edits, trashes, opens, faults>> \in Nat \X Nat \X Nat \X Nat

Init ==
  /\ server \in [rev : {1}, content : {{}}, last : {<<None, 0, 0>>}, unfit : Unfit]
  /\ drafts = [t \in Tab |-> None]
  /\ session = [t \in Tab |-> None]
  /\ saving = [t \in Tab |-> "no"]
  /\ net = [t \in Tab |-> None]
  /\ stray = {}
  /\ local = [t \in Tab |-> <<>>]
  /\ opening = [t \in Tab |-> None]
  /\ edits = 0 /\ trashes = 0 /\ opens = 0 /\ faults = 0
  /\ held = {} /\ forgiven = {} /\ outrun = {} /\ mixed = {}

---------------------------------------------------------------------------
Open(t) == session[t] # None
Active(t) == Open(t) /\ session[t].life = "active"
TokenOf(t) == <<session[t].id, session[t].gen>>
DraftOf(t) == [rev |-> session[t].rev, content |-> session[t].content, token |-> TokenOf(t)]

\* The browser asks before it leaves a page whose edits are nowhere else.
NeedsUnloadWarning(t) == session[t].status # "saved" /\ session[t].localGen # session[t].gen

\* Operations on the store begin in the order they are called and end in that order.
PersistDraft(t, awaited) ==
  [local EXCEPT ![t] = Append(@, [op |-> "put", key |-> t, draft |-> DraftOf(t), awaited |-> awaited])]
ClearDraft(t, key, token, awaited) ==
  [local EXCEPT ![t] = Append(@, [op |-> "clear", key |-> key, token |-> token, awaited |-> awaited])]
Awaiting(t) == \E i \in DOMAIN local[t] : local[t][i].awaited

\* A session whose save met a conflict still has the request.
BeganInConflict(t) == session[t].status = "conflict" /\ session[t].pending = None

\* A draft says it is an edit of the revision its session has.  That of a session which
\* began in conflict says so of what it recovered from an older revision.
MixedByDraft(t) == IF BeganInConflict(t) THEN mixed \cup {session[t].id} ELSE mixed

---------------------------------------------------------------------------
(* Editing.  change, rename and editReview all end in changed().           *)

Change(t) ==
  /\ Active(t) /\ edits < MaxEdits
  /\ edits' = edits + 1
  /\ session' = [session EXCEPT ![t].content = @ \cup {edits + 1}, ![t].gen = @ + 1,
                   ![t].draftTimer = TRUE,
                   ![t].timer = @ \/ session[t].status # "conflict",
                   ![t].status = IF @ = "conflict" THEN @ ELSE "dirty"]
  /\ UNCHANGED <<server, drafts, saving, net, stray, local, opening, trashes, opens, faults,
                 history>>

\* The draft timer, 180 ms after the last edit.
DraftTimer(t) ==
  /\ Open(t) /\ session[t].draftTimer
  /\ session' = [session EXCEPT ![t].draftTimer = FALSE]
  /\ local' = IF session[t].status = "saved" THEN local ELSE PersistDraft(t, FALSE)
  /\ mixed' = MixedByDraft(t)
  /\ UNCHANGED <<server, drafts, saving, net, stray, opening, counters, held, forgiven, outrun>>

---------------------------------------------------------------------------
(* The store (IndexedDB): the oldest operation of a tab ends, or fails.    *)

\* Mutant: a draft is cleared without a look at its token.
StoredAnyToken(op) ==
  [drafts EXCEPT ![op.key] = IF op.op = "put" THEN op.draft ELSE None]

Stored(op) ==
  CASE op.op = "put"   -> [drafts EXCEPT ![op.key] = op.draft]
    [] op.op = "wipe"  -> [drafts EXCEPT ![op.key] = None]
    [] op.op = "clear" -> [drafts EXCEPT ![op.key] =
                             IF @ # None THEN IF @.token = op.token THEN None ELSE @ ELSE @]

\* A draft that was stored makes its generation safe in the browser.
Acknowledge(t, op) ==
  IF op.op = "put" /\ Open(t) /\ session[t].id = op.draft.token[1]
  THEN [session EXCEPT ![t].localGen = op.draft.token[2]] ELSE session

LocalEnds(t) ==
  /\ local[t] # <<>>
  /\ local' = [local EXCEPT ![t] = Tail(@)]
  /\ drafts' = Stored(Head(local[t]))
  /\ session' = Acknowledge(t, Head(local[t]))
  /\ UNCHANGED <<server, saving, net, stray, opening, counters, history>>

LocalFails(t) ==
  /\ local[t] # <<>> /\ faults < MaxFaults
  /\ faults' = faults + 1
  /\ local' = [local EXCEPT ![t] = Tail(@)]
  /\ UNCHANGED <<server, drafts, session, saving, net, stray, opening, edits, trashes, opens,
                 history>>

---------------------------------------------------------------------------
(* Saving.  flush() starts save() unless one is under way.                 *)

CanSave(t) == saving[t] = "no" /\ session[t].status \notin {"saved", "conflict"}

\* flush: the timers are cleared in any case.
Flush(t, life) ==
  /\ session' = [session EXCEPT ![t].timer = FALSE, ![t].life = life,
                   ![t].status = IF CanSave(t) THEN "saving" ELSE @]
  /\ saving' = IF CanSave(t) THEN [saving EXCEPT ![t] = "draft"] ELSE saving
  /\ local' = IF CanSave(t) THEN PersistDraft(t, TRUE) ELSE local

SaveTimer(t) ==
  /\ Open(t) /\ session[t].timer
  /\ Flush(t, session[t].life)
  /\ UNCHANGED <<server, drafts, net, stray, opening, counters, history>>

SaveNow(t) ==
  /\ Open(t) /\ CanSave(t)
  /\ Flush(t, session[t].life)
  /\ UNCHANGED <<server, drafts, net, stray, opening, counters, history>>

\* The network is back, or the user tries again.
Online(t) == session[t] # None /\ session[t].status = "error" /\ SaveNow(t)

\* Bound: a draft that is the last thing to be stored, or was, is not stored once more.
AsStored(t) ==
  LET n == Len(local[t]) IN
  IF n = 0 THEN drafts[t] = DraftOf(t)
  ELSE local[t][n].op = "put" /\ local[t][n].draft = DraftOf(t)

\* A draft is written where flush starts no save: one is under way, or there is a conflict.
KeepDraft(t) ==
  /\ Open(t) /\ session[t].status # "saved" /\ ~CanSave(t)
  /\ session' = [session EXCEPT ![t].timer = FALSE]
  /\ local' = IF AsStored(t) THEN local ELSE PersistDraft(t, FALSE)
  /\ mixed' = MixedByDraft(t)
  /\ UNCHANGED <<server, drafts, saving, net, stray, opening, counters, held, forgiven, outrun>>

\* The editor is unmounted or another board chosen, and the session lives on: persistDraft
\* and flush, whose save begins with the same draft.
Unmount(t) == SaveNow(t) \/ KeepDraft(t)

\* A new mutation id: a generation is written once, unless what was written before was
\* refused or never sent; each trash has an id of its own.
RequestOf(t, trash) ==
  [id |-> <<session[t].id, session[t].gen, trash>>, rev |-> session[t].rev,
   content |-> session[t].content, gen |-> session[t].gen]

Sent(t, r) == [net EXCEPT ![t] = [req |-> r, answer |-> "none", rev |-> 0]]

\* A request that may have reached the server is sent again as it was; otherwise
\* the content and the revision are taken now (the images are uploaded before it is sent).
Send(t) ==
  /\ saving[t] = "draft" /\ ~Awaiting(t)
  /\ LET r == IF session[t].pending # None THEN session[t].pending ELSE RequestOf(t, 0) IN
     /\ session' = [session EXCEPT ![t].pending = r]
     /\ net' = Sent(t, r)
  /\ saving' = [saving EXCEPT ![t] = "sent"]
  /\ UNCHANGED <<server, drafts, stray, local, opening, counters, history>>

UploadFails(t) ==
  /\ saving[t] = "draft" /\ ~Awaiting(t) /\ session[t].pending = None
  /\ faults < MaxFaults
  /\ faults' = faults + 1
  /\ session' = [session EXCEPT ![t].status = "error"]
  /\ saving' = [saving EXCEPT ![t] = "no"]
  /\ UNCHANGED <<server, drafts, net, stray, local, opening, edits, trashes, opens, history>>

---------------------------------------------------------------------------
(* The server's write.                                                     *)

Verdict(r) ==
  CASE server.last = r.id -> "ok"
    [] server.last # r.id /\ server.rev # r.rev -> "conflict"
    [] server.last # r.id /\ server.rev = r.rev /\ r.content \in server.unfit -> "refused"
    [] OTHER -> "ok"

Written(r) ==
  IF Verdict(r) = "ok" /\ server.last # r.id
  THEN [server EXCEPT !.rev = @ + 1, !.content = r.content, !.last = r.id] ELSE server

StillOf(rev) == {r \in stray : r.rev = rev}

Serve(t) ==
  /\ net[t] # None /\ net[t].answer = "none"
  /\ server' = Written(net[t].req)
  /\ stray' = StillOf(server'.rev)
  /\ held' = held \cup server'.content
  /\ net' = [net EXCEPT ![t].answer = Verdict(net[t].req), ![t].rev = server'.rev]
  /\ UNCHANGED <<drafts, session, saving, local, opening, counters, forgiven, outrun, mixed>>

ServeStray(r) ==
  /\ server' = Written(r)
  /\ stray' = StillOf(server'.rev) \ {r}
  /\ held' = held \cup server'.content
  /\ UNCHANGED <<drafts, session, saving, net, local, opening, counters, forgiven, outrun, mixed>>

---------------------------------------------------------------------------
(* The answer to a save.                                                   *)

Answered(t, step, answer) == saving[t] = step /\ net[t] # None /\ net[t].answer = answer

SaveOk(t) ==
  /\ Answered(t, "sent", "ok")
  /\ LET r == session[t].recovered IN
     local' = IF r = None THEN local ELSE ClearDraft(t, r[1], r[2], TRUE)
  /\ session' = [session EXCEPT ![t].rev = net[t].rev, ![t].recovered = None]
  /\ saving' = [saving EXCEPT ![t] = "settle"]
  /\ net' = [net EXCEPT ![t] = None]
  /\ UNCHANGED <<server, drafts, stray, opening, counters, history>>

\* Edits made during the save are not saved: their draft is kept.
Settle(t) ==
  /\ saving[t] = "settle" /\ ~Awaiting(t)
  /\ IF session[t].gen = session[t].pending.gen
     THEN /\ session' = [session EXCEPT ![t].status = "saved", ![t].pending = None]
          /\ local' = ClearDraft(t, t, TokenOf(t), TRUE)
     ELSE /\ session' = [session EXCEPT ![t].status = "dirty", ![t].pending = None]
          /\ local' = PersistDraft(t, TRUE)
  /\ saving' = [saving EXCEPT ![t] = "end"]
  /\ UNCHANGED <<server, drafts, net, stray, opening, counters, history>>

\* The end of flush: what became dirty during the save is scheduled.
EndSave(t) ==
  /\ saving[t] = "end" /\ ~Awaiting(t)
  /\ saving' = [saving EXCEPT ![t] = "no"]
  /\ session' = [session EXCEPT ![t].timer = @ \/ session[t].status = "dirty"]
  /\ UNCHANGED <<server, drafts, net, stray, local, opening, counters, history>>

\* The save ends in a failure; the request is kept unless it was refused for its content.
SaveFails(t) ==
  /\ \/ Answered(t, "sent", "conflict")
        /\ session' = [session EXCEPT ![t].status = "conflict"]
     \/ Answered(t, "sent", "refused")
        /\ LET cured == session[t].gen > session[t].pending.gen IN
           session' = [session EXCEPT ![t].pending = None, ![t].timer = @ \/ cured,
                         ![t].status = IF cured THEN "dirty" ELSE "error"]
  /\ saving' = [saving EXCEPT ![t] = "no"]
  /\ net' = [net EXCEPT ![t] = None]
  /\ UNCHANGED <<server, drafts, stray, local, opening, counters, history>>

\* The request or its answer is lost, whether or not the server gets it.
\* (a request of an older revision can do nothing more and is forgotten).
Unserved(t) ==
  IF net[t] # None /\ net[t].answer = "none" /\ net[t].req.rev = server.rev THEN {net[t].req} ELSE {}

\* Mutant: the request is forgotten with its answer, and a later save makes a new one.
LoseAndForget(t) ==
  /\ net[t] # None /\ faults < MaxFaults
  /\ faults' = faults + 1
  /\ stray' = stray \cup Unserved(t)
  /\ net' = [net EXCEPT ![t] = None]
  /\ saving' = [saving EXCEPT ![t] = "no"]
  /\ session' = [session EXCEPT ![t].status = IF saving[t] = "sent" THEN "error" ELSE @,
                   ![t].pending = None, ![t].life = "active"]
  /\ UNCHANGED <<server, drafts, local, opening, edits, trashes, opens, history>>

Lose(t) ==
  /\ net[t] # None /\ faults < MaxFaults
  /\ faults' = faults + 1
  /\ stray' = stray \cup Unserved(t)
  /\ net' = [net EXCEPT ![t] = None]
  /\ saving' = [saving EXCEPT ![t] = "no"]
  /\ session' = [session EXCEPT ![t].status = IF saving[t] = "sent" THEN "error" ELSE @,
                   ![t].life = IF saving[t] = "trash" THEN "active" ELSE @]
  /\ UNCHANGED <<server, drafts, local, opening, edits, trashes, opens, history>>

---------------------------------------------------------------------------
(* Moving the board to the trash: edits are refused, what is dirty is      *)
(* saved, and the write is made only on a saved board.                     *)

Trash(t) ==
  /\ Active(t) /\ trashes < MaxTrash
  /\ trashes' = trashes + 1
  /\ Flush(t, "trashing")
  /\ UNCHANGED <<server, drafts, net, stray, opening, edits, opens, faults, history>>

TrashFlushed(t) ==
  /\ Open(t) /\ session[t].life = "trashing" /\ saving[t] = "no"
  /\ IF session[t].status = "saved"
     THEN /\ net' = Sent(t, RequestOf(t, trashes))
          /\ saving' = [saving EXCEPT ![t] = "trash"]
          /\ UNCHANGED session
     ELSE /\ session' = [session EXCEPT ![t].life = "active"]
          /\ UNCHANGED <<net, saving>>
  /\ UNCHANGED <<server, drafts, stray, local, opening, edits, trashes, opens, faults, history>>

TrashOk(t) ==
  /\ Answered(t, "trash", "ok")
  /\ local' = ClearDraft(t, t, TokenOf(t), TRUE)
  /\ saving' = [saving EXCEPT ![t] = "retire"]
  /\ net' = [net EXCEPT ![t] = None]
  /\ session' = [session EXCEPT ![t].rev = net[t].rev]
  /\ UNCHANGED <<server, drafts, stray, opening, counters, history>>

TrashFails(t) ==
  /\ \E answer \in {"conflict", "refused"} : Answered(t, "trash", answer)
  /\ session' = [session EXCEPT ![t].life = "active"]
  /\ saving' = [saving EXCEPT ![t] = "no"]
  /\ net' = [net EXCEPT ![t] = None]
  /\ UNCHANGED <<server, drafts, stray, local, opening, counters, history>>

Retire(t) ==
  /\ saving[t] = "retire" /\ ~Awaiting(t)
  /\ session' = [session EXCEPT ![t] = None]
  /\ saving' = [saving EXCEPT ![t] = "no"]
  /\ UNCHANGED <<server, drafts, net, stray, local, opening, counters, history>>

---------------------------------------------------------------------------
(* Opening, discarding and leaving.                                        *)

\* readBoard; a session that is not saved is shown again as it is.
Fetch(t) ==
  /\ opening[t] = None /\ opens < MaxOpens
  /\ Open(t) => session[t].status = "saved" /\ session[t].rev # server.rev
  /\ opens' = opens + 1
  /\ opening' = [opening EXCEPT ![t] = [rev |-> server.rev, content |-> server.content]]
  /\ UNCHANGED <<server, drafts, session, saving, net, stray, local, edits, trashes, faults,
                 history>>

\* findDraft: the draft of this tab, or else the latest of another one.
Candidates(t) ==
  IF drafts[t] # None THEN {t} ELSE {u \in Tab : drafts[u] # None}

\* Mutant: a draft is taken as an edit of whatever revision was read.
NewSessionFromAnyDraft(t, u) ==
  [id |-> <<t, opens>>, rev |-> opening[t].rev, gen |-> 0, draftTimer |-> FALSE,
   content |-> IF u = None THEN opening[t].content ELSE drafts[u].content,
   localGen |-> IF u = None THEN None ELSE 0,
   timer |-> u # None, life |-> "active", pending |-> None,
   status |-> IF u = None THEN "saved" ELSE "dirty",
   recovered |-> IF u = None THEN None ELSE <<u, drafts[u].token>>, copies |-> {}]

\* A session begins from a draft of the revision that was read, or is in conflict.
NewSession(t, u) ==
  LET current == u # None /\ drafts[u].rev = opening[t].rev IN
  [id |-> <<t, opens>>, rev |-> opening[t].rev, gen |-> 0, draftTimer |-> FALSE,
   content |-> IF u = None THEN opening[t].content ELSE drafts[u].content,
   localGen |-> IF u = None THEN None ELSE 0,
   timer |-> current, life |-> "active", pending |-> None,
   status |-> IF u = None THEN "saved" ELSE IF current THEN "dirty" ELSE "conflict",
   recovered |-> IF u = None THEN None ELSE <<u, drafts[u].token>>, copies |-> {}]

\* A draft that says what the document says is dropped.  A session of this tab that is
\* dirty or newer by now is kept.
Build(t) ==
  /\ opening[t] # None
  /\ Open(t) => saving[t] = "no" /\ session[t].life = "active"
  /\ opening' = [opening EXCEPT ![t] = None]
  /\ \E u \in IF Candidates(t) = {} THEN {None} ELSE Candidates(t) :
       LET same == u # None /\ drafts[u].content = opening[t].content IN
       /\ local' = IF same THEN ClearDraft(t, u, drafts[u].token, FALSE) ELSE local
       /\ session' =
            IF Open(t) /\ (session[t].status # "saved" \/ session[t].rev >= opening[t].rev)
            THEN session
            ELSE [session EXCEPT ![t] = NewSession(t, IF same THEN None ELSE u)]
       /\ mixed' = IF u # None /\ drafts[u].token[1] \in mixed
                   THEN mixed \cup {<<t, opens>>} ELSE mixed
  /\ UNCHANGED <<server, drafts, saving, net, stray, counters, held, forgiven, outrun>>

\* In a conflict the user asks for a copy of the edits on a board of its own, and then for
\* the latest one: what is copied is what the session contains now (fork).
Copy(t) ==
  /\ Active(t) /\ session[t].status = "conflict" /\ session[t].copies = {}
  /\ session' = [session EXCEPT ![t].copies = {session[t].content}]
  /\ UNCHANGED <<server, drafts, saving, net, stray, local, opening, counters, history>>

\* The copy is made, and the session is discarded with what it contains by now.
CopyMade(t) ==
  /\ Open(t)
  /\ \E copy \in session[t].copies :
       held' = held \cup copy /\ outrun' = outrun \cup (session[t].content \ copy)
  /\ local' = [local EXCEPT ![t] =
       @ \o (IF session[t].recovered = None THEN <<>>
             ELSE <<[op |-> "clear", key |-> session[t].recovered[1],
                     token |-> session[t].recovered[2], awaited |-> FALSE]>>)
         \o <<[op |-> "wipe", key |-> t, awaited |-> FALSE]>>]
  /\ session' = [session EXCEPT ![t] = None]
  /\ UNCHANGED <<server, drafts, saving, net, stray, opening, counters, forgiven, mixed>>

\* An image or the copy could not be sent, or the answer was lost: the session stays.
CopyFails(t) ==
  /\ Open(t) /\ session[t].copies # {} /\ faults < MaxFaults
  /\ faults' = faults + 1
  /\ session' = [session EXCEPT ![t].copies = {}]
  /\ UNCHANGED <<server, drafts, saving, net, stray, local, opening, edits, trashes, opens,
                 history>>

\* The page is left or reloaded, by a user who was asked if the code asks: what it has
\* begun in the store may be undone, and a request may still arrive.
Close(t) ==
  /\ Open(t)
  /\ forgiven' = IF NeedsUnloadWarning(t) THEN forgiven \cup session[t].content ELSE forgiven
  /\ session' = [session EXCEPT ![t] = None]
  /\ opening' = [opening EXCEPT ![t] = None]
  /\ local' = [local EXCEPT ![t] = <<>>]
  /\ saving' = [saving EXCEPT ![t] = "no"]
  /\ stray' = stray \cup Unserved(t)
  /\ net' = [net EXCEPT ![t] = None]
  /\ UNCHANGED <<server, drafts, counters, held, outrun, mixed>>

---------------------------------------------------------------------------
Next ==
  \/ \E t \in Tab :
       \/ Change(t) \/ DraftTimer(t) \/ LocalEnds(t) \/ LocalFails(t)
       \/ SaveTimer(t) \/ Online(t) \/ Unmount(t) \/ Send(t) \/ UploadFails(t)
       \/ Serve(t) \/ SaveOk(t) \/ Settle(t) \/ EndSave(t) \/ SaveFails(t) \/ Lose(t)
       \/ Trash(t) \/ TrashFlushed(t) \/ TrashOk(t) \/ TrashFails(t) \/ Retire(t)
       \/ Fetch(t) \/ Build(t) \/ Copy(t) \/ CopyMade(t) \/ CopyFails(t) \/ Close(t)
  \/ \E r \in stray : ServeStray(r)

Spec == Init /\ [][Next]_vars

---------------------------------------------------------------------------
\* An edit is never lost without a word: it has been at the server, is in the draft
\* of some tab, is in a session whose page asks before it is left, or was given up by
\* the user (needsUnloadWarning and clearDraft's token, session.ts:162, drafts.ts:77).
\* The exception (outrun) is an edit made while a copy was made of the rest: the session
\* is discarded with it (LegacyWhiteboard.tsx:425).
EveryEditIsKept ==
  \A e \in 1..edits :
    \/ e \in held \cup forgiven \cup outrun
    \/ \E t \in Tab : drafts[t] # None /\ e \in drafts[t].content
    \/ \E t \in Tab : Open(t) /\ NeedsUnloadWarning(t) /\ e \in session[t].content

\* No write takes away an edit that its session has not seen: another tab's save is
\* never undone, whatever draft a session began from (session.ts:62, 189).  The
\* exception is what comes of a session that began in conflict and wrote a draft, after
\* an edit or because its editor was left (session.ts:137).
NothingOverwritten ==
  [][server.content \subseteq server'.content \/ server'.last[1] \in mixed]_server

\* The same without the exception: a window does not overwrite by itself what another
\* window saved first (docs/whiteboard.md:45).
NeverOverwritten == [][server.content \subseteq server'.content \cup forgiven]_server

\* A session is in conflict only with somebody else: a save whose answer was lost is
\* repeated under its own id and never meets itself (session.ts:181, 222).  A trash is
\* not repeated in this way, so a session that tried one is excepted.
ConflictIsReal ==
  \A t \in Tab :
    Open(t) /\ session[t].status = "conflict" /\ trashes = 0 => server.last[1] # session[t].id

\* What is not saved is being tried: a dirty session has its timer or a save under way,
\* also after edits that came during a save, a refusal or a trash (session.ts:175).
DirtyIsScheduled ==
  \A t \in Tab :
    Open(t) /\ session[t].status \in {"dirty", "saving"} => session[t].timer \/ saving[t] # "no"

\* Every edit is kept somewhere, and a dirty one is on its way to the server.
EditsAreSafe == EveryEditIsKept /\ DirtyIsScheduled
============================================================================
