----------------------- MODULE WhiteboardSessionProof -----------------------
(***************************************************************************)
(* Proofs about WhiteboardSession, for any tabs, edits, faults, openings   *)
(* and trashes: the types, that no save undoes another's, that no edit is  *)
(* lost without a word, that what is not saved is on its way to the        *)
(* server, and that a session never conflicts with itself.                 *)
(*                                                                         *)
(* The first invariant, IInv, is about the requests and what is saved.     *)
(* Five more parts are proved with it as a lemma:                          *)
(*   ScheduleInv  a session that is not saved has a timer or a save;       *)
(*   HeldInv      what was answered or read has been at the server;        *)
(*   TokenInv     a draft is cleared only when what it says is known;      *)
(*   StoreInv     what is begun in the store replaces a draft by more;     *)
(*   and that every edit is kept.                                          *)
(* For conflicts, TurnInv follows the requests of a session, and what it   *)
(* wrote last, while nobody has moved the board to the trash.              *)
(***************************************************************************)
EXTENDS WhiteboardSession, SequenceTheorems, TLAPS

\* Every request that was made and may still be made or repeated.
Requests ==
  stray \cup {net[t].req : t \in {u \in Tab : net[u] # None}}
        \cup {session[t].pending : t \in {u \in Tab : Open(u) /\ session[u].pending # None}}

\* Every draft, stored or on its way to the store.
PutsOf(t) == {i \in DOMAIN local[t] : local[t][i].op = "put"}
Drafts ==
  {drafts[t] : t \in {u \in Tab : drafts[u] # None}}
    \cup {d \in Draft : \E t \in Tab : \E i \in PutsOf(t) : d = local[t][i].draft}

\* What a session (by its generation) has been said to contain.
ClaimOf(id, gen, content) == [id |-> id, gen |-> gen, content |-> content]
SessionClaim(t) == ClaimOf(session[t].id, session[t].gen, session[t].content)
RequestClaim(r) == ClaimOf(r.id[1], r.id[2], r.content)
DraftClaim(d) == ClaimOf(d.token[1], d.token[2], d.content)
ServerClaim == ClaimOf(server.last[1], server.last[2], server.content)
Claims ==
  {SessionClaim(t) : t \in {u \in Tab : Open(u)}} \cup {RequestClaim(r) : r \in Requests}
    \cup {DraftClaim(d) : d \in Drafts} \cup {ServerClaim}

\* The content c of the session i is no older than its revision r says.
Fresh(i, r, c) == r <= server.rev /\ (r = server.rev /\ i \notin mixed => server.content \subseteq c)

\* The bounds that types need.
BoundInv ==
  /\ edits <= MaxEdits /\ opens <= MaxOpens
  /\ \A t \in Tab : Open(t) => session[t].gen <= edits
  /\ \A t \in Tab : opening[t] # None => opens >= 1

\* Who a session is, and what it has under way.
Own(t) ==
  /\ saving[t] # "no" => Open(t)
  /\ net[t] # None => saving[t] \in {"sent", "trash"} /\ net[t].req.id[1] = session[t].id
  /\ Open(t) => /\ session[t].id[1] = t
                /\ session[t].status = "conflict" => saving[t] = "no"
                /\ session[t].pending # None => session[t].pending.id[1] = session[t].id
                /\ session[t].copies # {} => session[t].status = "conflict"
OwnInv == \A t \in Tab : Own(t)

\* A session grows, and only by its own edits.
Bounded(c) ==
  c.id # None =>
    /\ c.id[2] <= opens /\ (opening[c.id[1]] # None => c.id[2] < opens)
    /\ \A t \in Tab : Open(t) /\ session[t].id = c.id => c.gen <= session[t].gen
ClaimInv ==
  /\ \A c \in Claims : Bounded(c)
  /\ \A c, d \in Claims : c.id = d.id /\ c.gen <= d.gen => c.content \subseteq d.content

\* Only a session that began in conflict may contain less than its revision.
FreshSession(t) ==
  /\ session[t].rev <= server.rev
  /\ \/ Fresh(session[t].id, session[t].rev, session[t].content)
     \/ BeganInConflict(t)
FreshDraft(d) == Fresh(d.token[1], d.rev, d.content)

FreshSessions == \A t \in Tab : Open(t) => FreshSession(t)
FreshRequests == \A r \in Requests : Fresh(r.id[1], r.rev, r.content)
FreshDrafts == \A t \in Tab : drafts[t] # None => FreshDraft(drafts[t])
FreshPuts ==
  \A t \in Tab : \A i \in DOMAIN local[t] :
    local[t][i].op = "put" => FreshDraft(local[t][i].draft)
FreshAnswers ==
  \A t \in Tab : net[t] # None /\ net[t].answer = "ok" =>
    net[t].rev <= server.rev /\ (net[t].rev = server.rev => server.content = net[t].req.content)
FreshReads ==
  \A t \in Tab : opening[t] # None =>
    /\ opening[t].rev <= server.rev
    /\ opening[t].rev = server.rev => server.content \subseteq opening[t].content
FreshInv ==
  FreshSessions /\ FreshRequests /\ FreshDrafts /\ FreshPuts /\ FreshAnswers /\ FreshReads

SaveInv == BoundInv /\ OwnInv /\ ClaimInv /\ FreshInv
IInv == TypeOK /\ SaveInv

-----------------------------------------------------------------------------
(* The sessions of a step *)

Statuses == {"saved", "dirty", "saving", "error", "conflict"}
SessionType == session \in [Tab -> Session \cup {None}]

\* The fields of a session have their types.
LEMMA Fields ==
  \A s \in Session :
    /\ s.id \in SessionId /\ s.rev \in Nat /\ s.content \in SUBSET Edit /\ s.gen \in 0..MaxEdits
    /\ s.localGen \in 0..MaxEdits \cup {None} /\ s.timer \in BOOLEAN /\ s.draftTimer \in BOOLEAN
    /\ s.status \in Statuses /\ s.life \in {"active", "trashing"}
    /\ s.pending \in Request \cup {None} /\ s.recovered \in (Tab \X Token) \cup {None}
    /\ s.copies \in SUBSET SUBSET Edit
BY DEF Session, Statuses

\* z is the session s with another status and request; its document may have got a new
\* revision.  Only in a conflict is it copied.
Same(s, z) == z.id = s.id /\ z.content = s.content /\ z.gen = s.gen
Updated(s, z, rev, status, pending) ==
  /\ z \in Session /\ Same(s, z) /\ z.rev = rev /\ z.status = status /\ z.pending = pending
  /\ z.copies # {} => s.copies # {} \/ s.status = "conflict"

LEMMA SetDraftTimer ==
  ASSUME NEW s \in Session, NEW d \in BOOLEAN
  PROVE  Updated(s, [s EXCEPT !.draftTimer = d], s.rev, s.status, s.pending)
BY DEF Session, Updated, Same, Statuses

LEMMA SetLocalGen ==
  ASSUME NEW s \in Session, NEW g \in 0..MaxEdits
  PROVE  Updated(s, [s EXCEPT !.localGen = g], s.rev, s.status, s.pending)
BY DEF Session, Updated, Same, Statuses

LEMMA SetTimer ==
  ASSUME NEW s \in Session, NEW w \in BOOLEAN
  PROVE  Updated(s, [s EXCEPT !.timer = w], s.rev, s.status, s.pending)
BY DEF Session, Updated, Same, Statuses

LEMMA SetStatus ==
  ASSUME NEW s \in Session, NEW v \in Statuses
  PROVE  Updated(s, [s EXCEPT !.status = v], s.rev, v, s.pending)
BY DEF Session, Updated, Same, Statuses

LEMMA SetLife ==
  ASSUME NEW s \in Session, NEW l \in {"active", "trashing"}
  PROVE  Updated(s, [s EXCEPT !.life = l], s.rev, s.status, s.pending)
BY DEF Session, Updated, Same, Statuses

LEMMA SetPending ==
  ASSUME NEW s \in Session, NEW p \in Request \cup {None}
  PROVE  Updated(s, [s EXCEPT !.pending = p], s.rev, s.status, p)
BY DEF Session, Updated, Same, Statuses

LEMMA SetFlushed ==
  ASSUME NEW s \in Session, NEW w \in BOOLEAN, NEW l \in {"active", "trashing"}, NEW v \in Statuses
  PROVE  Updated(s, [s EXCEPT !.timer = w, !.life = l, !.status = v], s.rev, v, s.pending)
BY DEF Session, Updated, Same, Statuses

LEMMA SetSettled ==
  ASSUME NEW s \in Session, NEW v \in Statuses, NEW p \in Request \cup {None}
  PROVE  Updated(s, [s EXCEPT !.status = v, !.pending = p], s.rev, v, p)
BY DEF Session, Updated, Same, Statuses

LEMMA SetRefused ==
  ASSUME NEW s \in Session, NEW p \in Request \cup {None}, NEW w \in BOOLEAN, NEW v \in Statuses
  PROVE  Updated(s, [s EXCEPT !.pending = p, !.timer = w, !.status = v], s.rev, v, p)
BY DEF Session, Updated, Same, Statuses

LEMMA SetLost ==
  ASSUME NEW s \in Session, NEW v \in Statuses, NEW l \in {"active", "trashing"}
  PROVE  Updated(s, [s EXCEPT !.status = v, !.life = l], s.rev, v, s.pending)
BY DEF Session, Updated, Same, Statuses

LEMMA SetSaved ==
  ASSUME NEW s \in Session, NEW r \in Nat
  PROVE  Updated(s, [s EXCEPT !.rev = r, !.recovered = None], r, s.status, s.pending)
BY DEF Session, Updated, Same, Statuses

LEMMA SetRev ==
  ASSUME NEW s \in Session, NEW r \in Nat
  PROVE  Updated(s, [s EXCEPT !.rev = r], r, s.status, s.pending)
BY DEF Session, Updated, Same, Statuses

LEMMA SetCopies ==
  ASSUME NEW s \in Session, NEW c \in SUBSET SUBSET Edit, c # {} => s.status = "conflict"
  PROVE  Updated(s, [s EXCEPT !.copies = c], s.rev, s.status, s.pending)
BY DEF Session, Updated, Same, Statuses

\* z is the session s with another content.
Edited(s, z, content, gen, status) ==
  /\ z \in Session /\ z.id = s.id /\ z.rev = s.rev /\ z.content = content /\ z.gen = gen
  /\ z.status = status /\ z.pending = s.pending /\ z.copies = s.copies

LEMMA SetEdited ==
  ASSUME NEW s \in Session, NEW c \in SUBSET Edit, NEW g \in 0..MaxEdits, NEW w \in BOOLEAN,
         NEW v \in Statuses
  PROVE  Edited(s, [s EXCEPT !.content = c, !.gen = g, !.draftTimer = TRUE, !.timer = w, !.status = v],
                c, g, v)
BY DEF Session, Statuses, Edited

\* The session of t becomes z.
Becomes(t, z) == session' = [session EXCEPT ![t] = z]

LEMMA Became ==
  ASSUME NoneAssumption, SessionType, NEW t \in Tab, NEW z \in Session, Becomes(t, z)
  PROVE  /\ SessionType'
         /\ session'[t] = z /\ Open(t)'
         /\ \A u \in Tab \ {t} : session'[u] = session[u] /\ (Open(u)' <=> Open(u))
BY DEF NoneAssumption, SessionType, Becomes, Open

LEMMA OpenSession ==
  ASSUME SessionType, NEW t \in Tab, Open(t)
  PROVE  session[t] \in Session
BY DEF SessionType, Open

(* What an action makes of the session of its tab.                         *)

\* The session of t becomes z, the same with another revision, status and request.
Turns(t, rev, status, pending) ==
  \E z : Becomes(t, z) /\ Updated(session[t], z, rev, status, pending)

LEMMA DraftTimerTurns ==
  ASSUME SessionType, NEW t \in Tab, DraftTimer(t)
  PROVE  Turns(t, session[t].rev, session[t].status, session[t].pending)
<1>1. session[t] \in Session  BY OpenSession DEF DraftTimer
<1> QED  BY <1>1, SetDraftTimer DEF DraftTimer, Turns, Becomes, SessionType

LEMMA FlushTurns ==
  ASSUME SessionType, NEW t \in Tab, Open(t), NEW l \in {"active", "trashing"}, Flush(t, l)
  PROVE  Turns(t, session[t].rev, IF CanSave(t) THEN "saving" ELSE session[t].status,
               session[t].pending)
<1> DEFINE v == IF CanSave(t) THEN "saving" ELSE session[t].status
<1>1. session[t] \in Session /\ v \in Statuses  BY OpenSession, Fields DEF Statuses
<1>2. session' = [session EXCEPT ![t] = [session[t] EXCEPT !.timer = FALSE, !.life = l, !.status = v]]
  BY DEF Flush, SessionType
<1> HIDE DEF v
<1>3. Updated(session[t], [session[t] EXCEPT !.timer = FALSE, !.life = l, !.status = v], session[t].rev, v,
              session[t].pending)
  BY <1>1, SetFlushed
<1>4. Turns(t, session[t].rev, v, session[t].pending)
  BY <1>2, <1>3 DEF Turns, Becomes
<1> QED  BY <1>4 DEF v

LEMMA Made ==
  ASSUME BoardAssumption, SessionType, NEW t \in Tab, Open(t), NEW k \in Nat
  PROVE  RequestOf(t, k) \in Request /\ DraftOf(t) \in Draft /\ TokenOf(t) \in Token
<1>1. session[t] \in Session  BY OpenSession
<1>2. <<session[t].id, session[t].gen, k>> \in Mutation  BY <1>1, Fields DEF Mutation
<1>3. TokenOf(t) \in Token  BY <1>1, Fields DEF TokenOf, Token
<1> QED  BY <1>1, <1>2, <1>3, Fields DEF RequestOf, Request, DraftOf, Draft

\* The request of a save that is sent.
ToSend(t) == IF session[t].pending # None THEN session[t].pending ELSE RequestOf(t, 0)

LEMMA SendTurns ==
  ASSUME BoardAssumption, SessionType, NEW t \in Tab, Open(t), Send(t)
  PROVE  /\ ToSend(t) \in Request
         /\ Turns(t, session[t].rev, session[t].status, ToSend(t))
<1>1. session[t] \in Session /\ 0 \in Nat  BY OpenSession
<1>2. ToSend(t) \in Request  BY <1>1, Made, Fields DEF ToSend
<1>3. session' = [session EXCEPT ![t] = [session[t] EXCEPT !.pending = ToSend(t)]]
  BY DEF Send, SessionType, ToSend
<1> QED  BY <1>1, <1>2, <1>3, SetPending DEF Turns, Becomes

LEMMA StatusTurns ==
  ASSUME SessionType, NEW t \in Tab, Open(t), NEW v \in Statuses,
         session' = [session EXCEPT ![t].status = v]
  PROVE  Turns(t, session[t].rev, v, session[t].pending)
<1>1. session[t] \in Session  BY OpenSession
<1>2. session' = [session EXCEPT ![t] = [session[t] EXCEPT !.status = v]]  BY DEF SessionType
<1> QED  BY <1>1, <1>2, SetStatus DEF Turns, Becomes

LEMMA SettleTurns ==
  ASSUME SessionType, NEW t \in Tab, Open(t), Settle(t)
  PROVE  \E v \in {"saved", "dirty"} :
           Turns(t, session[t].rev, v, None)
<1>1. session[t] \in Session  BY OpenSession
<1>2. PICK v \in {"saved", "dirty"} :
        session' = [session EXCEPT ![t] = [session[t] EXCEPT !.status = v, !.pending = None]]
  BY DEF Settle, SessionType
<1>3. v \in Statuses /\ None \in Request \cup {None}  BY DEF Statuses
<1> QED  BY <1>1, <1>2, <1>3, SetSettled DEF Turns, Becomes

LEMMA EndSaveTurns ==
  ASSUME SessionType, NEW t \in Tab, Open(t), EndSave(t)
  PROVE  Turns(t, session[t].rev, session[t].status, session[t].pending)
<1> DEFINE w == session[t].timer \/ session[t].status = "dirty"
<1>1. session[t] \in Session /\ w \in BOOLEAN  BY OpenSession
<1>2. session' = [session EXCEPT ![t] = [session[t] EXCEPT !.timer = w]]
  BY DEF EndSave, SessionType
<1> HIDE DEF w
<1> QED  BY <1>1, <1>2, SetTimer DEF Turns, Becomes

LEMMA SaveFailsTurns ==
  ASSUME SessionType, NEW t \in Tab, Open(t), SaveFails(t)
  PROVE  \E v \in {"conflict", "dirty", "error"}, p \in {session[t].pending, None} :
           Turns(t, session[t].rev, v, p)
<1>1. session[t] \in Session  BY OpenSession
<1>2. CASE session' = [session EXCEPT ![t].status = "conflict"]
  BY <1>2, StatusTurns DEF Statuses
<1>3. CASE Answered(t, "sent", "refused")
  <2> DEFINE cured == session[t].gen > session[t].pending.gen
             w == session[t].timer \/ cured
             v == IF cured THEN "dirty" ELSE "error"
  <2>1. w \in BOOLEAN /\ v \in {"dirty", "error"}  OBVIOUS
  <2>2. session' = [session EXCEPT ![t] = [session[t] EXCEPT !.pending = None, !.timer = w, !.status = v]]
    BY <1>3 DEF SaveFails, SessionType, Answered
  <2> HIDE DEF w, v
  <2>3. v \in Statuses /\ None \in Request \cup {None}  BY <2>1 DEF Statuses
  <2>4. Turns(t, session[t].rev, v, None)
    BY <1>1, <2>1, <2>2, <2>3, SetRefused DEF Turns, Becomes
  <2> QED  BY <2>1, <2>4
<1> QED  BY <1>2, <1>3 DEF SaveFails

LEMMA LoseTurns ==
  ASSUME SessionType, NEW t \in Tab, Open(t), Lose(t)
  PROVE  \E v \in {session[t].status, "error"} :
           Turns(t, session[t].rev, v, session[t].pending)
<1> DEFINE v == IF saving[t] = "sent" THEN "error" ELSE session[t].status
           l == IF saving[t] = "trash" THEN "active" ELSE session[t].life
<1>1. session[t] \in Session /\ v \in Statuses /\ l \in {"active", "trashing"}
  BY OpenSession, Fields DEF Statuses
<1>2. session' = [session EXCEPT ![t] = [session[t] EXCEPT !.status = v, !.life = l]]
  BY DEF Lose, SessionType
<1>3. v \in {session[t].status, "error"}  OBVIOUS
<1> HIDE DEF v, l
<1> QED  BY <1>1, <1>2, <1>3, SetLost DEF Turns, Becomes

LEMMA LifeTurns ==
  ASSUME SessionType, NEW t \in Tab, Open(t), session' = [session EXCEPT ![t].life = "active"]
  PROVE  Turns(t, session[t].rev, session[t].status, session[t].pending)
<1>1. session[t] \in Session  BY OpenSession
<1>2. session' = [session EXCEPT ![t] = [session[t] EXCEPT !.life = "active"]]  BY DEF SessionType
<1> QED  BY <1>1, <1>2, SetLife DEF Turns, Becomes

LEMMA KeepDraftTurns ==
  ASSUME SessionType, NEW t \in Tab, KeepDraft(t)
  PROVE  Turns(t, session[t].rev, session[t].status, session[t].pending)
<1>1. session[t] \in Session  BY OpenSession DEF KeepDraft
<1>2. session' = [session EXCEPT ![t] = [session[t] EXCEPT !.timer = FALSE]]
  BY DEF KeepDraft, SessionType
<1> QED  BY <1>1, <1>2, SetTimer DEF Turns, Becomes

LEMMA CopyTurns ==
  ASSUME SessionType, NEW t \in Tab, Copy(t) \/ CopyFails(t)
  PROVE  Open(t) /\ Turns(t, session[t].rev, session[t].status, session[t].pending)
<1>1. Open(t)  BY DEF Copy, CopyFails, Active
<1>2. session[t] \in Session /\ session[t].content \in SUBSET Edit  BY <1>1, OpenSession, Fields
<1>3. PICK c \in SUBSET SUBSET Edit :
        /\ c # {} => session[t].status = "conflict"
        /\ session' = [session EXCEPT ![t] = [session[t] EXCEPT !.copies = c]]
  <2>1. CASE Copy(t)
    <3>1. {session[t].content} \in SUBSET SUBSET Edit  BY <1>2
    <3> QED  BY <2>1, <3>1 DEF Copy, SessionType
  <2>2. CASE CopyFails(t)  BY <2>2 DEF CopyFails, SessionType
  <2> QED  BY <2>1, <2>2
<1> QED  BY <1>1, <1>2, <1>3, SetCopies DEF Turns, Becomes

LEMMA SaveOkTurns ==
  ASSUME SessionType, NEW t \in Tab, Open(t), SaveOk(t), net[t].rev \in Nat
  PROVE  Turns(t, net[t].rev, session[t].status, session[t].pending)
<1>1. session[t] \in Session  BY OpenSession
<1>2. session' = [session EXCEPT ![t] = [session[t] EXCEPT !.rev = net[t].rev, !.recovered = None]]
  BY DEF SaveOk, SessionType
<1> QED  BY <1>1, <1>2, SetSaved DEF Turns, Becomes

LEMMA TrashOkTurns ==
  ASSUME SessionType, NEW t \in Tab, Open(t), TrashOk(t), net[t].rev \in Nat
  PROVE  Turns(t, net[t].rev, session[t].status, session[t].pending)
<1>1. session[t] \in Session  BY OpenSession
<1>2. session' = [session EXCEPT ![t] = [session[t] EXCEPT !.rev = net[t].rev]]
  BY DEF TrashOk, SessionType
<1> QED  BY <1>1, <1>2, SetRev DEF Turns, Becomes

\* The first operation of a tab on the store, and the rest.
LEMMA Operations ==
  ASSUME NEW q \in Seq(Operation), q # <<>>
  PROVE  /\ Head(q) \in Operation /\ Tail(q) \in Seq(Operation)
         /\ \A i \in DOMAIN Tail(q) : i + 1 \in DOMAIN q /\ Tail(q)[i] = q[i + 1]
         /\ 1 \in DOMAIN q /\ Head(q) = q[1]
         /\ Head(q).op = "put" => Head(q).draft \in Draft
<1>1. /\ Head(q) \in Operation /\ Tail(q) \in Seq(Operation)
      /\ \A i \in DOMAIN Tail(q) : i + 1 \in DOMAIN q /\ Tail(q)[i] = q[i + 1]
      /\ 1 \in DOMAIN q /\ Head(q) = q[1]
  BY HeadTailProperties, EmptySeq, LenProperties
<1>2. \A x \in Operation : x.op = "put" => x.draft \in Draft  BY DEF Operation
<1> QED  BY <1>1, <1>2

LEMMA LocalEndsTurns ==
  ASSUME SessionType, NEW t \in Tab, LocalEnds(t), local[t] \in Seq(Operation)
  PROVE  \/ UNCHANGED session
         \/ /\ Open(t)
            /\ Turns(t, session[t].rev, session[t].status, session[t].pending)
<1> DEFINE op == Head(local[t])
<1>1. CASE op.op = "put" /\ Open(t) /\ session[t].id = op.draft.token[1]
  <2>1. session[t] \in Session  BY <1>1, OpenSession
  <2>2. op.draft.token[2] \in 0..MaxEdits
    BY <1>1, Operations DEF LocalEnds, Draft, Token
  <2>3. session' = [session EXCEPT ![t] = [session[t] EXCEPT !.localGen = op.draft.token[2]]]
    BY <1>1 DEF LocalEnds, Acknowledge, SessionType
  <2> HIDE DEF op
  <2> QED  BY <1>1, <2>1, <2>2, <2>3, SetLocalGen DEF Turns, Becomes
<1>2. CASE ~(op.op = "put" /\ Open(t) /\ session[t].id = op.draft.token[1])
  BY <1>2 DEF LocalEnds, Acknowledge
<1> QED  BY <1>1, <1>2

\* A change adds an edit and is the next generation.
LEMMA ChangeTurns ==
  ASSUME BoardAssumption, SessionType, BoundInv, edits \in Nat, NEW t \in Tab, Change(t)
  PROVE  \E z : \E v \in Statuses :
           /\ Becomes(t, z) /\ (v = "conflict" <=> session[t].status = "conflict")
           /\ Edited(session[t], z, session[t].content \cup {edits + 1}, session[t].gen + 1, v)
<1> DEFINE s == session[t]
           c == s.content \cup {edits + 1}
           g == s.gen + 1
           w == s.timer \/ s.status # "conflict"
           v == IF s.status = "conflict" THEN s.status ELSE "dirty"
<1>1. Open(t) /\ s \in Session /\ edits < MaxEdits /\ MaxEdits \in Nat
  BY OpenSession DEF Change, Active, BoardAssumption
<1>2. /\ c \in SUBSET Edit /\ g \in 0..MaxEdits /\ w \in BOOLEAN /\ v \in Statuses
      /\ (v = "conflict" <=> s.status = "conflict")
  BY <1>1, Fields DEF BoundInv, Edit, Statuses
<1>3. session' = [session EXCEPT ![t] =
        [s EXCEPT !.content = c, !.gen = g, !.draftTimer = TRUE, !.timer = w, !.status = v]]
  BY DEF Change, SessionType
<1> HIDE DEF c, g, w, v, s
<1>4. Edited(s, [s EXCEPT !.content = c, !.gen = g, !.draftTimer = TRUE, !.timer = w, !.status = v],
             c, g, v)
  BY <1>1, <1>2, SetEdited
<1>5. \E z : Becomes(t, z) /\ Edited(s, z, c, g, v)
  BY <1>3, <1>4 DEF Becomes
<1> QED  BY <1>2, <1>5 DEF c, g, s

\* z is what a session of t begins with, from the draft of u or from none.
Begins(t, u, z) ==
  /\ z \in Session
  /\ z.id = <<t, opens>> /\ z.gen = 0 /\ z.rev = opening[t].rev
  /\ z.content = (IF u = None THEN opening[t].content ELSE drafts[u].content)
  /\ z.pending = None /\ z.copies = {}
  /\ (z.status = "conflict" <=> (u # None /\ drafts[u].rev # opening[t].rev))

LEMMA NewSessions ==
  ASSUME BoardAssumption, TypeOK, BoundInv, NEW t \in Tab, opening[t] # None,
         NEW u \in Tab \cup {None}, u # None => drafts[u] # None
  PROVE  Begins(t, u, NewSession(t, u))
<1> USE DEF Begins
<1>1. opening[t].rev \in Nat /\ opening[t].content \in SUBSET Edit  BY DEF TypeOK
<1>2. <<t, opens>> \in SessionId /\ 0 \in 0..MaxEdits
  BY DEF TypeOK, BoundInv, SessionId, BoardAssumption
<1>3. CASE u = None
  BY <1>1, <1>2, <1>3 DEF NewSession, Session
<1>4. CASE u # None
  <2>1. u \in Tab /\ drafts[u] \in Draft  BY <1>4 DEF TypeOK
  <2>2. drafts[u].rev \in Nat /\ drafts[u].content \in SUBSET Edit /\ drafts[u].token \in Token
    BY <2>1 DEF Draft
  <2>3. <<u, drafts[u].token>> \in Tab \X Token  BY <2>1, <2>2
  <2> QED  BY <1>1, <1>2, <1>4, <2>1, <2>2, <2>3 DEF NewSession, Session
<1> QED  BY <1>3, <1>4

\* The types of the variables other than the sessions.
RestType ==
  /\ server \in [rev : Nat, content : SUBSET Edit, last : Mutation, unfit : Unfit]
  /\ drafts \in [Tab -> Draft \cup {None}]
  /\ saving \in [Tab -> {"no", "draft", "sent", "settle", "end", "trash", "retire"}]
  /\ net \in [Tab -> [req : Request, answer : {"none", "ok", "conflict", "refused"}, rev : Nat]
                       \cup {None}]
  /\ stray \subseteq Request
  /\ local \in [Tab -> Seq(Operation)]
  /\ opening \in [Tab -> [rev : Nat, content : SUBSET Edit] \cup {None}]
  /\ held \subseteq Edit /\ forgiven \subseteq Edit /\ outrun \subseteq Edit
  /\ mixed \subseteq SessionId
  /\ <<edits, trashes, opens, faults>> \in Nat \X Nat \X Nat \X Nat

ServerType == [rev : Nat, content : SUBSET Edit, last : Mutation, unfit : Unfit]
NetType ==
  [Tab -> [req : Request, answer : {"none", "ok", "conflict", "refused"}, rev : Nat] \cup {None}]

\* What is begun in the store is an operation.
LEMMA Begun ==
  ASSUME NEW t \in Tab, local \in [Tab -> Seq(Operation)], NEW awaited \in BOOLEAN
  PROVE  /\ DraftOf(t) \in Draft => PersistDraft(t, awaited) \in [Tab -> Seq(Operation)]
         /\ \A key \in Tab, token \in Token : ClearDraft(t, key, token, awaited) \in [Tab -> Seq(Operation)]
<1>1. local[t] \in Seq(Operation)  OBVIOUS
<1>2. ASSUME DraftOf(t) \in Draft PROVE PersistDraft(t, awaited) \in [Tab -> Seq(Operation)]
  <2>1. [op |-> "put", key |-> t, draft |-> DraftOf(t), awaited |-> awaited] \in Operation
    BY <1>2 DEF Operation
  <2> QED  BY <1>1, <2>1, AppendProperties DEF PersistDraft
<1>3. ASSUME NEW key \in Tab, NEW token \in Token
      PROVE  ClearDraft(t, key, token, awaited) \in [Tab -> Seq(Operation)]
  <2>1. [op |-> "clear", key |-> key, token |-> token, awaited |-> awaited] \in Operation
    BY DEF Operation
  <2> QED  BY <1>1, <2>1, AppendProperties DEF ClearDraft
<1> QED  BY <1>2, <1>3

LEMMA StoredType ==
  ASSUME NEW op \in Operation, drafts \in [Tab -> Draft \cup {None}]
  PROVE  Stored(op) \in [Tab -> Draft \cup {None}]
<1>1. CASE op.op = "put"
  <2>1. op.draft \in Draft  BY <1>1 DEF Operation
  <2> QED  BY <1>1, <2>1 DEF Stored
<1>2. CASE op.op = "wipe"  BY <1>2 DEF Stored
<1>3. CASE op.op = "clear"  BY <1>3 DEF Stored
<1> QED  BY <1>1, <1>2, <1>3 DEF Operation

Wrote(z, n, c, m) == z \in ServerType /\ z.rev = n /\ z.content = c /\ z.last = m

LEMMA SetWritten ==
  ASSUME NEW s \in ServerType, NEW n \in Nat, NEW c \in SUBSET Edit, NEW m \in Mutation
  PROVE  Wrote([s EXCEPT !.rev = n, !.content = c, !.last = m], n, c, m)
BY DEF ServerType, Wrote

LEMMA WriteType ==
  ASSUME server \in ServerType, NEW r \in Request
  PROVE  /\ Verdict(r) \in {"ok", "conflict", "refused"}
         /\ Written(r) \in ServerType
         /\ \/ Written(r) = server
            \/ /\ Verdict(r) = "ok" /\ server.rev = r.rev
               /\ Written(r).rev = server.rev + 1 /\ Written(r).content = r.content
               /\ Written(r).last = r.id
         /\ Verdict(r) = "ok" => Written(r).last = r.id
<1>1. Verdict(r) \in {"ok", "conflict", "refused"}  BY DEF Verdict
<1>2. CASE Verdict(r) = "ok" /\ server.last # r.id
  <2>1. server.rev = r.rev  BY <1>2 DEF Verdict
  <2> DEFINE n == server.rev + 1
  <2>2. Written(r) = [server EXCEPT !.rev = n, !.content = r.content, !.last = r.id]
    BY <1>2 DEF Written
  <2>3. r.content \in SUBSET Edit /\ r.id \in Mutation /\ n \in Nat
    BY DEF Request, ServerType
  <2> HIDE DEF n
  <2>4. Wrote([server EXCEPT !.rev = n, !.content = r.content, !.last = r.id], n, r.content, r.id)
    BY <2>3, SetWritten
  <2>5. Wrote(Written(r), n, r.content, r.id)  BY <2>2, <2>4
  <2> QED  BY <1>1, <1>2, <2>1, <2>5 DEF n, Wrote
<1>3. CASE ~(Verdict(r) = "ok" /\ server.last # r.id)
  BY <1>1, <1>3 DEF Written
<1> QED  BY <1>2, <1>3

LEMMA SentType ==
  ASSUME net \in NetType, NEW t \in Tab, NEW r \in Request
  PROVE  Sent(t, r) \in NetType
BY DEF Sent, NetType

LEMMA UnservedType ==
  ASSUME net \in NetType, NEW t \in Tab
  PROVE  Unserved(t) \subseteq Request
BY DEF Unserved, NetType

\* A tab with something under way has a session.
LEMMA Busy ==
  ASSUME OwnInv, NEW t \in Tab, saving[t] # "no" \/ net[t] # None
  PROVE  Open(t)
BY DEF OwnInv, Own

\* The variables other than the sessions keep their types.
LEMMA RestTyped ==
  ASSUME BoardAssumption, NoneAssumption, TypeOK, OwnInv, BoundInv, [Next]_vars
  PROVE  RestType'
<1> USE DEF ServerType, NetType
<1>a. SessionType /\ RestType /\ server \in ServerType /\ net \in NetType /\ stray \subseteq Request
  BY DEF TypeOK, SessionType, RestType
<1>b. local \in [Tab -> Seq(Operation)] /\ drafts \in [Tab -> Draft \cup {None}]
  BY <1>a DEF RestType
<1>1. ASSUME NEW t \in Tab, Change(t) PROVE RestType'
  <2>1. Open(t) /\ edits < MaxEdits /\ MaxEdits \in Nat /\ session[t].id \in SessionId
    BY <1>1, <1>a, OpenSession, Fields DEF Change, Active, BoardAssumption
  <2>2. /\ edits' = edits + 1
        /\ UNCHANGED <<server, drafts, saving, net, stray, local, opening, trashes, opens, faults,
                       held, forgiven, outrun, mixed>>
    BY <1>1 DEF Change, history
  <2>3. /\ edits \in Nat /\ trashes \in Nat /\ opens \in Nat /\ faults \in Nat
    BY <1>a DEF RestType
  <2>4. <<edits', trashes', opens', faults'>> \in Nat \X Nat \X Nat \X Nat  BY <2>2, <2>3
  <2> QED  BY <1>a, <2>2, <2>4 DEF RestType
<1>2. ASSUME NEW t \in Tab, DraftTimer(t) \/ KeepDraft(t) PROVE RestType'
  <2>1. DraftOf(t) \in Draft /\ session[t].id \in SessionId
    BY <1>2, <1>a, Made, OpenSession, Fields DEF DraftTimer, KeepDraft
  <2>2. local' \in {local, PersistDraft(t, FALSE)} /\ mixed' \in {mixed, mixed \cup {session[t].id}}
    BY <1>2 DEF DraftTimer, KeepDraft, MixedByDraft
  <2>3. local' \in [Tab -> Seq(Operation)] /\ mixed' \subseteq SessionId
    <3>1. PersistDraft(t, FALSE) \in [Tab -> Seq(Operation)]  BY <1>b, <2>1, Begun
    <3>2. mixed \subseteq SessionId  BY <1>a DEF RestType
    <3> QED  BY <1>b, <2>1, <2>2, <3>1, <3>2
  <2>4. UNCHANGED <<server, drafts, saving, net, stray, opening, counters, held, forgiven, outrun>>
    BY <1>2 DEF DraftTimer, KeepDraft
  <2> QED  BY <1>a, <2>3, <2>4 DEF RestType, counters
<1>3. ASSUME NEW t \in Tab, LocalEnds(t) PROVE RestType'
  <2>1. Head(local[t]) \in Operation /\ Tail(local[t]) \in Seq(Operation)
    BY <1>3, <1>b, Operations DEF LocalEnds
  <2> QED  BY <1>3, <1>a, <1>b, <2>1, StoredType DEF LocalEnds, RestType, counters, history
<1>4. ASSUME NEW t \in Tab, LocalFails(t) PROVE RestType'
  <2>1. Tail(local[t]) \in Seq(Operation)
    BY <1>4, <1>b, Operations DEF LocalFails
  <2> QED  BY <1>4, <1>a, <1>b, <2>1 DEF LocalFails, RestType, history
<1>5. ASSUME NEW t \in Tab, NEW l, Open(t), Flush(t, l),
             UNCHANGED <<server, drafts, net, stray, opening, edits, opens, faults, history>>,
             trashes' \in Nat
      PROVE RestType'
  <2>1. DraftOf(t) \in Draft  BY <1>5, <1>a, Made
  <2>2. local' \in [Tab -> Seq(Operation)]  BY <1>5, <1>b, <2>1, Begun DEF Flush
  <2>3. saving' \in [Tab -> {"no", "draft", "sent", "settle", "end", "trash", "retire"}]
    BY <1>5, <1>a DEF RestType, Flush
  <2> QED  BY <1>5, <1>a, <2>2, <2>3 DEF RestType, history
<1>6. ASSUME NEW t \in Tab, SaveTimer(t) \/ SaveNow(t) \/ Trash(t) PROVE RestType'
  <2>1. trashes' \in Nat  BY <1>6, <1>a DEF SaveTimer, SaveNow, Trash, RestType, counters
  <2> QED  BY <1>5, <1>6, <2>1 DEF SaveTimer, SaveNow, Trash, Active, counters
<1>7. ASSUME NEW t \in Tab, Send(t) PROVE RestType'
  <2>1. Open(t)  BY <1>7, Busy DEF Send
  <2>2. ToSend(t) \in Request  BY <1>7, <1>a, <2>1, SendTurns
  <2>3. net' \in NetType
    BY <1>7, <1>a, <2>2, SentType DEF Send, ToSend
  <2> QED  BY <1>7, <1>a, <2>3 DEF Send, RestType, counters, history
<1>8. ASSUME NEW t \in Tab, UploadFails(t) PROVE RestType'
  BY <1>8, <1>a DEF UploadFails, RestType, history
<1>9. ASSUME NEW t \in Tab, Serve(t) PROVE RestType'
  <2>1. net[t].req \in Request /\ net[t] \in [req : Request, answer : {"none", "ok", "conflict", "refused"}, rev : Nat]
    BY <1>9, <1>a DEF Serve
  <2>2. server' \in ServerType /\ Verdict(net[t].req) \in {"ok", "conflict", "refused"}
    BY <1>9, <1>a, <2>1, WriteType DEF Serve
  <2>3. server'.rev \in Nat /\ server'.content \in SUBSET Edit  BY <2>2
  <2>4. net' \in NetType
    BY <1>9, <1>a, <2>1, <2>2, <2>3 DEF Serve
  <2>5. stray' \subseteq Request  BY <1>9, <1>a DEF Serve, StillOf
  <2> QED  BY <1>9, <1>a, <2>2, <2>3, <2>4, <2>5 DEF Serve, RestType, counters
<1>10. ASSUME NEW r \in stray, ServeStray(r) PROVE RestType'
  <2>1. server' \in ServerType
    BY <1>10, <1>a, WriteType DEF ServeStray
  <2>2. stray' \subseteq Request /\ server'.content \in SUBSET Edit
    BY <1>10, <1>a, <2>1 DEF ServeStray, StillOf
  <2> QED  BY <1>10, <1>a, <2>1, <2>2 DEF ServeStray, RestType, counters
<1>11. ASSUME NEW t \in Tab, SaveOk(t) PROVE RestType'
  <2>1. session[t] \in Session /\ session[t].recovered \in (Tab \X Token) \cup {None}
    BY <1>11, <1>a, Busy, OpenSession, Fields DEF SaveOk, Answered
  <2>2. local' \in [Tab -> Seq(Operation)]
    BY <1>11, <1>b, <2>1, Begun DEF SaveOk
  <2> QED  BY <1>11, <1>a, <2>2 DEF SaveOk, RestType, counters, history
<1>12. ASSUME NEW t \in Tab, Settle(t) PROVE RestType'
  <2>1. DraftOf(t) \in Draft /\ TokenOf(t) \in Token
    BY <1>12, <1>a, Busy, Made DEF Settle
  <2>2. /\ PersistDraft(t, TRUE) \in [Tab -> Seq(Operation)]
        /\ ClearDraft(t, t, TokenOf(t), TRUE) \in [Tab -> Seq(Operation)]
    BY <1>b, <2>1, Begun
  <2>3. local' \in {PersistDraft(t, TRUE), ClearDraft(t, t, TokenOf(t), TRUE)}
    BY <1>12 DEF Settle
  <2> QED  BY <1>12, <1>a, <2>2, <2>3 DEF Settle, RestType, counters, history
<1>13. ASSUME NEW t \in Tab, EndSave(t) PROVE RestType'
  BY <1>13, <1>a DEF EndSave, RestType, counters, history
<1>14. ASSUME NEW t \in Tab, SaveFails(t) PROVE RestType'
  BY <1>14, <1>a DEF SaveFails, RestType, counters, history
<1>15. ASSUME NEW t \in Tab, Lose(t) PROVE RestType'
  BY <1>15, <1>a, UnservedType DEF Lose, RestType, history
<1>16. ASSUME NEW t \in Tab, TrashFlushed(t) PROVE RestType'
  <2>1. RequestOf(t, trashes) \in Request
    BY <1>16, <1>a, Made DEF TrashFlushed, RestType
  <2>2. net' \in NetType  BY <1>16, <1>a, <2>1, SentType DEF TrashFlushed
  <2>3. saving' \in [Tab -> {"no", "draft", "sent", "settle", "end", "trash", "retire"}]
    <3>1. saving' = [saving EXCEPT ![t] = "trash"] \/ saving' = saving
      BY <1>16 DEF TrashFlushed
    <3> QED  BY <1>a, <3>1 DEF RestType
  <2>4. UNCHANGED <<server, drafts, stray, local, opening, edits, trashes, opens, faults, history>>
    BY <1>16 DEF TrashFlushed
  <2> QED  BY <1>a, <2>2, <2>3, <2>4 DEF RestType, NetType, history
<1>17. ASSUME NEW t \in Tab, TrashOk(t) PROVE RestType'
  <2>1. TokenOf(t) \in Token  BY <1>17, <1>a, Busy, Made DEF TrashOk, Answered
  <2>2. local' \in [Tab -> Seq(Operation)]  BY <1>17, <1>b, <2>1, Begun DEF TrashOk
  <2> QED  BY <1>17, <1>a, <2>2 DEF TrashOk, RestType, counters, history
<1>18. ASSUME NEW t \in Tab, TrashFails(t) PROVE RestType'
  BY <1>18, <1>a DEF TrashFails, RestType, counters, history
<1>19. ASSUME NEW t \in Tab, Retire(t) PROVE RestType'
  BY <1>19, <1>a DEF Retire, RestType, counters, history
<1>20. ASSUME NEW t \in Tab, Fetch(t) PROVE RestType'
  BY <1>20, <1>a DEF Fetch, RestType, history
<1>21. ASSUME NEW t \in Tab, Build(t) PROVE RestType'
  <2>1. <<t, opens>> \in SessionId
    BY <1>21 DEF TypeOK, BoundInv, SessionId, BoardAssumption, Build
  <2>2. \A u \in Tab : drafts[u] # None => drafts[u].token \in Token
    BY <1>b DEF Draft
  <2>3. local' \in [Tab -> Seq(Operation)] /\ mixed' \subseteq SessionId
    <3>1. PICK u \in (IF Candidates(t) = {} THEN {None} ELSE Candidates(t)) :
            /\ local' = (IF u # None /\ drafts[u].content = opening[t].content
                         THEN ClearDraft(t, u, drafts[u].token, FALSE) ELSE local)
            /\ mixed' = (IF u # None /\ drafts[u].token[1] \in mixed
                         THEN mixed \cup {<<t, opens>>} ELSE mixed)
      BY <1>21 DEF Build
    <3>2. u # None => u \in Tab /\ drafts[u] # None  BY DEF Candidates
    <3> QED  BY <1>a, <1>b, <2>1, <2>2, <3>1, <3>2, Begun DEF RestType
  <2> QED  BY <1>21, <1>a, <2>3 DEF Build, RestType, counters
<1>22. ASSUME NEW t \in Tab, CopyMade(t) PROVE RestType'
  <2>1. Open(t) /\ session[t] \in Session /\ session[t].content \in SUBSET Edit
        /\ session[t].recovered \in (Tab \X Token) \cup {None}
        /\ session[t].copies \in SUBSET SUBSET Edit
    BY <1>22, <1>a, OpenSession, Fields DEF CopyMade
  <2> DEFINE c == [op |-> "clear", key |-> session[t].recovered[1],
                   token |-> session[t].recovered[2], awaited |-> FALSE]
             q == IF session[t].recovered = None THEN <<>> ELSE <<c>>
             w == [op |-> "wipe", key |-> t, awaited |-> FALSE]
  <2>2. q \in Seq(Operation) /\ w \in Operation
    <3>1. session[t].recovered # None => c \in Operation  BY <2>1 DEF Operation
    <3>2. w \in Operation  BY DEF Operation
    <3> HIDE DEF c
    <3> QED  BY <3>1, <3>2
  <2>3. local' = [local EXCEPT ![t] = @ \o q \o <<w>>]  BY <1>22 DEF CopyMade
  <2> HIDE DEF q, w
  <2>4. local[t] \o q \o <<w>> \in Seq(Operation)  BY <1>b, <2>2
  <2>5. local' \in [Tab -> Seq(Operation)]  BY <1>b, <2>3, <2>4
  <2>6. held' \subseteq Edit /\ outrun' \subseteq Edit
    BY <1>22, <1>a, <2>1 DEF CopyMade, RestType
  <2>7. UNCHANGED <<server, drafts, saving, net, stray, opening, counters, forgiven, mixed>>
    BY <1>22 DEF CopyMade
  <2> QED  BY <1>a, <2>5, <2>6, <2>7 DEF RestType, counters
<1>23. ASSUME NEW t \in Tab, Close(t) PROVE RestType'
  <2>1. Unserved(t) \subseteq Request /\ session[t].content \in SUBSET Edit
    BY <1>23, <1>a, UnservedType, OpenSession, Fields DEF Close
  <2>2. local' \in [Tab -> Seq(Operation)]  BY <1>23, <1>b DEF Close
  <2> QED  BY <1>23, <1>a, <2>1, <2>2 DEF Close, RestType, counters
<1>24. ASSUME NEW t \in Tab, Copy(t) \/ CopyFails(t) PROVE RestType'
  BY <1>24, <1>a DEF Copy, CopyFails, RestType, counters, history
<1>25. CASE UNCHANGED vars
  BY <1>25, <1>a DEF vars, RestType
<1> QED
  BY <1>1, <1>2, <1>3, <1>4, <1>6, <1>7, <1>8, <1>9, <1>10, <1>11, <1>12, <1>13, <1>14, <1>15,
     <1>16, <1>17, <1>18, <1>19, <1>20, <1>21, <1>22, <1>23, <1>24, <1>25
  DEF Next, Online, Unmount

LEMMA TurnsStep ==
  ASSUME NoneAssumption, SessionType, NEW t \in Tab, Open(t), NEW r, NEW v, NEW p,
         Turns(t, r, v, p)
  PROVE  /\ SessionType'
         /\ \A u \in Tab : (Open(u)' <=> Open(u)) /\ Same(session[u], session'[u])
         /\ \A u \in Tab \ {t} : session'[u] = session[u]
         /\ session'[t].rev = r /\ session'[t].status = v /\ session'[t].pending = p
         /\ session'[t].copies # {} => session[t].copies # {} \/ session[t].status = "conflict"
<1>1. PICK z : Becomes(t, z) /\ Updated(session[t], z, r, v, p)  BY DEF Turns
<1>2. z \in Session  BY <1>1 DEF Updated
<1>3. /\ SessionType' /\ session'[t] = z /\ Open(t)'
      /\ \A u \in Tab \ {t} : session'[u] = session[u] /\ (Open(u)' <=> Open(u))
  BY <1>1, <1>2, Became
<1> QED  BY <1>1, <1>3 DEF Updated, Same

\* The session of u is closed, or goes on with the same document; what began in
\* conflict stays as it is.
Kept(u) ==
  Open(u)' =>
    /\ Open(u) /\ Same(session[u], session'[u]) /\ session'[u].rev = session[u].rev
    /\ \/ session'[u].pending = session[u].pending
       \/ session'[u].pending = None
       \/ Send(u) /\ session'[u].pending = ToSend(u)
    /\ session[u].status = "conflict" =>
         session'[u].status = "conflict" /\ session'[u].pending = session[u].pending

\* Nobody's document changes in the step.
Quiet == SessionType' /\ \A u \in Tab : Kept(u)

LEMMA UnchangedQuiet ==
  ASSUME SessionType, UNCHANGED session
  PROVE  Quiet
BY DEF Quiet, Kept, Same, Open, SessionType

\* The session of t goes on so.
TurnsWell(t, v, p) ==
  /\ Turns(t, session[t].rev, v, p)
  /\ p = session[t].pending \/ p = None \/ (Send(t) /\ p = ToSend(t))
  /\ session[t].status = "conflict" => v = "conflict" /\ p = session[t].pending

LEMMA TurnsQuiet ==
  ASSUME NoneAssumption, SessionType, NEW t \in Tab, Open(t),
         \E v, p : TurnsWell(t, v, p)
  PROVE  Quiet
<1>0. PICK v, p : TurnsWell(t, v, p)  OBVIOUS
<1>1. /\ SessionType'
      /\ \A u \in Tab : (Open(u)' <=> Open(u)) /\ Same(session[u], session'[u])
      /\ \A u \in Tab \ {t} : session'[u] = session[u]
      /\ session'[t].rev = session[t].rev /\ session'[t].status = v /\ session'[t].pending = p
  BY <1>0, TurnsStep DEF TurnsWell
<1>2. Kept(t)  BY <1>0, <1>1 DEF Kept, TurnsWell
<1>3. \A u \in Tab \ {t} : Kept(u)  BY <1>1 DEF Kept
<1> QED  BY <1>1, <1>2, <1>3 DEF Quiet

LEMMA ClosedQuiet ==
  ASSUME NoneAssumption, SessionType, NEW t \in Tab, session' = [session EXCEPT ![t] = None]
  PROVE  Quiet
BY DEF Quiet, Kept, Same, Open, SessionType

\* All steps are quiet but an edit, the good end of a write and a new session.
LEMMA QuietSteps ==
  ASSUME BoardAssumption, NoneAssumption, SessionType, OwnInv, local \in [Tab -> Seq(Operation)],
         [Next]_vars
  PROVE  \/ Quiet
         \/ \E t \in Tab : Change(t) \/ SaveOk(t) \/ TrashOk(t) \/ Build(t)
<1>1. ASSUME NEW t \in Tab, DraftTimer(t) \/ KeepDraft(t) \/ Copy(t) \/ CopyFails(t) PROVE Quiet
  <2>1. Open(t) /\ Turns(t, session[t].rev, session[t].status, session[t].pending)
    BY <1>1, DraftTimerTurns, KeepDraftTurns, CopyTurns DEF DraftTimer, KeepDraft
  <2>2. TurnsWell(t, session[t].status, session[t].pending)  BY <2>1 DEF TurnsWell
  <2> QED  BY <2>1, <2>2, TurnsQuiet
<1>2. ASSUME NEW t \in Tab, Open(t),
             Turns(t, session[t].rev, session[t].status, session[t].pending)
      PROVE  Quiet
  <2>1. TurnsWell(t, session[t].status, session[t].pending)
    BY <1>2 DEF TurnsWell
  <2> QED  BY <1>2, <2>1, TurnsQuiet
<1>3. ASSUME NEW t \in Tab, LocalEnds(t) PROVE Quiet
  BY <1>2, <1>3, LocalEndsTurns, UnchangedQuiet
<1>4. ASSUME NEW t \in Tab, SaveTimer(t) \/ SaveNow(t) \/ Trash(t) PROVE Quiet
  <2>1. Open(t) /\ \E l \in {"active", "trashing"} : Flush(t, l)
    BY <1>4, OpenSession, Fields DEF SaveTimer, SaveNow, Trash, Active
  <2> DEFINE v == IF CanSave(t) THEN "saving" ELSE session[t].status
  <2>2. Turns(t, session[t].rev, v, session[t].pending)
    BY <2>1, FlushTurns
  <2>3. session[t].status = "conflict" => v = "conflict"  BY DEF CanSave
  <2> HIDE DEF v
  <2>4. TurnsWell(t, v, session[t].pending)  BY <2>2, <2>3 DEF TurnsWell
  <2> QED  BY <2>1, <2>4, TurnsQuiet
<1>5. ASSUME NEW t \in Tab, Send(t) PROVE Quiet
  <2>1. Open(t) /\ session[t].status # "conflict"  BY <1>5 DEF Send, OwnInv, Own
  <2>2. Turns(t, session[t].rev, session[t].status, ToSend(t))
    BY <1>5, <2>1, SendTurns
  <2>3. TurnsWell(t, session[t].status, ToSend(t))
    BY <1>5, <2>1, <2>2 DEF TurnsWell
  <2> QED  BY <2>1, <2>3, TurnsQuiet
<1>6. ASSUME NEW t \in Tab, Open(t), session[t].status # "conflict", NEW v, NEW p \in {session[t].pending, None},
             Turns(t, session[t].rev, v, p)
      PROVE  Quiet
  <2>1. TurnsWell(t, v, p)  BY <1>6 DEF TurnsWell
  <2> QED  BY <1>6, <2>1, TurnsQuiet
<1>7. ASSUME NEW t \in Tab, UploadFails(t) PROVE Quiet
  <2>1. Open(t) /\ session[t].status # "conflict"  BY <1>7 DEF UploadFails, OwnInv, Own
  <2>2. Turns(t, session[t].rev, "error", session[t].pending)
    BY <1>7, <2>1, StatusTurns DEF UploadFails, Statuses
  <2> QED  BY <1>6, <2>1, <2>2
<1>8. ASSUME NEW t \in Tab, Settle(t) PROVE Quiet
  <2>1. Open(t) /\ session[t].status # "conflict"  BY <1>8 DEF Settle, OwnInv, Own
  <2> QED  BY <1>6, <1>8, <2>1, SettleTurns
<1>9. ASSUME NEW t \in Tab, EndSave(t) PROVE Quiet
  <2>1. Open(t)  BY <1>9 DEF EndSave, OwnInv, Own
  <2> QED  BY <1>2, <1>9, <2>1, EndSaveTurns
<1>10. ASSUME NEW t \in Tab, SaveFails(t) PROVE Quiet
  <2>1. Open(t) /\ session[t].status # "conflict"  BY <1>10 DEF SaveFails, Answered, OwnInv, Own
  <2>2. PICK v \in {"conflict", "dirty", "error"}, p \in {session[t].pending, None} :
          Turns(t, session[t].rev, v, p)
    BY <1>10, <2>1, SaveFailsTurns
  <2> QED  BY <1>6, <2>1, <2>2, SMTT(30)
<1>11. ASSUME NEW t \in Tab, Lose(t) PROVE Quiet
  <2>1. Open(t) /\ session[t].status # "conflict"  BY <1>11 DEF Lose, OwnInv, Own
  <2> QED  BY <1>6, <1>11, <2>1, LoseTurns
<1>12. ASSUME NEW t \in Tab, TrashFlushed(t) PROVE Quiet
  BY <1>2, <1>12, LifeTurns, UnchangedQuiet DEF TrashFlushed
<1>13. ASSUME NEW t \in Tab, TrashFails(t) PROVE Quiet
  <2>1. Open(t)  BY <1>13 DEF TrashFails, Answered, OwnInv, Own
  <2> QED  BY <1>2, <1>13, <2>1, LifeTurns DEF TrashFails
<1>14. ASSUME NEW t \in Tab, LocalFails(t) \/ Serve(t) \/ Fetch(t) PROVE Quiet
  BY <1>14, UnchangedQuiet DEF LocalFails, Serve, Fetch
<1>15. ASSUME NEW r \in stray, ServeStray(r) PROVE Quiet
  BY <1>15, UnchangedQuiet DEF ServeStray
<1>16. ASSUME NEW t \in Tab, Retire(t) \/ CopyMade(t) \/ Close(t) PROVE Quiet
  BY <1>16, ClosedQuiet DEF Retire, CopyMade, Close
<1>17. CASE UNCHANGED vars  BY <1>17, UnchangedQuiet DEF vars
<1> QED
  BY <1>1, <1>3, <1>4, <1>5, <1>7, <1>8, <1>9, <1>10, <1>11, <1>12, <1>13, <1>14, <1>15,
     <1>16, <1>17 DEF Next, Online, Unmount

-----------------------------------------------------------------------------
(* The types *)

LEMMA SessionTyped ==
  ASSUME BoardAssumption, NoneAssumption, TypeOK, OwnInv, BoundInv, [Next]_vars
  PROVE  SessionType'
<1>1. SessionType /\ RestType  BY DEF TypeOK, SessionType, RestType
<1>2. net \in NetType /\ local \in [Tab -> Seq(Operation)]  BY <1>1 DEF RestType, NetType
<1>3. CASE Quiet  BY <1>3 DEF Quiet
<1>4. ASSUME NEW t \in Tab, Change(t) PROVE SessionType'
  <2>1. edits \in Nat  BY <1>1 DEF RestType
  <2>2. PICK z : \E v \in Statuses :
          /\ Becomes(t, z)
          /\ Edited(session[t], z, session[t].content \cup {edits + 1}, session[t].gen + 1, v)
    BY <1>1, <1>4, <2>1, ChangeTurns
  <2>3. z \in Session /\ Becomes(t, z)  BY <2>2 DEF Edited
  <2> QED  BY <1>1, <2>3, Became
<1>5. ASSUME NEW t \in Tab, SaveOk(t) \/ TrashOk(t) PROVE SessionType'
  <2>1. Open(t) /\ net[t].rev \in Nat
    BY <1>2, <1>5, Busy DEF SaveOk, TrashOk, Answered, NetType
  <2>2. Turns(t, net[t].rev, session[t].status, session[t].pending)
    BY <1>1, <1>5, <2>1, SaveOkTurns, TrashOkTurns
  <2> QED  BY <1>1, <2>1, <2>2, TurnsStep
<1>6. ASSUME NEW t \in Tab, Build(t) PROVE SessionType'
  <2>1. \/ UNCHANGED session
        \/ \E u \in Tab \cup {None} :
             (u # None => drafts[u] # None) /\ Becomes(t, NewSession(t, u))
    BY <1>6 DEF Build, Candidates, Becomes
  <2>2. ASSUME NEW u \in Tab \cup {None}, u # None => drafts[u] # None
        PROVE  NewSession(t, u) \in Session
    BY <1>6, <2>2, NewSessions DEF Build, Begins
  <2>3. UNCHANGED session => SessionType'  BY <1>1 DEF SessionType
  <2> QED  BY <1>1, <2>1, <2>2, <2>3, Became
<1> QED  BY <1>1, <1>2, <1>3, <1>4, <1>5, <1>6, QuietSteps

LEMMA TypeStep ==
  ASSUME BoardAssumption, NoneAssumption, TypeOK, OwnInv, BoundInv, [Next]_vars
  PROVE  TypeOK'
<1>1. RestType' /\ SessionType'  BY RestTyped, SessionTyped
<1> QED  BY <1>1 DEF RestType, SessionType, TypeOK

-----------------------------------------------------------------------------
(* The bounds *)

\* What is read of a board stays until it is used.
LEMMA CounterSteps ==
  ASSUME RestType, [Next]_vars
  PROVE  /\ edits' = edits \/ \E t \in Tab : Change(t)
         /\ \/ opens' = opens /\ \A t \in Tab : opening'[t] \in {opening[t], None}
            \/ \E t \in Tab : Fetch(t)
<1> USE DEF RestType, counters
<1>1. ASSUME NEW t \in Tab, Change(t) \/ DraftTimer(t) \/ LocalEnds(t) \/ LocalFails(t)
                            \/ SaveTimer(t) \/ SaveNow(t) \/ KeepDraft(t) \/ Send(t) \/ UploadFails(t)
      PROVE  opens' = opens /\ opening' = opening /\ (edits' = edits \/ Change(t))
  BY <1>1 DEF Change, DraftTimer, LocalEnds, LocalFails, SaveTimer, SaveNow, KeepDraft, Send, UploadFails
<1>2. ASSUME NEW t \in Tab, Serve(t) \/ SaveOk(t) \/ Settle(t) \/ EndSave(t) \/ SaveFails(t) \/ Lose(t)
      PROVE  opens' = opens /\ opening' = opening /\ edits' = edits
  BY <1>2 DEF Serve, SaveOk, Settle, EndSave, SaveFails, Lose
<1>3. ASSUME NEW t \in Tab, Trash(t) \/ TrashFlushed(t) \/ TrashOk(t) \/ TrashFails(t) \/ Retire(t)
                            \/ Copy(t) \/ CopyMade(t) \/ CopyFails(t)
      PROVE  opens' = opens /\ opening' = opening /\ edits' = edits
  BY <1>3 DEF Trash, TrashFlushed, TrashOk, TrashFails, Retire, Copy, CopyMade, CopyFails
<1>4. ASSUME NEW t \in Tab, Build(t) \/ Close(t)
      PROVE  /\ opens' = opens /\ edits' = edits
             /\ \A u \in Tab : opening'[u] \in {opening[u], None}
  BY <1>4 DEF Build, Close
<1>5. ASSUME NEW t \in Tab, Fetch(t) PROVE edits' = edits  BY <1>5 DEF Fetch
<1>6. ASSUME NEW r \in stray, ServeStray(r)
      PROVE  opens' = opens /\ opening' = opening /\ edits' = edits
  BY <1>6 DEF ServeStray
<1>7. UNCHANGED vars => opens' = opens /\ opening' = opening /\ edits' = edits  BY DEF vars
<1> QED  BY <1>1, <1>2, <1>3, <1>4, <1>5, <1>6, <1>7 DEF Next, Online, Unmount

LEMMA BoundStep ==
  ASSUME BoardAssumption, NoneAssumption, TypeOK, OwnInv, BoundInv, [Next]_vars
  PROVE  BoundInv'
<1>1. SessionType /\ RestType  BY DEF TypeOK, SessionType, RestType
<1>2. net \in NetType /\ local \in [Tab -> Seq(Operation)] /\ edits \in Nat /\ opens \in Nat
      /\ MaxEdits \in Nat /\ MaxOpens \in Nat
  BY <1>1 DEF RestType, NetType, BoardAssumption
<1>3. opens' <= MaxOpens /\ \A t \in Tab : opening'[t] # None => opens' >= 1
  <2>1. ASSUME NEW t \in Tab, Fetch(t) PROVE opens' <= MaxOpens /\ opens' >= 1
    BY <1>2, <2>1 DEF Fetch
  <2> QED  BY <1>1, <2>1, CounterSteps DEF BoundInv
<1>4. edits' <= MaxEdits /\ edits' \in Nat /\ edits <= edits'
  <2>1. edits <= MaxEdits  BY DEF BoundInv
  <2>2. ASSUME NEW t \in Tab, Change(t) PROVE edits' = edits + 1 /\ edits < MaxEdits
    BY <2>2 DEF Change
  <2>3. edits' = edits \/ (edits' = edits + 1 /\ edits < MaxEdits)  BY <1>1, <2>2, CounterSteps
  <2> QED  BY <1>2, <2>1, <2>3
<1>5. \A t \in Tab : Open(t)' => session'[t].gen <= edits'
  <2>0. \A t \in Tab : Open(t) => session[t].gen \in Nat /\ session[t].gen <= edits'
    BY <1>1, <1>2, <1>4, OpenSession, Fields DEF BoundInv
  <2>1. CASE Quiet  BY <2>0, <2>1 DEF Quiet, Kept, Same
  <2>2. ASSUME NEW t \in Tab, Change(t), NEW u \in Tab, Open(u)'
        PROVE  session'[u].gen <= edits'
    <3>1. Open(t) /\ edits' = edits + 1  BY <2>2 DEF Change, Active
    <3>2. PICK z : \E v \in Statuses :
            /\ Becomes(t, z)
            /\ Edited(session[t], z, session[t].content \cup {edits + 1}, session[t].gen + 1, v)
      BY <1>1, <1>2, <2>2, ChangeTurns
    <3>3. z \in Session /\ Becomes(t, z) /\ z.gen = session[t].gen + 1  BY <3>2 DEF Edited
    <3>4. session'[t] = z /\ \A w \in Tab \ {t} : session'[w] = session[w] /\ (Open(w)' <=> Open(w))
      BY <1>1, <3>3, Became
    <3>5. session[t].gen <= edits /\ session[t].gen \in Nat  BY <2>0, <3>1 DEF BoundInv
    <3> QED  BY <1>2, <2>0, <2>2, <3>1, <3>3, <3>4, <3>5
  <2>3. ASSUME NEW t \in Tab, SaveOk(t) \/ TrashOk(t), NEW u \in Tab, Open(u)'
        PROVE  session'[u].gen <= edits'
    <3>1. Open(t) /\ net[t].rev \in Nat
      BY <1>2, <2>3, Busy DEF SaveOk, TrashOk, Answered, NetType
    <3>2. Turns(t, net[t].rev, session[t].status, session[t].pending)
      BY <1>1, <2>3, <3>1, SaveOkTurns, TrashOkTurns
    <3>3. Open(u) /\ Same(session[u], session'[u])  BY <1>1, <2>3, <3>1, <3>2, TurnsStep
    <3> QED  BY <2>0, <3>3 DEF Same
  <2>4. ASSUME NEW t \in Tab, Build(t), NEW u \in Tab, Open(u)'
        PROVE  session'[u].gen <= edits'
    <3>0. opening[t] # None  BY <2>4 DEF Build
    <3>1. \/ UNCHANGED session
          \/ \E x \in Tab \cup {None} :
               (x # None => drafts[x] # None) /\ Becomes(t, NewSession(t, x))
      BY <2>4 DEF Build, Candidates, Becomes
    <3>2. CASE UNCHANGED session  BY <2>0, <2>4, <3>2 DEF Open
    <3>3. ASSUME NEW x \in Tab \cup {None}, x # None => drafts[x] # None,
                 Becomes(t, NewSession(t, x))
          PROVE  session'[u].gen <= edits'
      <4>0. PICK z : z = NewSession(t, x)  OBVIOUS
      <4>a. Begins(t, x, z)  BY <3>0, <3>3, <4>0, NewSessions
      <4>1. z \in Session /\ z.gen = 0  BY <4>a DEF Begins
      <4>2. session'[t] = z
            /\ \A w \in Tab \ {t} : session'[w] = session[w] /\ (Open(w)' <=> Open(w))
        BY <1>1, <3>3, <4>0, <4>1, Became
      <4> QED  BY <1>4, <2>0, <2>4, <4>1, <4>2
    <3> QED  BY <3>1, <3>2, <3>3
  <2> QED  BY <1>1, <1>2, <2>1, <2>2, <2>3, <2>4, QuietSteps
<1> QED  BY <1>3, <1>4, <1>5 DEF BoundInv

-----------------------------------------------------------------------------
(* What a session is and has under way *)

\* The session of t turned; what that makes of all sessions.
Turned(t, v, p) ==
  /\ \A u \in Tab : (Open(u)' <=> Open(u)) /\ session'[u].id = session[u].id
  /\ \A u \in Tab \ {t} : session'[u] = session[u]
  /\ session'[t].status = v /\ session'[t].pending = p
  /\ session'[t].copies # {} => session[t].copies # {} \/ session[t].status = "conflict"

LEMMA TurnsTurned ==
  ASSUME NoneAssumption, SessionType, NEW t \in Tab, Open(t), NEW r, NEW v, NEW p,
         Turns(t, r, v, p)
  PROVE  Turned(t, v, p)
BY TurnsStep DEF Turned, Same

\* What the tab t has under way is of its session again, the other tabs are as before.
LEMMA OwnOthers ==
  ASSUME OwnInv, NEW t \in Tab, Own(t)',
         \A u \in Tab \ {t} : session'[u] = session[u] /\ saving'[u] = saving[u] /\ net'[u] = net[u]
  PROVE  OwnInv'
BY DEF OwnInv, Own, Open

\* A session that turns keeps what it has under way, or begins what is its own.
LEMMA OwnTurned ==
  ASSUME OwnInv, NEW t \in Tab, Open(t), NEW v, NEW p, Turned(t, v, p),
         v = "conflict" => saving'[t] = "no", session[t].status = "conflict" => v = "conflict",
         p # None => p.id[1] = session[t].id,
         net'[t] # None => saving'[t] \in {"sent", "trash"} /\ net'[t].req.id[1] = session[t].id,
         \A u \in Tab \ {t} : saving'[u] = saving[u] /\ net'[u] = net[u]
  PROVE  OwnInv'
<1>1. Own(t)'  BY DEF OwnInv, Own, Turned
<1>2. \A u \in Tab \ {t} : session'[u] = session[u]  BY DEF Turned
<1> QED  BY <1>1, <1>2, OwnOthers

\* With nothing of the save changed.
LEMMA OwnSame ==
  ASSUME OwnInv, NEW t \in Tab, Open(t), NEW v, Turned(t, v, session[t].pending),
         v = "conflict" <=> session[t].status = "conflict", UNCHANGED <<saving, net>>
  PROVE  OwnInv'
<1>1. Own(t)  BY DEF OwnInv
<1> QED  BY <1>1, OwnTurned DEF Own

LEMMA OwnStep ==
  ASSUME BoardAssumption, NoneAssumption, TypeOK, OwnInv, BoundInv, [Next]_vars
  PROVE  OwnInv'
<1>a. SessionType /\ RestType  BY DEF TypeOK, SessionType, RestType
<1>b. /\ net \in NetType /\ local \in [Tab -> Seq(Operation)] /\ edits \in Nat
      /\ saving \in [Tab -> {"no", "draft", "sent", "settle", "end", "trash", "retire"}]
  BY <1>a DEF RestType, NetType
<1>c. \A t \in Tab : Own(t)  BY DEF OwnInv
<1>n. net \in [Tab -> [req : Request, answer : {"none", "ok", "conflict", "refused"}, rev : Nat] \cup {None}]
  BY <1>b DEF NetType
<1>1. ASSUME NEW t \in Tab, Change(t) PROVE OwnInv'
  <2>1. Open(t)  BY <1>1 DEF Change, Active
  <2>2a. PICK z : \E v \in Statuses :
          /\ Becomes(t, z) /\ (v = "conflict" <=> session[t].status = "conflict")
          /\ Edited(session[t], z, session[t].content \cup {edits + 1}, session[t].gen + 1, v)
    BY <1>1, <1>a, <1>b, ChangeTurns
  <2>2. PICK v \in Statuses :
          /\ Becomes(t, z) /\ (v = "conflict" <=> session[t].status = "conflict")
          /\ Edited(session[t], z, session[t].content \cup {edits + 1}, session[t].gen + 1, v)
    BY <2>2a
  <2>3. z \in Session  BY <2>2 DEF Edited
  <2>4. /\ session'[t] = z /\ Open(t)'
        /\ \A u \in Tab \ {t} : session'[u] = session[u] /\ (Open(u)' <=> Open(u))
    BY <1>a, <2>2, <2>3, Became
  <2>5. Turned(t, v, session[t].pending)  BY <2>1, <2>2, <2>4 DEF Turned, Edited
  <2> QED  BY <1>1, <2>1, <2>2, <2>5, OwnSame DEF Change
<1>2. ASSUME NEW t \in Tab, DraftTimer(t) \/ KeepDraft(t) \/ Copy(t) \/ CopyFails(t) PROVE OwnInv'
  <2>1. Open(t) /\ Turned(t, session[t].status, session[t].pending)
    BY <1>2, <1>a, DraftTimerTurns, KeepDraftTurns, CopyTurns, TurnsTurned DEF DraftTimer, KeepDraft
  <2>2. UNCHANGED <<saving, net>>  BY <1>2 DEF DraftTimer, KeepDraft, Copy, CopyFails
  <2> QED  BY <2>1, <2>2, OwnSame
<1>3. ASSUME NEW t \in Tab, LocalEnds(t) PROVE OwnInv'
  <2>1. UNCHANGED <<saving, net>>  BY <1>3 DEF LocalEnds
  <2>2. CASE UNCHANGED session  BY <2>1, <2>2 DEF OwnInv, Own, Open
  <2>3. CASE /\ Open(t)
             /\ Turns(t, session[t].rev, session[t].status, session[t].pending)
    <3>1. Turned(t, session[t].status, session[t].pending)  BY <1>a, <2>3, TurnsTurned
    <3> QED  BY <2>1, <2>3, <3>1, OwnSame
  <2> QED  BY <1>3, <1>a, <1>b, <2>2, <2>3, LocalEndsTurns
<1>4. ASSUME NEW t \in Tab, SaveTimer(t) \/ SaveNow(t) \/ Trash(t) PROVE OwnInv'
  <2>1. PICK l \in {"active", "trashing"} : Open(t) /\ Flush(t, l)
    BY <1>4, <1>a, OpenSession, Fields DEF SaveTimer, SaveNow, Trash, Active
  <2>2. net' = net  BY <1>4 DEF SaveTimer, SaveNow, Trash
  <2> DEFINE v == IF CanSave(t) THEN "saving" ELSE session[t].status
  <2>3. Turned(t, v, session[t].pending)  BY <1>a, <2>1, FlushTurns, TurnsTurned
  <2>4. /\ v = "conflict" => saving'[t] = "no"
        /\ session[t].status = "conflict" => v = "conflict"
        /\ net[t] # None => saving'[t] = saving[t]
        /\ \A u \in Tab \ {t} : saving'[u] = saving[u]
    BY <1>b, <1>c, <2>1 DEF Flush, CanSave, Own
  <2> HIDE DEF v
  <2> QED  BY <1>c, <2>1, <2>2, <2>3, <2>4, OwnTurned DEF Own
<1>5. ASSUME NEW t \in Tab, Send(t) PROVE OwnInv'
  <2>1. Open(t) /\ session[t].status # "conflict"  BY <1>5, <1>c DEF Send, Own
  <2>2. Turned(t, session[t].status, ToSend(t))  BY <1>5, <1>a, <2>1, SendTurns, TurnsTurned
  <2>3. ToSend(t).id[1] = session[t].id  BY <1>c, <2>1 DEF ToSend, RequestOf, Own
  <2>4. /\ saving'[t] = "sent" /\ net'[t].req = ToSend(t)
        /\ \A u \in Tab \ {t} : saving'[u] = saving[u] /\ net'[u] = net[u]
    BY <1>5, <1>b, <1>n DEF Send, Sent, ToSend
  <2> QED  BY <2>1, <2>2, <2>3, <2>4, OwnTurned
<1>6. ASSUME NEW t \in Tab, UploadFails(t) PROVE OwnInv'
  <2>1. Open(t) /\ session[t].status # "conflict" /\ net[t] = None
    BY <1>6, <1>c DEF UploadFails, Own
  <2>2. Turned(t, "error", session[t].pending)
    BY <1>6, <1>a, <2>1, StatusTurns, TurnsTurned DEF UploadFails, Statuses
  <2>3. net' = net /\ \A u \in Tab \ {t} : saving'[u] = saving[u]
    BY <1>6, <1>b DEF UploadFails
  <2> QED  BY <1>c, <2>1, <2>2, <2>3, OwnTurned DEF Own
<1>7. ASSUME NEW t \in Tab, Serve(t) PROVE OwnInv'
  <2>1. /\ \A u \in Tab : net'[u] # None => net[u] # None /\ net'[u].req = net[u].req
        /\ UNCHANGED <<session, saving>>
    <3>1. net[t] # None /\ net[t] \in [req : Request, answer : {"none", "ok", "conflict", "refused"}, rev : Nat]
      BY <1>7, <1>n DEF Serve
    <3> DEFINE a == Verdict(net[t].req)
               n == server'.rev
    <3>2. net' = [net EXCEPT ![t] = [net[t] EXCEPT !.answer = a, !.rev = n]]
      BY <1>7, <1>n DEF Serve
    <3> HIDE DEF a, n
    <3> DEFINE x == [net[t] EXCEPT !.answer = a, !.rev = n]
    <3>3. x.req = net[t].req  BY <3>1
    <3>4. net'[t] = x /\ \A u \in Tab \ {t} : net'[u] = net[u]  BY <3>2, <1>n
    <3> QED  BY <1>7, <3>1, <3>3, <3>4 DEF Serve
  <2> QED  BY <2>1 DEF OwnInv, Own, Open
<1>8. ASSUME NEW t \in Tab, SaveOk(t) \/ TrashOk(t) PROVE OwnInv'
  <2>1. Open(t) /\ net[t].rev \in Nat /\ session[t].status # "conflict"
    BY <1>8, <1>c, <1>n DEF SaveOk, TrashOk, Answered, Own
  <2>2. Turned(t, session[t].status, session[t].pending)
    BY <1>8, <1>a, <2>1, SaveOkTurns, TrashOkTurns, TurnsTurned
  <2>3. net'[t] = None /\ \A u \in Tab \ {t} : saving'[u] = saving[u] /\ net'[u] = net[u]
    BY <1>8, <1>b, <1>n DEF SaveOk, TrashOk
  <2> QED  BY <1>c, <2>1, <2>2, <2>3, OwnTurned DEF Own
<1>9. ASSUME NEW t \in Tab, Settle(t) PROVE OwnInv'
  <2>1. Open(t) /\ net[t] = None /\ session[t].status # "conflict"  BY <1>9, <1>c DEF Settle, Own
  <2>2. PICK v \in {"saved", "dirty"} : Turns(t, session[t].rev, v, None)
    BY <1>9, <1>a, <2>1, SettleTurns
  <2>3. Turned(t, v, None)  BY <1>a, <2>1, <2>2, TurnsTurned
  <2>4. net' = net /\ \A u \in Tab \ {t} : saving'[u] = saving[u]  BY <1>9, <1>b DEF Settle
  <2> QED  BY <2>1, <2>2, <2>3, <2>4, OwnTurned
<1>10. ASSUME NEW t \in Tab, EndSave(t) PROVE OwnInv'
  <2>1. Open(t) /\ net[t] = None /\ session[t].status # "conflict"  BY <1>10, <1>c DEF EndSave, Own
  <2>2. Turned(t, session[t].status, session[t].pending)  BY <1>10, <1>a, <2>1, EndSaveTurns, TurnsTurned
  <2>3. net' = net /\ \A u \in Tab \ {t} : saving'[u] = saving[u]  BY <1>10, <1>b DEF EndSave
  <2> QED  BY <1>c, <2>1, <2>2, <2>3, OwnTurned DEF Own
<1>11. ASSUME NEW t \in Tab, SaveFails(t) PROVE OwnInv'
  <2>1. Open(t) /\ session[t].status # "conflict"  BY <1>11, <1>c DEF SaveFails, Answered, Own
  <2>2. PICK v \in {"conflict", "dirty", "error"}, p \in {session[t].pending, None} :
          Turns(t, session[t].rev, v, p)
    BY <1>11, <1>a, <2>1, SaveFailsTurns
  <2>3. Turned(t, v, p)  BY <1>a, <2>1, <2>2, TurnsTurned
  <2>4. /\ saving'[t] = "no" /\ net'[t] = None
        /\ \A u \in Tab \ {t} : saving'[u] = saving[u] /\ net'[u] = net[u]
    BY <1>11, <1>b, <1>n DEF SaveFails
  <2> QED  BY <1>c, <2>1, <2>2, <2>3, <2>4, OwnTurned DEF Own
<1>12. ASSUME NEW t \in Tab, Lose(t) PROVE OwnInv'
  <2>1. Open(t) /\ session[t].status # "conflict"  BY <1>12, <1>c DEF Lose, Own
  <2>2. PICK v \in {session[t].status, "error"} :
          Turns(t, session[t].rev, v, session[t].pending)
    BY <1>12, <1>a, <2>1, LoseTurns
  <2>3. Turned(t, v, session[t].pending)  BY <1>a, <2>1, <2>2, TurnsTurned
  <2>4. /\ saving'[t] = "no" /\ net'[t] = None
        /\ \A u \in Tab \ {t} : saving'[u] = saving[u] /\ net'[u] = net[u]
    BY <1>12, <1>b, <1>n DEF Lose
  <2> QED  BY <1>c, <2>1, <2>3, <2>4, OwnTurned DEF Own
<1>13. ASSUME NEW t \in Tab, TrashFlushed(t) PROVE OwnInv'
  <2>1. CASE session[t].status = "saved"
    <3>1. /\ saving'[t] = "trash" /\ net'[t].req.id[1] = session[t].id
          /\ \A u \in Tab \ {t} : saving'[u] = saving[u] /\ net'[u] = net[u]
          /\ UNCHANGED session
      BY <1>13, <2>1, <1>b, <1>n DEF TrashFlushed, Sent, RequestOf
    <3>2. Own(t)'  BY <1>13, <1>c, <2>1, <3>1 DEF Own, Open, TrashFlushed
    <3> QED  BY <3>1, <3>2, OwnOthers
  <2>2. CASE session[t].status # "saved"
    <3>1. Open(t) /\ session' = [session EXCEPT ![t].life = "active"] /\ UNCHANGED <<saving, net>>
      BY <1>13, <2>2 DEF TrashFlushed
    <3>2. Turned(t, session[t].status, session[t].pending)  BY <1>a, <3>1, LifeTurns, TurnsTurned
    <3> QED  BY <3>1, <3>2, OwnSame
  <2> QED  BY <2>1, <2>2
<1>14. ASSUME NEW t \in Tab, TrashFails(t) PROVE OwnInv'
  <2>1. Open(t) /\ session[t].status # "conflict"  BY <1>14, <1>c DEF TrashFails, Answered, Own
  <2>2. Turned(t, session[t].status, session[t].pending)
    BY <1>14, <1>a, <2>1, LifeTurns, TurnsTurned DEF TrashFails
  <2>3. net'[t] = None /\ \A u \in Tab \ {t} : saving'[u] = saving[u] /\ net'[u] = net[u]
    BY <1>14, <1>b, <1>n DEF TrashFails
  <2> QED  BY <1>c, <2>1, <2>2, <2>3, OwnTurned DEF Own
<1>15. ASSUME NEW t \in Tab, Retire(t) \/ CopyMade(t) \/ Close(t) PROVE OwnInv'
  <2>1. /\ session'[t] = None /\ saving'[t] = "no" /\ net'[t] = None
        /\ \A u \in Tab \ {t} : session'[u] = session[u] /\ saving'[u] = saving[u] /\ net'[u] = net[u]
    <3>1. net[t] # None => saving[t] \in {"sent", "trash"}  BY <1>c DEF Own
    <3>2. CopyMade(t) => saving[t] = "no"  BY <1>c DEF CopyMade, Own
    <3>3. CASE Retire(t)
      BY <1>a, <1>b, <1>n, <3>1, <3>3 DEF Retire, SessionType
    <3>4. CASE CopyMade(t)
      <4>1. session' = [session EXCEPT ![t] = None] /\ UNCHANGED <<saving, net>>  BY <3>4 DEF CopyMade
      <4> QED  BY <1>a, <1>b, <1>n, <3>1, <3>2, <3>4, <4>1 DEF SessionType
    <3>5. CASE Close(t)
      <4>1. /\ session' = [session EXCEPT ![t] = None] /\ saving' = [saving EXCEPT ![t] = "no"]
            /\ net' = [net EXCEPT ![t] = None]
        BY <3>5 DEF Close
      <4> QED  BY <1>a, <1>b, <1>n, <4>1 DEF SessionType
    <3> QED  BY <1>15, <3>3, <3>4, <3>5
  <2>2. Own(t)'  BY <2>1 DEF Own, Open
  <2> QED  BY <2>1, <2>2, OwnOthers
<1>16. ASSUME NEW t \in Tab, Build(t) PROVE OwnInv'
  <2>0. opening[t] # None /\ saving[t] = "no" /\ net[t] = None /\ UNCHANGED <<saving, net>>
    BY <1>16, <1>c DEF Build, Own
  <2>1. \/ UNCHANGED session
        \/ \E u \in Tab \cup {None} :
             (u # None => drafts[u] # None) /\ Becomes(t, NewSession(t, u))
    BY <1>16 DEF Build, Candidates, Becomes
  <2>2. CASE UNCHANGED session  BY <2>0, <2>2 DEF OwnInv, Own, Open
  <2>3. ASSUME NEW u \in Tab \cup {None}, u # None => drafts[u] # None, Becomes(t, NewSession(t, u))
        PROVE  OwnInv'
    <3>0. PICK z : z = NewSession(t, u)  OBVIOUS
    <3>1. Begins(t, u, z)  BY <2>0, <2>3, <3>0, NewSessions
    <3>2. z \in Session  BY <3>1 DEF Begins
    <3>3. session'[t] = z /\ \A w \in Tab \ {t} : session'[w] = session[w]
      BY <1>a, <2>3, <3>0, <3>2, Became
    <3>4. Own(t)'  BY <2>0, <3>1, <3>3 DEF Own, Begins
    <3> QED  BY <2>0, <3>3, <3>4, OwnOthers
  <2> QED  BY <2>1, <2>2, <2>3
<1>17. ASSUME NEW t \in Tab, LocalFails(t) \/ Fetch(t) PROVE OwnInv'
  BY <1>17 DEF LocalFails, Fetch, OwnInv, Own, Open
<1>18. ASSUME NEW r \in stray, ServeStray(r) PROVE OwnInv'
  BY <1>18 DEF ServeStray, OwnInv, Own, Open
<1>19. CASE UNCHANGED vars  BY <1>19 DEF vars, OwnInv, Own, Open
<1> QED
  BY <1>1, <1>2, <1>3, <1>4, <1>5, <1>6, <1>7, <1>8, <1>9, <1>10, <1>11, <1>12, <1>13, <1>14,
     <1>15, <1>16, <1>17, <1>18, <1>19 DEF Next, Online, Unmount

-----------------------------------------------------------------------------
(* The requests *)

\* A request that a save or a trash makes.
NewRequest(r) ==
  \E t \in Tab : /\ Open(t) /\ session[t].status # "conflict"
                 /\ \E k \in Nat : r = RequestOf(t, k)

OldOrNew(r) == r \in Requests \/ NewRequest(r)

LEMMA NetRequests ==
  ASSUME NEW t \in Tab, net[t] # None
  PROVE  net[t].req \in Requests
BY DEF Requests

LEMMA PendingRequests ==
  ASSUME NEW t \in Tab, Open(t), session[t].pending # None
  PROVE  session[t].pending \in Requests
BY DEF Requests

LEMMA UnservedRequests ==
  ASSUME NEW t \in Tab
  PROVE  stray \cup Unserved(t) \subseteq Requests
BY NetRequests DEF Unserved, Requests

LEMMA SendRequests ==
  ASSUME OwnInv, NEW t \in Tab, Send(t)
  PROVE  OldOrNew(ToSend(t))
<1>1. Open(t) /\ session[t].status # "conflict" /\ 0 \in Nat  BY DEF Send, OwnInv, Own
<1>2. CASE session[t].pending # None
  BY <1>1, <1>2, PendingRequests DEF ToSend, OldOrNew
<1>3. CASE session[t].pending = None
  <2>1. ToSend(t) = RequestOf(t, 0)  BY <1>3 DEF ToSend
  <2>2. NewRequest(ToSend(t))  BY <1>1, <2>1 DEF NewRequest
  <2> QED  BY <2>2 DEF OldOrNew
<1> QED  BY <1>2, <1>3

\* No step makes a stray of what was no request.
LEMMA StraySteps ==
  ASSUME RestType, [Next]_vars
  PROVE  stray' \subseteq Requests
<1>0. stray \subseteq Requests  BY DEF Requests
<1>1. ASSUME NEW t \in Tab, Change(t) \/ DraftTimer(t) \/ LocalEnds(t) \/ LocalFails(t)
                            \/ SaveTimer(t) \/ SaveNow(t) \/ KeepDraft(t) \/ Send(t) \/ UploadFails(t)
      PROVE  stray' = stray
  BY <1>1 DEF Change, DraftTimer, LocalEnds, LocalFails, SaveTimer, SaveNow, KeepDraft, Send, UploadFails
<1>2. ASSUME NEW t \in Tab, SaveOk(t) \/ Settle(t) \/ EndSave(t) \/ SaveFails(t)
                            \/ Trash(t) \/ TrashFlushed(t) \/ TrashOk(t) \/ TrashFails(t)
      PROVE  stray' = stray
  BY <1>2 DEF SaveOk, Settle, EndSave, SaveFails, Trash, TrashFlushed, TrashOk, TrashFails
<1>3. ASSUME NEW t \in Tab, Retire(t) \/ Fetch(t) \/ Build(t) \/ Copy(t) \/ CopyMade(t) \/ CopyFails(t)
      PROVE  stray' = stray
  BY <1>3 DEF Retire, Fetch, Build, Copy, CopyMade, CopyFails
<1>4. ASSUME NEW t \in Tab, Lose(t) \/ Close(t) PROVE stray' = stray \cup Unserved(t)
  BY <1>4 DEF Lose, Close
<1>5. ASSUME NEW t \in Tab, Serve(t) PROVE stray' \subseteq stray
  BY <1>5 DEF Serve, StillOf
<1>6. ASSUME NEW r \in stray, ServeStray(r) PROVE stray' \subseteq stray
  BY <1>6 DEF ServeStray, StillOf
<1>7. UNCHANGED vars => stray' = stray  BY DEF vars
<1> QED  BY <1>0, <1>1, <1>2, <1>3, <1>4, <1>5, <1>6, <1>7, UnservedRequests DEF Next, Online, Unmount

\* A request under way was made by its tab, or is made now.
LEMMA NetSteps ==
  ASSUME TypeOK, OwnInv, [Next]_vars, NEW u \in Tab, net'[u] # None
  PROVE  OldOrNew(net'[u].req)
<1>a. RestType  BY DEF TypeOK, RestType
<1>b. net \in NetType  BY <1>a DEF RestType, NetType
<1>c. net[u] # None => OldOrNew(net[u].req)  BY NetRequests DEF OldOrNew
<1>1. ASSUME NEW t \in Tab, Change(t) \/ DraftTimer(t) \/ LocalEnds(t) \/ LocalFails(t)
                            \/ SaveTimer(t) \/ SaveNow(t) \/ KeepDraft(t) \/ UploadFails(t)
      PROVE  net' = net
  BY <1>1 DEF Change, DraftTimer, LocalEnds, LocalFails, SaveTimer, SaveNow, KeepDraft, UploadFails
<1>2. ASSUME NEW t \in Tab, Settle(t) \/ EndSave(t) \/ Trash(t) \/ Retire(t) \/ Fetch(t)
                            \/ Build(t) \/ Copy(t) \/ CopyMade(t) \/ CopyFails(t)
      PROVE  net' = net
  BY <1>2 DEF Settle, EndSave, Trash, Retire, Fetch, Build, Copy, CopyMade, CopyFails
<1>3. ASSUME NEW t \in Tab, SaveOk(t) \/ SaveFails(t) \/ Lose(t) \/ TrashOk(t) \/ TrashFails(t) \/ Close(t)
      PROVE  net'[u] = net[u]
  BY <1>3, <1>b DEF SaveOk, SaveFails, Lose, TrashOk, TrashFails, Close, NetType
<1>4. ASSUME NEW t \in Tab, Send(t) PROVE OldOrNew(net'[u].req)
  <2>1. net' = Sent(t, ToSend(t))  BY <1>4 DEF Send, ToSend
  <2>2. CASE u = t  BY <1>b, <1>4, <2>1, <2>2, SendRequests DEF Sent, NetType
  <2>3. CASE u # t  BY <1>b, <1>c, <2>1, <2>3 DEF Sent, NetType
  <2> QED  BY <2>2, <2>3
<1>5. ASSUME NEW t \in Tab, TrashFlushed(t) PROVE OldOrNew(net'[u].req)
  <2>1. CASE net' = net  BY <1>c, <2>1
  <2>2. CASE session[t].status = "saved" /\ net' = Sent(t, RequestOf(t, trashes))
    <3>1. NewRequest(RequestOf(t, trashes))
      BY <1>5, <1>a, <2>2 DEF NewRequest, TrashFlushed, RestType
    <3>2. CASE u = t  BY <1>b, <2>2, <3>1, <3>2 DEF Sent, OldOrNew, NetType
    <3>3. CASE u # t  BY <1>b, <1>c, <2>2, <3>3 DEF Sent, NetType
    <3> QED  BY <3>2, <3>3
  <2> QED  BY <1>5, <2>1, <2>2 DEF TrashFlushed
<1>6. ASSUME NEW t \in Tab, Serve(t) PROVE net[u] # None /\ net'[u].req = net[u].req
  <2>1. net[t] # None /\ net[t] \in [req : Request, answer : {"none", "ok", "conflict", "refused"}, rev : Nat]
    BY <1>6, <1>b DEF Serve, NetType
  <2> DEFINE a == Verdict(net[t].req)
             n == server'.rev
  <2>2. net' = [net EXCEPT ![t] = [net[t] EXCEPT !.answer = a, !.rev = n]]
    BY <1>6, <1>b DEF Serve, NetType
  <2> HIDE DEF a, n
  <2> DEFINE x == [net[t] EXCEPT !.answer = a, !.rev = n]
  <2>3. x.req = net[t].req  BY <2>1
  <2>4. net'[t] = x /\ \A w \in Tab \ {t} : net'[w] = net[w]  BY <2>2, <1>b DEF NetType
  <2> HIDE DEF x
  <2> QED  BY <2>1, <2>3, <2>4
<1>7. ASSUME NEW r \in stray, ServeStray(r) PROVE net' = net  BY <1>7 DEF ServeStray
<1>8. UNCHANGED vars => net' = net  BY DEF vars
<1> QED  BY <1>c, <1>1, <1>2, <1>3, <1>4, <1>5, <1>6, <1>7, <1>8 DEF Next, Online, Unmount

\* The good end of a save or a trash: the session has the revision that was answered.
OkOf(t) ==
  /\ Open(t) /\ net[t] # None /\ net[t].answer = "ok" /\ session[t].status # "conflict"
  /\ \A u \in Tab : (Open(u)' <=> Open(u)) /\ Same(session[u], session'[u])
  /\ \A u \in Tab \ {t} : session'[u] = session[u]
  /\ session'[t].rev = net[t].rev /\ session'[t].status = session[t].status
  /\ session'[t].pending = session[t].pending

LEMMA OkSteps ==
  ASSUME NoneAssumption, TypeOK, OwnInv, NEW t \in Tab, SaveOk(t) \/ TrashOk(t)
  PROVE  OkOf(t)
<1>0. SessionType /\ net \in NetType  BY DEF TypeOK, SessionType, NetType
<1>a. saving[t] # "no" /\ net[t] # None /\ net[t].answer = "ok"
  BY DEF SaveOk, TrashOk, Answered
<1>b. Own(t)  BY DEF OwnInv
<1>1. Open(t) /\ net[t].rev \in Nat /\ net[t] # None /\ net[t].answer = "ok"
      /\ session[t].status # "conflict"
  BY <1>0, <1>a, <1>b DEF Own, NetType
<1>2. Turns(t, net[t].rev, session[t].status, session[t].pending)
  BY <1>0, <1>1, SaveOkTurns, TrashOkTurns
<1>3. /\ \A u \in Tab : (Open(u)' <=> Open(u)) /\ Same(session[u], session'[u])
      /\ \A u \in Tab \ {t} : session'[u] = session[u]
      /\ session'[t].rev = net[t].rev /\ session'[t].status = session[t].status
      /\ session'[t].pending = session[t].pending
  BY <1>0, <1>1, <1>2, TurnsStep
<1> QED  BY <1>1, <1>3 DEF OkOf

\* The edit of a session.
EditOf(t) ==
  /\ Change(t) /\ Open(t) /\ Open(t)'
  /\ \A u \in Tab \ {t} : session'[u] = session[u] /\ (Open(u)' <=> Open(u))
  /\ session'[t].id = session[t].id /\ session'[t].rev = session[t].rev
  /\ session'[t].content = session[t].content \cup {edits + 1}
  /\ session'[t].gen = session[t].gen + 1 /\ session'[t].pending = session[t].pending
  /\ session[t].status = "conflict" => session'[t].status = "conflict"
  /\ session'[t] \in Session /\ session[t] \in Session

LEMMA ChangeSteps ==
  ASSUME BoardAssumption, NoneAssumption, TypeOK, BoundInv, NEW t \in Tab, Change(t)
  PROVE  EditOf(t)
<1>0. SessionType /\ edits \in Nat  BY DEF TypeOK, SessionType
<1>1. Open(t)  BY DEF Change, Active
<1>2. PICK z : \E v \in Statuses :
        /\ Becomes(t, z) /\ (v = "conflict" <=> session[t].status = "conflict")
        /\ Edited(session[t], z, session[t].content \cup {edits + 1}, session[t].gen + 1, v)
  BY <1>0, ChangeTurns
<1>3. z \in Session /\ Becomes(t, z)  BY <1>2 DEF Edited
<1>4. /\ session'[t] = z /\ Open(t)'
      /\ \A u \in Tab \ {t} : session'[u] = session[u] /\ (Open(u)' <=> Open(u))
  BY <1>0, <1>3, Became
<1>5. /\ z.id = session[t].id /\ z.rev = session[t].rev
      /\ z.content = session[t].content \cup {edits + 1}
      /\ z.gen = session[t].gen + 1 /\ z.pending = session[t].pending
      /\ session[t].status = "conflict" => z.status = "conflict"
  BY <1>2 DEF Edited
<1> QED  BY <1>0, <1>1, <1>3, <1>4, <1>5, OpenSession DEF EditOf

\* The session that t begins, from the draft of u or from none, is z.
BeginsWith(t, u, z) ==
  /\ Begins(t, u, z) /\ session'[t] = z /\ z \in Session
  /\ \A w \in Tab \ {t} : session'[w] = session[w] /\ (Open(w)' <=> Open(w))
  /\ u # None => u \in Tab /\ drafts[u] # None
  /\ u # None /\ drafts[u].token[1] \in mixed => <<t, opens>> \in mixed'

LEMMA BuildSteps ==
  ASSUME BoardAssumption, NoneAssumption, TypeOK, BoundInv, NEW t \in Tab, Build(t)
  PROVE  /\ opening[t] # None
         /\ UNCHANGED session \/ \E u \in Tab \cup {None} : \E z : BeginsWith(t, u, z)
<1>0. SessionType  BY DEF TypeOK, SessionType
<1>1. opening[t] # None  BY DEF Build
<1>2. ASSUME session' # session
      PROVE  \E u \in Tab \cup {None} :
               /\ u # None => drafts[u] # None
               /\ Becomes(t, NewSession(t, u))
               /\ u # None /\ drafts[u].token[1] \in mixed => <<t, opens>> \in mixed'
  BY <1>2 DEF Build, Candidates, Becomes
<1>3. ASSUME session' # session PROVE \E u \in Tab \cup {None} : \E z : BeginsWith(t, u, z)
  <2>1. PICK u \in Tab \cup {None} :
               /\ u # None => drafts[u] # None
               /\ Becomes(t, NewSession(t, u))
               /\ u # None /\ drafts[u].token[1] \in mixed => <<t, opens>> \in mixed'
    BY <1>2, <1>3
  <2>2. PICK z : z = NewSession(t, u)  OBVIOUS
  <2>3. Begins(t, u, z)  BY <1>1, <2>1, <2>2, NewSessions
  <2>4. z \in Session  BY <2>3 DEF Begins
  <2>5. session'[t] = z /\ \A w \in Tab \ {t} : session'[w] = session[w] /\ (Open(w)' <=> Open(w))
    BY <1>0, <2>1, <2>2, <2>4, Became
  <2>6. BeginsWith(t, u, z)  BY <2>1, <2>3, <2>4, <2>5 DEF BeginsWith
  <2> QED  BY <2>6
<1> QED  BY <1>1, <1>3

\* The request a session keeps is an old one, or made now.
LEMMA PendingSteps ==
  ASSUME BoardAssumption, NoneAssumption, TypeOK, OwnInv, BoundInv, [Next]_vars,
         NEW u \in Tab, Open(u)', session'[u].pending # None
  PROVE  OldOrNew(session'[u].pending)
<1>0. SessionType /\ local \in [Tab -> Seq(Operation)]  BY DEF TypeOK, SessionType
<1>1. Open(u) /\ session'[u].pending = session[u].pending => OldOrNew(session'[u].pending)
  BY PendingRequests DEF OldOrNew
<1>2. CASE Quiet  BY <1>1, <1>2, SendRequests DEF Quiet, Kept
<1>3. ASSUME NEW t \in Tab, Change(t) PROVE OldOrNew(session'[u].pending)
  BY <1>1, <1>3, ChangeSteps DEF EditOf
<1>4. ASSUME NEW t \in Tab, SaveOk(t) \/ TrashOk(t) PROVE OldOrNew(session'[u].pending)
  BY <1>1, <1>4, OkSteps DEF OkOf
<1>5. ASSUME NEW t \in Tab, Build(t) PROVE OldOrNew(session'[u].pending)
  <2>1. CASE UNCHANGED session  BY <1>1, <2>1 DEF Open
  <2>2. ASSUME NEW w \in Tab \cup {None}, NEW z, BeginsWith(t, w, z)
        PROVE  OldOrNew(session'[u].pending)
    BY <1>1, <2>2 DEF BeginsWith, Begins
  <2> QED  BY <1>5, <2>1, <2>2, BuildSteps
<1> QED  BY <1>0, <1>2, <1>3, <1>4, <1>5, QuietSteps

LEMMA RequestSteps ==
  ASSUME BoardAssumption, NoneAssumption, TypeOK, OwnInv, BoundInv, [Next]_vars
  PROVE  \A r \in Requests' : OldOrNew(r)
<1>1. RestType  BY DEF TypeOK, RestType
<1>2. ASSUME NEW r \in stray' PROVE OldOrNew(r)  BY <1>1, <1>2, StraySteps DEF OldOrNew
<1> QED  BY <1>2, NetSteps, PendingSteps DEF Requests

\* What the server holds is what it held, or the content of a request of its revision.
Writes(r) ==
  /\ server.rev = r.rev
  /\ server'.rev = server.rev + 1 /\ server'.content = r.content /\ server'.last = r.id

LEMMA ServerSteps ==
  ASSUME TypeOK, [Next]_vars
  PROVE  \/ UNCHANGED server
         \/ \E r \in Requests : Writes(r)
<1>0. RestType /\ server \in ServerType /\ net \in NetType /\ stray \subseteq Requests
      /\ stray \subseteq Request
  BY DEF TypeOK, RestType, ServerType, NetType, Requests
<1>1. ASSUME NEW t \in Tab, Change(t) \/ DraftTimer(t) \/ LocalEnds(t) \/ LocalFails(t)
                            \/ SaveTimer(t) \/ SaveNow(t) \/ KeepDraft(t) \/ Send(t) \/ UploadFails(t)
      PROVE  server' = server
  BY <1>1 DEF Change, DraftTimer, LocalEnds, LocalFails, SaveTimer, SaveNow, KeepDraft, Send, UploadFails
<1>2. ASSUME NEW t \in Tab, SaveOk(t) \/ Settle(t) \/ EndSave(t) \/ SaveFails(t) \/ Lose(t)
                            \/ Trash(t) \/ TrashFlushed(t) \/ TrashOk(t) \/ TrashFails(t)
      PROVE  server' = server
  BY <1>2 DEF SaveOk, Settle, EndSave, SaveFails, Lose, Trash, TrashFlushed, TrashOk, TrashFails
<1>3. ASSUME NEW t \in Tab, Retire(t) \/ Fetch(t) \/ Build(t) \/ Copy(t) \/ CopyMade(t) \/ CopyFails(t) \/ Close(t)
      PROVE  server' = server
  BY <1>3 DEF Retire, Fetch, Build, Copy, CopyMade, CopyFails, Close
<1>4. ASSUME NEW r \in Request, r \in Requests, server' = Written(r)
      PROVE  UNCHANGED server \/ \E q \in Requests : Writes(q)
  <2>1. Written(r) = server \/ Writes(r)  BY <1>0, <1>4, WriteType DEF Writes
  <2> QED  BY <1>4, <2>1
<1>5. ASSUME NEW t \in Tab, Serve(t) PROVE UNCHANGED server \/ \E q \in Requests : Writes(q)
  <2>1. net[t].req \in Request /\ net[t].req \in Requests /\ server' = Written(net[t].req)
    BY <1>0, <1>5, NetRequests DEF Serve, NetType
  <2> QED  BY <1>4, <2>1
<1>6. ASSUME NEW r \in stray, ServeStray(r)
      PROVE  UNCHANGED server \/ \E q \in Requests : Writes(q)
  BY <1>0, <1>4, <1>6 DEF ServeStray
<1>7. UNCHANGED vars => server' = server  BY DEF vars
<1> QED  BY <1>1, <1>2, <1>3, <1>5, <1>6, <1>7 DEF Next, Online, Unmount

-----------------------------------------------------------------------------
(* The drafts *)

\* A draft is stored as it was begun.
LEMMA StoredCases ==
  ASSUME drafts \in [Tab -> Draft \cup {None}], NEW op \in Operation, NEW u \in Tab,
         Stored(op)[u] # None
  PROVE  Stored(op)[u] = drafts[u] \/ (op.op = "put" /\ Stored(op)[u] = op.draft)
<1>1. CASE op.op = "put"  BY <1>1 DEF Stored, Operation
<1>2. CASE op.op = "wipe"  BY <1>2 DEF Stored
<1>3. CASE op.op = "clear"  BY <1>3 DEF Stored
<1> QED  BY <1>1, <1>2, <1>3 DEF Operation

\* Drafts change in the store only.
LEMMA DraftSteps ==
  ASSUME [Next]_vars
  PROVE  drafts' = drafts \/ \E t \in Tab : LocalEnds(t)
<1>1. ASSUME NEW t \in Tab, Change(t) \/ DraftTimer(t) \/ LocalFails(t)
                            \/ SaveTimer(t) \/ SaveNow(t) \/ KeepDraft(t) \/ Send(t) \/ UploadFails(t)
      PROVE  drafts' = drafts
  BY <1>1 DEF Change, DraftTimer, LocalFails, SaveTimer, SaveNow, KeepDraft, Send, UploadFails
<1>2. ASSUME NEW t \in Tab, Serve(t) \/ SaveOk(t) \/ Settle(t) \/ EndSave(t) \/ SaveFails(t)
                            \/ Lose(t) \/ Trash(t) \/ TrashFlushed(t) \/ TrashOk(t) \/ TrashFails(t)
      PROVE  drafts' = drafts
  BY <1>2 DEF Serve, SaveOk, Settle, EndSave, SaveFails, Lose, Trash, TrashFlushed, TrashOk, TrashFails
<1>3. ASSUME NEW t \in Tab, Retire(t) \/ Fetch(t) \/ Build(t) \/ Copy(t) \/ CopyMade(t) \/ CopyFails(t) \/ Close(t)
      PROVE  drafts' = drafts
  BY <1>3 DEF Retire, Fetch, Build, Copy, CopyMade, CopyFails, Close
<1>4. ASSUME NEW r \in stray, ServeStray(r) PROVE drafts' = drafts  BY <1>4 DEF ServeStray
<1>5. UNCHANGED vars => drafts' = drafts  BY DEF vars
<1> QED  BY <1>1, <1>2, <1>3, <1>4, <1>5 DEF Next, Online, Unmount


\* A draft that the session of t begins to store.
NewPut(d) ==
  \E t \in Tab : Open(t) /\ d = DraftOf(t) /\ (BeganInConflict(t) => session[t].id \in mixed')

\* The sequence q holds what s held, or drafts that are stored now.
Extends(s, q) ==
  \A i \in DOMAIN q : q[i].op = "put" => (\E j \in DOMAIN s : s[j] = q[i]) \/ NewPut(q[i].draft)

LEMMA AppendExtends ==
  ASSUME NEW s \in Seq(Operation), NEW x \in Operation, x.op = "put" => NewPut(x.draft)
  PROVE  Extends(s, Append(s, x))
<1>1. \A i \in DOMAIN Append(s, x) :
        (i \in DOMAIN s /\ Append(s, x)[i] = s[i]) \/ Append(s, x)[i] = x
  BY AppendProperties, LenProperties
<1> QED  BY <1>1 DEF Extends

LEMMA PersistExtends ==
  ASSUME SessionType, local \in [Tab -> Seq(Operation)], NEW t \in Tab, NEW a \in BOOLEAN,
         BoardAssumption, Open(t), BeganInConflict(t) => session[t].id \in mixed', NEW u \in Tab
  PROVE  Extends(local[u], PersistDraft(t, a)[u])
<1>0. PICK d : d = DraftOf(t)  OBVIOUS
<1>1. d \in Draft /\ NewPut(d)
  <2>1. DraftOf(t) \in Draft  BY 0 \in Nat, Made
  <2> QED  BY <1>0, <2>1 DEF NewPut
<1>2. PICK x : x = [op |-> "put", key |-> t, draft |-> d, awaited |-> a]  OBVIOUS
<1>3. x \in Operation /\ x.draft = d  BY <1>1, <1>2 DEF Operation
<1>4. PersistDraft(t, a) = [local EXCEPT ![t] = Append(local[t], x)]
  BY <1>0, <1>2 DEF PersistDraft
<1>5. Extends(local[t], Append(local[t], x))  BY <1>1, <1>3, AppendExtends
<1>6. Extends(local[u], local[u])  BY DEF Extends
<1> QED  BY <1>4, <1>5, <1>6

LEMMA ClearExtends ==
  ASSUME local \in [Tab -> Seq(Operation)], NEW t \in Tab, NEW key \in Tab, NEW token \in Token,
         NEW a \in BOOLEAN, NEW u \in Tab
  PROVE  Extends(local[u], ClearDraft(t, key, token, a)[u])
<1>1. PICK x : x = [op |-> "clear", key |-> key, token |-> token, awaited |-> a]  OBVIOUS
<1>2. x \in Operation /\ x.op # "put"  BY <1>1 DEF Operation
<1>3. ClearDraft(t, key, token, a) = [local EXCEPT ![t] = Append(local[t], x)]
  BY <1>1 DEF ClearDraft
<1>4. Extends(local[t], Append(local[t], x))  BY <1>2, AppendExtends
<1>5. Extends(local[u], local[u])  BY DEF Extends
<1> QED  BY <1>3, <1>4, <1>5

LEMMA PutSteps ==
  ASSUME BoardAssumption, NoneAssumption, TypeOK, OwnInv, [Next]_vars, NEW u \in Tab
  PROVE  Extends(local[u], local'[u])
<1>0. SessionType /\ local \in [Tab -> Seq(Operation)] /\ drafts \in [Tab -> Draft \cup {None}]
  BY DEF TypeOK, SessionType
<1>s. Extends(local[u], local[u])  BY DEF Extends
<1>1. ASSUME NEW t \in Tab, Change(t) \/ Send(t) \/ UploadFails(t) \/ Serve(t) \/ EndSave(t)
                            \/ SaveFails(t) \/ Lose(t)
      PROVE  local' = local
  BY <1>1 DEF Change, Send, UploadFails, Serve, EndSave, SaveFails, Lose
<1>2. ASSUME NEW t \in Tab, TrashFlushed(t) \/ TrashFails(t) \/ Retire(t) \/ Fetch(t)
                            \/ Copy(t) \/ CopyFails(t)
      PROVE  local' = local
  BY <1>2 DEF TrashFlushed, TrashFails, Retire, Fetch, Copy, CopyFails
<1>3. ASSUME NEW t \in Tab, DraftTimer(t) \/ KeepDraft(t) PROVE Extends(local[u], local'[u])
  <2>1. /\ Open(t) /\ local' \in {local, PersistDraft(t, FALSE)}
        /\ BeganInConflict(t) => session[t].id \in mixed'
    BY <1>3 DEF DraftTimer, KeepDraft, MixedByDraft
  <2> QED  BY <1>0, <1>s, <2>1, PersistExtends
<1>4. ASSUME NEW t \in Tab, LocalEnds(t) \/ LocalFails(t) PROVE Extends(local[u], local'[u])
  <2>1. local[t] \in Seq(Operation) /\ local[t] # <<>> /\ local' = [local EXCEPT ![t] = Tail(local[t])]
    BY <1>0, <1>4 DEF LocalEnds, LocalFails
  <2>2. \A i \in DOMAIN Tail(local[t]) : i + 1 \in DOMAIN local[t] /\ Tail(local[t])[i] = local[t][i + 1]
    BY <2>1, Operations
  <2>3. Extends(local[t], Tail(local[t]))  BY <2>2 DEF Extends
  <2> QED  BY <1>0, <1>s, <2>1, <2>3
<1>5. ASSUME NEW t \in Tab, SaveTimer(t) \/ SaveNow(t) \/ Trash(t) PROVE Extends(local[u], local'[u])
  <2>1. Open(t) /\ \E l \in {"active", "trashing"} : Flush(t, l)
    BY <1>5, <1>0, OpenSession, Fields DEF SaveTimer, SaveNow, Trash, Active
  <2>2. local' = local \/ (CanSave(t) /\ local' = PersistDraft(t, TRUE))  BY <2>1 DEF Flush
  <2>3. CanSave(t) => ~BeganInConflict(t)  BY DEF CanSave, BeganInConflict
  <2> QED  BY <1>0, <1>s, <2>1, <2>2, <2>3, PersistExtends
<1>6. ASSUME NEW t \in Tab, SaveOk(t) PROVE Extends(local[u], local'[u])
  <2>1. session[t] \in Session /\ session[t].recovered \in (Tab \X Token) \cup {None}
    BY <1>0, <1>6, Busy, OpenSession, Fields DEF SaveOk, Answered
  <2>2. local' = local \/ \E key \in Tab, token \in Token : local' = ClearDraft(t, key, token, TRUE)
    BY <1>6, <2>1 DEF SaveOk
  <2> QED  BY <1>0, <1>s, <2>2, ClearExtends
<1>7. ASSUME NEW t \in Tab, Settle(t) PROVE Extends(local[u], local'[u])
  <2>1. Open(t) /\ ~BeganInConflict(t) /\ 0 \in Nat  BY <1>7 DEF Settle, OwnInv, Own, BeganInConflict
  <2>2. TokenOf(t) \in Token  BY <1>0, <2>1, Made
  <2>3. local' \in {PersistDraft(t, TRUE), ClearDraft(t, t, TokenOf(t), TRUE)}
    BY <1>7 DEF Settle
  <2> QED  BY <1>0, <2>1, <2>2, <2>3, PersistExtends, ClearExtends
<1>8. ASSUME NEW t \in Tab, TrashOk(t) PROVE Extends(local[u], local'[u])
  <2>1. TokenOf(t) \in Token  BY <1>8, <1>0, 0 \in Nat, Busy, Made DEF TrashOk, Answered
  <2>2. local' = ClearDraft(t, t, TokenOf(t), TRUE)  BY <1>8 DEF TrashOk
  <2> QED  BY <1>0, <2>1, <2>2, ClearExtends
<1>9. ASSUME NEW t \in Tab, Build(t) PROVE Extends(local[u], local'[u])
  <2>1. local' = local \/ \E key \in Tab : drafts[key] # None
                              /\ local' = ClearDraft(t, key, drafts[key].token, FALSE)
    BY <1>9 DEF Build, Candidates
  <2>2. \A key \in Tab : drafts[key] # None => drafts[key].token \in Token  BY <1>0 DEF Draft
  <2> QED  BY <1>0, <1>s, <2>1, <2>2, ClearExtends
<1>10. ASSUME NEW t \in Tab, CopyMade(t) PROVE Extends(local[u], local'[u])
  <2>1. Open(t) /\ session[t].recovered \in (Tab \X Token) \cup {None}
    BY <1>10, <1>0, OpenSession, Fields DEF CopyMade
  <2> DEFINE c == [op |-> "clear", key |-> session[t].recovered[1],
                   token |-> session[t].recovered[2], awaited |-> FALSE]
             q == IF session[t].recovered = None THEN <<>> ELSE <<c>>
             w == [op |-> "wipe", key |-> t, awaited |-> FALSE]
             s == local[t]
  <2>2. /\ q \in Seq(Operation) /\ w \in Operation /\ w.op # "put"
        /\ \A i \in DOMAIN q : q[i].op # "put"
    <3>1. c.op # "put" /\ (session[t].recovered # None => c \in Operation)  BY <2>1 DEF Operation
    <3>2. w \in Operation /\ w.op # "put"  BY DEF Operation
    <3> HIDE DEF c
    <3> QED  BY <3>1, <3>2
  <2>3. local' = [local EXCEPT ![t] = s \o q \o <<w>>]  BY <1>10 DEF CopyMade
  <2>4. s \in Seq(Operation)  BY <1>0
  <2> HIDE DEF q, w, s
  <2>5. s \o q \in Seq(Operation) /\ s \o q \o <<w>> = Append(s \o q, w)
    BY <2>2, <2>4, ConcatProperties, AppendIsConcat
  <2>6. Extends(s, s \o q)
    <3>1. \A i \in DOMAIN (s \o q) :
            (i \in DOMAIN s /\ (s \o q)[i] = s[i]) \/ \E j \in DOMAIN q : (s \o q)[i] = q[j]
      BY <2>2, <2>4, ConcatProperties, LenProperties
    <3> QED  BY <2>2, <3>1 DEF Extends
  <2>7. Extends(s \o q, Append(s \o q, w))  BY <2>2, <2>5, AppendExtends
  <2>8. Extends(s, s \o q \o <<w>>)  BY <2>5, <2>6, <2>7 DEF Extends
  <2> QED  BY <1>0, <1>s, <2>3, <2>8 DEF s
<1>11. ASSUME NEW t \in Tab, Close(t) PROVE Extends(local[u], local'[u])
  <2>1. Extends(local[t], <<>>)  BY DEF Extends
  <2> QED  BY <1>0, <1>s, <1>11, <2>1 DEF Close
<1>12. ASSUME NEW r \in stray, ServeStray(r) PROVE local' = local  BY <1>12 DEF ServeStray
<1>13. UNCHANGED vars => local' = local  BY DEF vars
<1> QED
  BY <1>s, <1>1, <1>2, <1>3, <1>4, <1>5, <1>6, <1>7, <1>8, <1>9, <1>10, <1>11, <1>12, <1>13 DEF Next, Online, Unmount

LEMMA InDrafts ==
  ASSUME TypeOK
  PROVE  /\ \A t \in Tab : drafts[t] # None => drafts[t] \in Drafts
         /\ \A t \in Tab : \A i \in PutsOf(t) :
              local[t][i] \in Operation /\ local[t][i].draft \in Drafts
         /\ Drafts \subseteq Draft
<1>1. local \in [Tab -> Seq(Operation)] /\ drafts \in [Tab -> Draft \cup {None}]
  BY DEF TypeOK
<1>2. ASSUME NEW t \in Tab, NEW i \in PutsOf(t)
      PROVE  local[t][i] \in Operation /\ local[t][i].draft \in Draft
  <2>1. local[t] \in Seq(Operation)  BY <1>1
  <2>2. local[t][i] \in Operation  BY <1>2, <2>1, LenProperties DEF PutsOf
  <2> QED  BY <1>2, <2>2 DEF PutsOf, Operation
<1> QED  BY <1>1, <1>2 DEF Drafts

\* A draft was there, or is one that a session begins to store.
LEMMA DraftsOld ==
  ASSUME BoardAssumption, NoneAssumption, TypeOK, OwnInv, [Next]_vars, NEW d \in Drafts'
  PROVE  d \in Drafts \/ NewPut(d)
<1>0. local \in [Tab -> Seq(Operation)] /\ drafts \in [Tab -> Draft \cup {None}]
  BY DEF TypeOK
<1>1. ASSUME NEW u \in Tab, drafts'[u] # None, d = drafts'[u]
      PROVE  d \in Drafts
  <2>1. CASE drafts' = drafts  BY <1>1, <2>1, InDrafts
  <2>2. ASSUME NEW t \in Tab, LocalEnds(t) PROVE d \in Drafts
    <3> DEFINE q == local[t]
    <3>1. q \in Seq(Operation) /\ q # <<>> /\ drafts' = Stored(Head(q))  BY <1>0, <2>2 DEF LocalEnds
    <3>2. /\ Head(q) \in Operation /\ 1 \in DOMAIN q /\ Head(q) = q[1]
      BY <3>1, Operations
    <3>3. drafts'[u] = drafts[u] \/ (Head(q).op = "put" /\ drafts'[u] = Head(q).draft)
      BY <1>0, <1>1, <3>1, <3>2, StoredCases
    <3>4. Head(q).op = "put" => 1 \in PutsOf(t)  BY <3>2 DEF PutsOf
    <3> QED  BY <1>1, <3>2, <3>3, <3>4, InDrafts
  <2> QED  BY <2>1, <2>2, DraftSteps
<1>2. ASSUME NEW u \in Tab, NEW i \in DOMAIN local'[u], local'[u][i].op = "put", d = local'[u][i].draft
      PROVE  d \in Drafts \/ NewPut(d)
  <2>1. (\E j \in DOMAIN local[u] : local[u][j] = local'[u][i]) \/ NewPut(d)
    BY <1>2, PutSteps DEF Extends
  <2>2. ASSUME NEW j \in DOMAIN local[u], local[u][j] = local'[u][i] PROVE d \in Drafts
    <3>1. j \in PutsOf(u) /\ local[u][j].draft = d  BY <1>2, <2>2 DEF PutsOf
    <3> QED  BY <3>1, InDrafts
  <2> QED  BY <2>1, <2>2
<1> QED  BY <1>1, <1>2 DEF Drafts, PutsOf

-----------------------------------------------------------------------------
(* What sessions say *)

LEMMA ClaimFields ==
  ASSUME NEW i, NEW g, NEW x
  PROVE  /\ ClaimOf(i, g, x).id = i /\ ClaimOf(i, g, x).gen = g /\ ClaimOf(i, g, x).content = x
BY DEF ClaimOf

LEMMA InClaims ==
  /\ \A t \in Tab : Open(t) => SessionClaim(t) \in Claims
  /\ \A r \in Requests : RequestClaim(r) \in Claims
  /\ \A d \in Drafts : DraftClaim(d) \in Claims
  /\ ServerClaim \in Claims
BY DEF Claims

LEMMA NewRequestClaim ==
  ASSUME NEW r, OldOrNew(r)
  PROVE  RequestClaim(r) \in Claims
<1>1. CASE r \in Requests  BY <1>1, InClaims
<1>2. CASE NewRequest(r)
  <2>1. PICK t \in Tab, k \in Nat : Open(t) /\ r = RequestOf(t, k)  BY <1>2 DEF NewRequest
  <2>2. r.id[1] = session[t].id /\ r.id[2] = session[t].gen /\ r.content = session[t].content
    BY <2>1 DEF RequestOf
  <2>3. RequestClaim(r) = SessionClaim(t)  BY <2>2 DEF RequestClaim, SessionClaim
  <2> QED  BY <2>1, <2>3, InClaims
<1> QED  BY <1>1, <1>2 DEF OldOrNew

LEMMA NewPutClaim ==
  ASSUME NEW d, d \in Drafts \/ NewPut(d)
  PROVE  DraftClaim(d) \in Claims
<1>1. CASE d \in Drafts  BY <1>1, InClaims
<1>2. ASSUME NEW t \in Tab, Open(t), d = DraftOf(t) PROVE DraftClaim(d) \in Claims
  <2>1. d.token[1] = session[t].id /\ d.token[2] = session[t].gen /\ d.content = session[t].content
    BY <1>2 DEF DraftOf, TokenOf
  <2>2. DraftClaim(d) = SessionClaim(t)  BY <2>1 DEF DraftClaim, SessionClaim
  <2> QED  BY <1>2, <2>2, InClaims
<1> QED  BY <1>1, <1>2 DEF NewPut

\* Only a session can say something new.
LEMMA ClaimSteps ==
  ASSUME BoardAssumption, NoneAssumption, TypeOK, OwnInv, BoundInv, [Next]_vars, NEW c \in Claims'
  PROVE  \/ c \in Claims
         \/ \E t \in Tab : Open(t)' /\ c = SessionClaim(t)'
<1>1. CASE \E r \in Requests' : c = RequestClaim(r)
  BY <1>1, RequestSteps, NewRequestClaim
<1>2. CASE c = ServerClaim'
  <2>1. CASE UNCHANGED server
    <3>1. c = ServerClaim  BY <1>2, <2>1 DEF ServerClaim
    <3> QED  BY <3>1, InClaims
  <2>2. ASSUME NEW r \in Requests, Writes(r) PROVE c \in Claims
    <3>1. c = RequestClaim(r)  BY <1>2, <2>2 DEF Writes, ServerClaim, RequestClaim
    <3> QED  BY <2>2, <3>1, InClaims
  <2> QED  BY <2>1, <2>2, ServerSteps
<1>3. CASE \E d \in Drafts' : c = DraftClaim(d)
  BY <1>3, DraftsOld, NewPutClaim
<1>4. (\E r \in Requests' : c = RequestClaim(r)) \/ c = ServerClaim'
      \/ (\E d \in Drafts' : c = DraftClaim(d))
      \/ \E t \in Tab : Open(t)' /\ c = SessionClaim(t)'
  BY DEF Claims, RequestClaim, DraftClaim
<1> QED  BY <1>1, <1>2, <1>3, <1>4

LEMMA SameClaim ==
  ASSUME NEW t \in Tab, Open(t), Same(session[t], session'[t])
  PROVE  SessionClaim(t)' = SessionClaim(t) /\ SessionClaim(t)' \in Claims
<1>1. SessionClaim(t)' = SessionClaim(t)  BY DEF SessionClaim, Same
<1> QED  BY <1>1, InClaims

\* The types of what is said.
LEMMA RequestTypes ==
  ASSUME TypeOK, NEW r \in Requests
  PROVE  r \in Request /\ r.id[1] \in SessionId \cup {None} /\ r.id[2] \in 0..MaxEdits
         /\ r.content \in SUBSET Edit /\ r.rev \in Nat
<1>1. SessionType /\ net \in NetType /\ stray \subseteq Request  BY DEF TypeOK, SessionType, NetType
<1>2. r \in stray => r \in Request  BY <1>1
<1>3. ASSUME NEW t \in Tab, net[t] # None, r = net[t].req PROVE r \in Request
  BY <1>1, <1>3 DEF NetType
<1>4. ASSUME NEW t \in Tab, Open(t), session[t].pending # None, r = session[t].pending
      PROVE  r \in Request
  BY <1>1, <1>4, OpenSession, Fields
<1>5. r \in Request  BY <1>2, <1>3, <1>4 DEF Requests
<1> QED  BY <1>5 DEF Request, Mutation

LEMMA ClaimTypes ==
  ASSUME TypeOK, NEW c \in Claims
  PROVE  c.id \in SessionId \cup {None} /\ c.gen \in Nat
<1>1. SessionType /\ server \in ServerType  BY DEF TypeOK, SessionType, ServerType
<1>2. ASSUME NEW t \in Tab, Open(t), c = SessionClaim(t)
      PROVE  c.id \in SessionId \cup {None} /\ c.gen \in Nat
  <2>1. session[t].id \in SessionId /\ session[t].gen \in 0..MaxEdits  BY <1>1, <1>2, OpenSession, Fields
  <2>2. c.id = session[t].id /\ c.gen = session[t].gen  BY <1>2, ClaimFields DEF SessionClaim
  <2> QED  BY <2>1, <2>2
<1>3. ASSUME NEW r \in Requests, c = RequestClaim(r)
      PROVE  c.id \in SessionId \cup {None} /\ c.gen \in Nat
  <2>1. r.id[1] \in SessionId \cup {None} /\ r.id[2] \in 0..MaxEdits  BY <1>3, RequestTypes
  <2>2. c.id = r.id[1] /\ c.gen = r.id[2]  BY <1>3, ClaimFields DEF RequestClaim
  <2> QED  BY <2>1, <2>2
<1>4. ASSUME c = ServerClaim PROVE c.id \in SessionId \cup {None} /\ c.gen \in Nat
  <2>1. server.last \in Mutation  BY <1>1 DEF ServerType
  <2>2. server.last[1] \in SessionId \cup {None} /\ server.last[2] \in 0..MaxEdits
    BY <2>1 DEF Mutation
  <2>3. c.id = server.last[1] /\ c.gen = server.last[2]  BY <1>4, ClaimFields DEF ServerClaim
  <2> QED  BY <2>2, <2>3
<1>5. ASSUME NEW d \in Drafts, c = DraftClaim(d)
      PROVE  c.id \in SessionId \cup {None} /\ c.gen \in Nat
  <2>1. d \in Draft  BY InDrafts
  <2>2. d.token[1] \in SessionId /\ d.token[2] \in 0..MaxEdits  BY <2>1 DEF Draft, Token
  <2>3. c.id = d.token[1] /\ c.gen = d.token[2]  BY <1>5, ClaimFields DEF DraftClaim
  <2> QED  BY <2>2, <2>3
<1> QED  BY <1>2, <1>3, <1>4, <1>5 DEF Claims

LEMMA BoundedKept ==
  ASSUME RestType, [Next]_vars, NEW c, c.id \in SessionId \cup {None}, Bounded(c),
         \A t \in Tab : Open(t)' /\ session'[t].id = c.id => c.gen <= session'[t].gen
  PROVE  Bounded(c)'
<1>1. SUFFICES ASSUME c.id # None
               PROVE  c.id[2] <= opens' /\ (opening'[c.id[1]] # None => c.id[2] < opens')
  BY DEF Bounded
<1>2. c.id[1] \in Tab /\ c.id[2] \in Nat /\ opens \in Nat  BY <1>1 DEF SessionId, RestType
<1>3. c.id[2] <= opens /\ (opening[c.id[1]] # None => c.id[2] < opens)  BY <1>1 DEF Bounded
<1>4. CASE opens' = opens /\ \A t \in Tab : opening'[t] \in {opening[t], None}
  BY <1>2, <1>3, <1>4
<1>5. ASSUME NEW t \in Tab, Fetch(t) PROVE opens' = opens + 1  BY <1>5 DEF Fetch
<1> QED  BY <1>2, <1>3, <1>4, <1>5, CounterSteps

\* Nothing new is said.
LEMMA ClaimsFollow ==
  ASSUME BoardAssumption, NoneAssumption, TypeOK, OwnInv, BoundInv, ClaimInv, [Next]_vars,
         \A t \in Tab : Open(t)' => Open(t) /\ Same(session[t], session'[t])
  PROVE  ClaimInv'
<1>1. Claims' \subseteq Claims  BY ClaimSteps, SameClaim
<1>2. RestType  BY DEF TypeOK, RestType
<1>3. ASSUME NEW c \in Claims PROVE Bounded(c)'
  <2>1. c.id \in SessionId \cup {None} /\ Bounded(c)  BY ClaimTypes DEF ClaimInv
  <2>2. CASE c.id = None  BY <2>2 DEF Bounded
  <2>3. CASE c.id # None
    <3>1. \A t \in Tab : Open(t) /\ session[t].id = c.id => c.gen <= session[t].gen
      BY <2>1, <2>3 DEF Bounded
    <3>2. \A t \in Tab : Open(t)' /\ session'[t].id = c.id => c.gen <= session'[t].gen
      BY <3>1 DEF Same
    <3> QED  BY <1>2, <2>1, <3>2, BoundedKept
  <2> QED  BY <2>2, <2>3
<1>4. \A c, d \in Claims' : c.id = d.id /\ c.gen <= d.gen => c.content \subseteq d.content
  BY <1>1 DEF ClaimInv
<1> QED  BY <1>1, <1>3, <1>4 DEF ClaimInv

\* An edit says more than was said.
LEMMA ClaimsOfChange ==
  ASSUME BoardAssumption, NoneAssumption, TypeOK, OwnInv, BoundInv, ClaimInv, OwnInv', [Next]_vars,
         NEW t \in Tab, EditOf(t)
  PROVE  ClaimInv'
<1>a. PICK n : n = SessionClaim(t)'  OBVIOUS
<1>b. PICK o : o = SessionClaim(t)  OBVIOUS
<1>1. /\ n.id = session[t].id /\ n.gen = session[t].gen + 1
      /\ n.content = session[t].content \cup {edits + 1}
      /\ o.id = session[t].id /\ o.gen = session[t].gen /\ o.content = session[t].content
  BY <1>a, <1>b, ClaimFields DEF SessionClaim, EditOf
<1>2. o \in Claims /\ session[t].gen \in Nat /\ session[t].id \in SessionId /\ session[t].id # None
  BY <1>b, InClaims, Fields DEF EditOf, NoneAssumption
<1>3. RestType /\ Open(t)  BY DEF TypeOK, RestType, EditOf
<1>4. \A c \in Claims' : c \in Claims \/ c = n
  <2>1. \A u \in Tab \ {t} : Open(u)' => SessionClaim(u)' \in Claims
    BY SameClaim DEF EditOf, Same
  <2> QED  BY <1>a, <2>1, ClaimSteps
<1>5. \A c \in Claims : c.id \in SessionId \cup {None} /\ c.gen \in Nat /\ Bounded(c)
  BY ClaimTypes DEF ClaimInv
<1>6. \A c \in Claims : c.id = session[t].id => c.gen <= session[t].gen
  BY <1>2, <1>3, <1>5 DEF Bounded
<1>7. ASSUME NEW c \in Claims PROVE Bounded(c)'
  <2>1. CASE c.id = None  BY <2>1 DEF Bounded
  <2>2. CASE c.id # None
    <3>1. \A u \in Tab : Open(u) /\ session[u].id = c.id => c.gen <= session[u].gen
      BY <1>5, <2>2 DEF Bounded
    <3>2. \A u \in Tab \ {t} : Open(u)' /\ session'[u].id = c.id => c.gen <= session'[u].gen
      BY <3>1 DEF EditOf
    <3>3. session'[t].id = c.id => c.gen <= session'[t].gen
      <4>1. session'[t].id = session[t].id /\ session'[t].gen = session[t].gen + 1  BY DEF EditOf
      <4>2. c.gen \in Nat /\ (session[t].id = c.id => c.gen <= session[t].gen)  BY <1>3, <1>5, <3>1
      <4> QED  BY <1>2, <4>1, <4>2
    <3> QED  BY <1>3, <1>5, <3>2, <3>3, BoundedKept
  <2> QED  BY <2>1, <2>2
<1>8. Bounded(n)'
  <2>1. Bounded(o)'  BY <1>2, <1>7
  <2>2. \A u \in Tab : Open(u)' /\ session'[u].id = n.id => n.gen <= session'[u].gen
    <3>1. \A u \in Tab : Open(u)' => session'[u].id[1] = u  BY DEF OwnInv, Own
    <3>2. session'[t].id = n.id /\ session'[t].gen = n.gen /\ Open(t)' /\ n.gen \in Nat
      BY <1>1, <1>2 DEF EditOf
    <3> QED  BY <3>1, <3>2
  <2> QED  BY <1>1, <1>2, <2>1, <2>2 DEF Bounded
<1>9. ASSUME NEW c \in Claims', NEW d \in Claims', c.id = d.id, c.gen <= d.gen
      PROVE  c.content \subseteq d.content
  <2>1. CASE c \in Claims /\ d \in Claims  BY <1>9, <2>1 DEF ClaimInv
  <2>2. CASE c \in Claims /\ d = n
    <3>1. c.gen <= o.gen /\ c.id = o.id  BY <1>1, <1>6, <1>9, <2>2
    <3>2. c.content \subseteq o.content  BY <1>2, <2>2, <3>1 DEF ClaimInv
    <3> QED  BY <1>1, <2>2, <3>2
  <2>3. CASE c = n /\ d \in Claims
    <3>1. d.gen <= session[t].gen /\ d.gen \in Nat  BY <1>1, <1>5, <1>6, <1>9, <2>3
    <3> QED  BY <1>1, <1>2, <1>9, <2>3, <3>1
  <2> QED  BY <1>4, <2>1, <2>2, <2>3
<1>10. \A c \in Claims' : Bounded(c)'  BY <1>4, <1>7, <1>8
<1> QED  BY <1>9, <1>10 DEF ClaimInv

\* A new session has said nothing yet.
LEMMA ClaimsOfBuild ==
  ASSUME BoardAssumption, NoneAssumption, TypeOK, OwnInv, BoundInv, ClaimInv, OwnInv', [Next]_vars,
         NEW t \in Tab, Build(t), NEW u \in Tab \cup {None}, NEW z, BeginsWith(t, u, z)
  PROVE  ClaimInv'
<1>1. /\ opening[t] # None /\ opens' = opens /\ opens \in Nat /\ opening'[t] = None
      /\ RestType /\ SessionType
  BY DEF Build, TypeOK, RestType, SessionType, counters
<1>2. PICK n : n = SessionClaim(t)'  OBVIOUS
<1>3. /\ session'[t] = z /\ z.id = <<t, opens>> /\ z.gen = 0
      /\ \A w \in Tab \ {t} : session'[w] = session[w] /\ (Open(w)' <=> Open(w))
  BY DEF BeginsWith, Begins
<1>4. n.id = <<t, opens>> /\ n.gen = 0  BY <1>2, <1>3, ClaimFields DEF SessionClaim
<1>5. \A c \in Claims' : c \in Claims \/ c = n
  <2>1. \A w \in Tab \ {t} : Open(w)' => SessionClaim(w)' \in Claims
    BY <1>3, SameClaim DEF Same
  <2> QED  BY <1>2, <2>1, ClaimSteps
<1>6. \A c \in Claims : /\ c.id \in SessionId \cup {None} /\ c.gen \in Nat /\ Bounded(c)
  BY ClaimTypes DEF ClaimInv
<1>7. \A c \in Claims : c.id # <<t, opens>>
  <2>1. <<t, opens>> \in SessionId  BY <1>1 DEF BoundInv, SessionId, BoardAssumption
  <2>2. <<t, opens>> # None  BY <2>1 DEF NoneAssumption
  <2>3. ASSUME NEW c \in Claims, c.id = <<t, opens>> PROVE FALSE
    <3>1. c.id[1] = t /\ c.id[2] = opens /\ c.id # None  BY <2>2, <2>3
    <3>2. Bounded(c)  BY <1>6
    <3>3. c.id[2] < opens  BY <1>1, <3>1, <3>2 DEF Bounded
    <3> QED  BY <1>1, <3>1, <3>3
  <2> QED  BY <2>3
<1>8. ASSUME NEW c \in Claims PROVE Bounded(c)'
  <2>1. CASE c.id = None  BY <2>1 DEF Bounded
  <2>2. CASE c.id # None
    <3>1. \A w \in Tab : Open(w) /\ session[w].id = c.id => c.gen <= session[w].gen
      BY <1>6, <2>2 DEF Bounded
    <3>2. \A w \in Tab \ {t} : Open(w)' /\ session'[w].id = c.id => c.gen <= session'[w].gen
      BY <1>3, <3>1
    <3>3. session'[t].id # c.id  BY <1>3, <1>7
    <3> QED  BY <1>1, <1>6, <3>2, <3>3, BoundedKept
  <2> QED  BY <2>1, <2>2
<1>9. Bounded(n)'
  <2>1. \A w \in Tab : Open(w)' => session'[w].id[1] = w  BY DEF OwnInv, Own
  <2>2. \A w \in Tab : Open(w)' /\ session'[w].id = n.id => n.gen <= session'[w].gen
    BY <1>3, <1>4, <2>1
  <2>3. n.id[1] = t /\ n.id[2] = opens  BY <1>4
  <2> QED  BY <1>1, <2>2, <2>3 DEF Bounded
<1>10. ASSUME NEW c \in Claims', NEW d \in Claims', c.id = d.id, c.gen <= d.gen
      PROVE  c.content \subseteq d.content
  <2>1. CASE c \in Claims /\ d \in Claims  BY <1>10, <2>1 DEF ClaimInv
  <2>2. CASE c = n /\ d = n  BY <2>2
  <2>3. c \in Claims /\ d = n => FALSE  BY <1>4, <1>7, <1>10
  <2>4. c = n /\ d \in Claims => FALSE  BY <1>4, <1>7, <1>10
  <2> QED  BY <1>5, <2>1, <2>2, <2>3, <2>4
<1>11. \A c \in Claims' : Bounded(c)'  BY <1>5, <1>8, <1>9
<1> QED  BY <1>10, <1>11 DEF ClaimInv

LEMMA ClaimStep ==
  ASSUME BoardAssumption, NoneAssumption, TypeOK, OwnInv, BoundInv, ClaimInv, [Next]_vars
  PROVE  ClaimInv'
<1>0. SessionType /\ local \in [Tab -> Seq(Operation)] /\ OwnInv'
  BY OwnStep DEF TypeOK, SessionType
<1>1. CASE Quiet
  <2>1. \A t \in Tab : Open(t)' => Open(t) /\ Same(session[t], session'[t])  BY <1>1 DEF Quiet, Kept
  <2> QED  BY <2>1, ClaimsFollow
<1>2. ASSUME NEW t \in Tab, Change(t) PROVE ClaimInv'
  BY <1>0, <1>2, ChangeSteps, ClaimsOfChange
<1>3. ASSUME NEW t \in Tab, SaveOk(t) \/ TrashOk(t) PROVE ClaimInv'
  <2>1. \A u \in Tab : Open(u)' => Open(u) /\ Same(session[u], session'[u])
    BY <1>3, OkSteps DEF OkOf
  <2> QED  BY <2>1, ClaimsFollow
<1>4. ASSUME NEW t \in Tab, Build(t) PROVE ClaimInv'
  <2>1. CASE UNCHANGED session
    <3>1. \A u \in Tab : Open(u)' => Open(u) /\ Same(session[u], session'[u])
      BY <2>1 DEF Open, Same
    <3> QED  BY <3>1, ClaimsFollow
  <2>2. ASSUME NEW u \in Tab \cup {None}, NEW z, BeginsWith(t, u, z) PROVE ClaimInv'
    BY <1>0, <1>4, <2>2, ClaimsOfBuild
  <2> QED  BY <1>4, <2>1, <2>2, BuildSteps
<1> QED  BY <1>0, <1>1, <1>2, <1>3, <1>4, QuietSteps

-----------------------------------------------------------------------------
(* That a content is not older than its revision *)

\* The document is the same, or has another revision.
ServerGrows ==
  /\ server.rev \in Nat /\ server'.rev \in Nat
  /\ UNCHANGED server \/ server'.rev = server.rev + 1

LEMMA GrowSteps ==
  ASSUME TypeOK, [Next]_vars
  PROVE  ServerGrows
<1>1. server.rev \in Nat  BY DEF TypeOK
<1> QED  BY <1>1, ServerSteps DEF ServerGrows, Writes

LEMMA MixedSteps ==
  ASSUME [Next]_vars
  PROVE  mixed \subseteq mixed'
<1> USE DEF history
<1>1. ASSUME NEW t \in Tab, Change(t) \/ DraftTimer(t) \/ LocalEnds(t) \/ LocalFails(t)
                            \/ SaveTimer(t) \/ SaveNow(t) \/ KeepDraft(t) \/ Send(t) \/ UploadFails(t)
      PROVE  mixed \subseteq mixed'
  BY <1>1 DEF Change, DraftTimer, LocalEnds, LocalFails, SaveTimer, SaveNow, KeepDraft, Send,
              UploadFails, MixedByDraft
<1>2. ASSUME NEW t \in Tab, Serve(t) \/ SaveOk(t) \/ Settle(t) \/ EndSave(t) \/ SaveFails(t) \/ Lose(t)
                            \/ Trash(t) \/ TrashFlushed(t) \/ TrashOk(t) \/ TrashFails(t)
      PROVE  mixed \subseteq mixed'
  BY <1>2 DEF Serve, SaveOk, Settle, EndSave, SaveFails, Lose, Trash, TrashFlushed, TrashOk, TrashFails
<1>3. ASSUME NEW t \in Tab, Retire(t) \/ Fetch(t) \/ Copy(t) \/ CopyMade(t) \/ CopyFails(t) \/ Close(t)
      PROVE  mixed \subseteq mixed'
  BY <1>3 DEF Retire, Fetch, Copy, CopyMade, CopyFails, Close
<1>4. ASSUME NEW t \in Tab, Build(t) PROVE mixed \subseteq mixed'  BY <1>4 DEF Build
<1>5. ASSUME NEW r \in stray, ServeStray(r) PROVE mixed \subseteq mixed'  BY <1>5 DEF ServeStray
<1>6. UNCHANGED vars => mixed \subseteq mixed'  BY DEF vars
<1> QED  BY <1>1, <1>2, <1>3, <1>4, <1>5, <1>6 DEF Next, Online, Unmount

\* Fresh after the step.
FreshNext(i, r, c) ==
  r <= server'.rev /\ (r = server'.rev /\ i \notin mixed' => server'.content \subseteq c)

LEMMA FreshKept ==
  ASSUME ServerGrows, mixed \subseteq mixed', NEW i, NEW r \in Nat, NEW c, Fresh(i, r, c)
  PROVE  FreshNext(i, r, c)
BY DEF ServerGrows, Fresh, FreshNext

LEMMA RequestsStayFresh ==
  ASSUME BoardAssumption, NoneAssumption, TypeOK, OwnInv, BoundInv, FreshSessions, FreshRequests, [Next]_vars
  PROVE  FreshRequests'
<1>0. ServerGrows /\ mixed \subseteq mixed'  BY GrowSteps, MixedSteps
<1>1. ASSUME NEW r \in Requests' PROVE FreshNext(r.id[1], r.rev, r.content)
  <2>1. OldOrNew(r)  BY <1>1, RequestSteps
  <2>2. CASE r \in Requests
    <3>1. r.rev \in Nat /\ Fresh(r.id[1], r.rev, r.content)  BY <2>2, RequestTypes DEF FreshRequests
    <3> QED  BY <1>0, <3>1, FreshKept
  <2>3. CASE NewRequest(r)
    <3>1. PICK t \in Tab, k \in Nat : Open(t) /\ session[t].status # "conflict" /\ r = RequestOf(t, k)
      BY <2>3 DEF NewRequest
    <3>2. Fresh(session[t].id, session[t].rev, session[t].content)
      BY <3>1 DEF FreshSessions, FreshSession, BeganInConflict
    <3>3. r.id[1] = session[t].id /\ r.rev = session[t].rev /\ r.content = session[t].content
      BY <3>1 DEF RequestOf
    <3>4. session[t].rev \in Nat  BY <3>1, OpenSession, Fields DEF TypeOK, SessionType
    <3>5. Fresh(r.id[1], r.rev, r.content) /\ r.rev \in Nat  BY <3>2, <3>3, <3>4
    <3> QED  BY <1>0, <3>5, FreshKept
  <2> QED  BY <2>1, <2>2, <2>3 DEF OldOrNew
<1> QED  BY <1>1 DEF FreshRequests, Fresh, FreshNext

\* The session of u after the step.
FreshSessionNext(u) ==
  /\ session'[u].rev <= server'.rev
  /\ \/ FreshNext(session'[u].id, session'[u].rev, session'[u].content)
     \/ session'[u].status = "conflict" /\ session'[u].pending = None

\* A session with the same document stays fresh.
LEMMA SessionStaysFresh ==
  ASSUME ServerGrows, mixed \subseteq mixed', NEW u \in Tab, session[u].rev \in Nat, FreshSession(u),
         Same(session[u], session'[u]), session'[u].rev = session[u].rev,
         BeganInConflict(u) => session'[u].status = "conflict" /\ session'[u].pending = None
  PROVE  FreshSessionNext(u)
<1>1. session'[u].rev <= server'.rev  BY DEF FreshSession, ServerGrows
<1>2. CASE Fresh(session[u].id, session[u].rev, session[u].content)
  <2>1. FreshNext(session[u].id, session[u].rev, session[u].content)  BY <1>2, FreshKept
  <2>2. FreshNext(session'[u].id, session'[u].rev, session'[u].content)  BY <2>1 DEF Same
  <2> QED  BY <1>1, <2>2 DEF FreshSessionNext
<1>3. CASE BeganInConflict(u)
  BY <1>1, <1>3 DEF FreshSessionNext
<1> QED  BY <1>2, <1>3 DEF FreshSession

LEMMA SessionsStayFresh ==
  ASSUME BoardAssumption, NoneAssumption, TypeOK, OwnInv, BoundInv, ClaimInv, FreshSessions,
         FreshDrafts, FreshAnswers, FreshReads, [Next]_vars
  PROVE  FreshSessions'
<1>0. /\ SessionType /\ local \in [Tab -> Seq(Operation)] /\ ServerGrows /\ mixed \subseteq mixed'
      /\ drafts \in [Tab -> Draft \cup {None}] /\ net \in NetType
      /\ opening \in [Tab -> [rev : Nat, content : SUBSET Edit] \cup {None}]
  BY GrowSteps, MixedSteps DEF TypeOK, SessionType, NetType
<1>1. \A u \in Tab : Open(u) => session[u].rev \in Nat /\ FreshSession(u)
  BY <1>0, OpenSession, Fields DEF FreshSessions
<1>2. ASSUME NEW u \in Tab, Open(u), session'[u] = session[u] PROVE FreshSessionNext(u)
  BY <1>0, <1>1, <1>2, SessionStaysFresh DEF Same, BeganInConflict
<1>3. CASE Quiet
  <2>1. ASSUME NEW u \in Tab, Open(u)' PROVE FreshSessionNext(u)
    <3>1. Kept(u) /\ Open(u)  BY <1>3, <2>1 DEF Quiet, Kept
    <3>2. Same(session[u], session'[u]) /\ session'[u].rev = session[u].rev  BY <2>1, <3>1 DEF Kept
    <3>3. BeganInConflict(u) => session'[u].status = "conflict" /\ session'[u].pending = None
      BY <2>1, <3>1 DEF Kept, BeganInConflict
    <3> QED  BY <1>0, <1>1, <3>1, <3>2, <3>3, SessionStaysFresh
  <2> QED  BY <2>1 DEF FreshSessions, FreshSession, FreshSessionNext, Fresh, FreshNext, BeganInConflict
<1>4. ASSUME NEW t \in Tab, Change(t), NEW u \in Tab, Open(u)' PROVE FreshSessionNext(u)
  <2>1. EditOf(t)  BY <1>4, ChangeSteps
  <2>2. CASE u # t  BY <1>2, <1>4, <2>1, <2>2 DEF EditOf
  <2>3. CASE u = t
    <3>1. Open(t) /\ session[t].rev \in Nat /\ FreshSession(t)  BY <1>1, <2>1 DEF EditOf
    <3>2. /\ session'[t].id = session[t].id /\ session'[t].rev = session[t].rev
          /\ session[t].content \subseteq session'[t].content
      BY <2>1 DEF EditOf
    <3>3. session'[t].rev <= server'.rev
      BY <1>0, <3>1, <3>2 DEF FreshSession, ServerGrows
    <3>4. CASE BeganInConflict(t)
      <4>1. session'[t].status = "conflict" /\ session'[t].pending = None
        BY <2>1, <3>4 DEF EditOf, BeganInConflict
      <4> QED  BY <2>3, <3>3, <4>1 DEF FreshSessionNext
    <3>5. CASE ~BeganInConflict(t)
      <4>1. Fresh(session[t].id, session[t].rev, session[t].content)  BY <3>1, <3>5 DEF FreshSession
      <4>2. FreshNext(session[t].id, session[t].rev, session[t].content)  BY <1>0, <3>1, <4>1, FreshKept
      <4>3. FreshNext(session'[t].id, session'[t].rev, session'[t].content)
        BY <3>2, <4>2 DEF FreshNext
      <4> QED  BY <2>3, <3>3, <4>3 DEF FreshSessionNext
    <3> QED  BY <3>4, <3>5
  <2> QED  BY <2>2, <2>3
<1>5. ASSUME NEW t \in Tab, SaveOk(t) \/ TrashOk(t), NEW u \in Tab, Open(u)' PROVE FreshSessionNext(u)
  <2>1. OkOf(t) /\ server' = server  BY <1>5, OkSteps DEF SaveOk, TrashOk
  <2>2. CASE u # t  BY <1>2, <1>5, <2>1, <2>2 DEF OkOf
  <2>3. CASE u = t
    <3>1. /\ Open(t) /\ net[t] # None /\ net[t].answer = "ok"
          /\ Same(session[t], session'[t]) /\ session'[t].rev = net[t].rev
      BY <2>1 DEF OkOf
    <3>2. net[t].rev <= server.rev /\ (net[t].rev = server.rev => server.content = net[t].req.content)
      BY <3>1 DEF FreshAnswers
    <3>3. net[t].req.content \subseteq session[t].content
      <4>1. PICK r : r = net[t].req  OBVIOUS
      <4>2. r \in Requests /\ r.id[1] = session[t].id
        BY <3>1, <4>1, NetRequests DEF OwnInv, Own
      <4>3. RequestClaim(r) \in Claims /\ SessionClaim(t) \in Claims  BY <3>1, <4>2, InClaims
      <4>4. /\ RequestClaim(r).id = session[t].id /\ RequestClaim(r).content = r.content
            /\ SessionClaim(t).id = session[t].id /\ SessionClaim(t).content = session[t].content
            /\ SessionClaim(t).gen = session[t].gen
        BY <4>2, ClaimFields DEF RequestClaim, SessionClaim
      <4>5. session[t].id # None
        BY <1>0, <3>1, OpenSession, Fields DEF NoneAssumption
      <4>6. RequestClaim(r).gen <= session[t].gen
        BY <3>1, <4>3, <4>4, <4>5 DEF ClaimInv, Bounded
      <4>7. RequestClaim(r).content \subseteq SessionClaim(t).content
        BY <4>3, <4>4, <4>6 DEF ClaimInv
      <4> QED  BY <4>1, <4>4, <4>7
    <3>4. session'[t].rev <= server'.rev
          /\ (session'[t].rev = server'.rev => server'.content \subseteq session'[t].content)
      BY <2>1, <3>1, <3>2, <3>3 DEF Same
    <3> QED  BY <2>3, <3>4 DEF FreshSessionNext, FreshNext
  <2> QED  BY <2>2, <2>3
<1>6. ASSUME NEW t \in Tab, Build(t), NEW u \in Tab, Open(u)' PROVE FreshSessionNext(u)
  <2>1. server' = server /\ opening[t] # None  BY <1>6 DEF Build
  <2>2. CASE UNCHANGED session  BY <1>2, <1>6, <2>2 DEF Open
  <2>3. ASSUME NEW w \in Tab \cup {None}, NEW z, BeginsWith(t, w, z) PROVE FreshSessionNext(u)
    <3>1. CASE u # t  BY <1>2, <1>6, <2>3, <3>1 DEF BeginsWith
    <3>2. CASE u = t
      <4>1. session'[u] = z /\ z.id = <<t, opens>> /\ z.rev = opening[t].rev
        BY <2>3, <3>2 DEF BeginsWith, Begins
      <4>2. opening[t].rev <= server.rev
            /\ (opening[t].rev = server.rev => server.content \subseteq opening[t].content)
        BY <2>1 DEF FreshReads
      <4>3. z.rev <= server'.rev  BY <2>1, <4>1, <4>2
      <4>4. CASE w = None
        <5>1. z.content = opening[t].content  BY <2>3, <4>4 DEF BeginsWith, Begins
        <5> QED  BY <2>1, <4>1, <4>2, <4>3, <5>1 DEF FreshSessionNext, FreshNext
      <4>5. CASE w # None /\ drafts[w].rev = opening[t].rev
        <5>1. w \in Tab /\ drafts[w] # None /\ z.content = drafts[w].content
              /\ (drafts[w].token[1] \in mixed => <<t, opens>> \in mixed')
          BY <2>3, <4>5 DEF BeginsWith, Begins
        <5>2. Fresh(drafts[w].token[1], drafts[w].rev, drafts[w].content)
          BY <5>1 DEF FreshDrafts, FreshDraft
        <5>3. FreshNext(z.id, z.rev, z.content)
          BY <2>1, <4>1, <4>3, <4>5, <5>1, <5>2 DEF Fresh, FreshNext
        <5> QED  BY <4>1, <4>3, <5>3 DEF FreshSessionNext
      <4>6. CASE w # None /\ drafts[w].rev # opening[t].rev
        <5>1. z.status = "conflict" /\ z.pending = None
          BY <2>3, <4>6 DEF BeginsWith, Begins
        <5> QED  BY <4>1, <4>3, <5>1 DEF FreshSessionNext
      <4> QED  BY <4>4, <4>5, <4>6
    <3> QED  BY <3>1, <3>2
  <2> QED  BY <1>6, <2>2, <2>3, BuildSteps
<1>7. (\A u \in Tab : Open(u)' => FreshSessionNext(u)) => FreshSessions'
  BY DEF FreshSessions, FreshSession, FreshSessionNext, Fresh, FreshNext, BeganInConflict
<1> QED  BY <1>0, <1>3, <1>4, <1>5, <1>6, <1>7, QuietSteps

LEMMA DraftsStayFresh ==
  ASSUME TypeOK, FreshDrafts, FreshPuts, [Next]_vars
  PROVE  FreshDrafts'
<1>0. /\ ServerGrows /\ mixed \subseteq mixed' /\ RestType
      /\ drafts \in [Tab -> Draft \cup {None}] /\ local \in [Tab -> Seq(Operation)]
  BY GrowSteps, MixedSteps DEF TypeOK, RestType
<1>1. ASSUME NEW d \in Draft, FreshDraft(d) PROVE FreshNext(d.token[1], d.rev, d.content)
  <2>1. d.rev \in Nat  BY DEF Draft
  <2> QED  BY <1>0, <1>1, <2>1, FreshKept DEF FreshDraft
<1>2. ASSUME NEW u \in Tab, drafts'[u] # None, drafts' = drafts
      PROVE  FreshNext(drafts'[u].token[1], drafts'[u].rev, drafts'[u].content)
  <2>1. drafts[u] \in Draft /\ FreshDraft(drafts[u])  BY <1>0, <1>2 DEF FreshDrafts
  <2> QED  BY <1>1, <1>2, <2>1
<1>3. ASSUME NEW t \in Tab, LocalEnds(t), NEW u \in Tab, drafts'[u] # None
      PROVE  FreshNext(drafts'[u].token[1], drafts'[u].rev, drafts'[u].content)
  <2> DEFINE q == local[t]
  <2>1. q \in Seq(Operation) /\ q # <<>> /\ drafts' = Stored(Head(q))  BY <1>0, <1>3 DEF LocalEnds
  <2>2. /\ Head(q) \in Operation /\ 1 \in DOMAIN q /\ Head(q) = q[1]
        /\ Head(q).op = "put" => Head(q).draft \in Draft
    BY <2>1, Operations
  <2>3. drafts'[u] = drafts[u] \/ (Head(q).op = "put" /\ drafts'[u] = Head(q).draft)
    BY <1>0, <1>3, <2>1, <2>2, StoredCases
  <2>4. CASE drafts'[u] = drafts[u]
    <3>1. drafts[u] \in Draft /\ FreshDraft(drafts[u])  BY <1>0, <1>3, <2>4 DEF FreshDrafts
    <3> QED  BY <1>1, <2>4, <3>1
  <2>5. CASE Head(q).op = "put" /\ drafts'[u] = Head(q).draft
    <3>1. Head(q).draft \in Draft /\ FreshDraft(Head(q).draft)  BY <2>2, <2>5 DEF FreshPuts
    <3> QED  BY <1>1, <2>5, <3>1
  <2> QED  BY <2>3, <2>4, <2>5
<1>4. drafts' = drafts \/ \E t \in Tab : LocalEnds(t)  BY DraftSteps
<1>5. \A u \in Tab : drafts'[u] # None =>
        FreshNext(drafts'[u].token[1], drafts'[u].rev, drafts'[u].content)
  BY <1>2, <1>3, <1>4
<1> QED  BY <1>5 DEF FreshDrafts, FreshDraft, Fresh, FreshNext

LEMMA PutsStayFresh ==
  ASSUME BoardAssumption, NoneAssumption, TypeOK, OwnInv, FreshSessions, FreshPuts, [Next]_vars
  PROVE  FreshPuts'
<1>0. /\ SessionType /\ ServerGrows /\ mixed \subseteq mixed' /\ local \in [Tab -> Seq(Operation)]
  BY GrowSteps, MixedSteps DEF TypeOK, SessionType
<1>1. ASSUME NEW u \in Tab, NEW i \in DOMAIN local'[u], local'[u][i].op = "put",
             NEW d, d = local'[u][i].draft
      PROVE  FreshNext(d.token[1], d.rev, d.content)
  <2>1. (\E j \in DOMAIN local[u] : local[u][j] = local'[u][i]) \/ NewPut(d)
    BY <1>1, PutSteps DEF Extends
  <2>2. CASE NewPut(d)
    <3>1. PICK t \in Tab : Open(t) /\ d = DraftOf(t) /\ (BeganInConflict(t) => session[t].id \in mixed')
      BY <2>2 DEF NewPut
    <3>2. FreshSession(t)  BY <3>1 DEF FreshSessions
    <3>3. d.token[1] = session[t].id /\ d.rev = session[t].rev /\ d.content = session[t].content
      BY <3>1 DEF DraftOf, TokenOf
    <3>4. session[t].rev \in Nat  BY <1>0, <3>1, OpenSession, Fields
    <3>5. CASE BeganInConflict(t)
      BY <1>0, <3>1, <3>2, <3>3, <3>4, <3>5 DEF FreshSession, FreshNext, ServerGrows
    <3>6. CASE ~BeganInConflict(t)
      <4>1. Fresh(d.token[1], d.rev, d.content) /\ d.rev \in Nat
        BY <3>2, <3>3, <3>4, <3>6 DEF FreshSession
      <4> QED  BY <1>0, <4>1, FreshKept
    <3> QED  BY <3>5, <3>6
  <2>3. CASE \E j \in DOMAIN local[u] : local[u][j] = local'[u][i]
    <3>1. PICK j \in DOMAIN local[u] : local[u][j] = local'[u][i]  BY <2>3
    <3>2. local[u][j] \in Operation /\ local[u][j].op = "put" /\ local[u][j].draft = d
      <4>1. local[u] \in Seq(Operation)  BY <1>0
      <4>2. local[u][j] \in Operation  BY <4>1, LenProperties
      <4> QED  BY <1>1, <3>1, <4>2
    <3>3. FreshDraft(d)  BY <3>2 DEF FreshPuts
    <3>4. d.rev \in Nat  BY <3>2 DEF Operation, Draft
    <3> QED  BY <1>0, <3>3, <3>4, FreshKept DEF FreshDraft
  <2> QED  BY <2>1, <2>2, <2>3
<1>2. \A u \in Tab : \A i \in DOMAIN local'[u] : local'[u][i].op = "put" =>
        FreshNext(local'[u][i].draft.token[1], local'[u][i].draft.rev, local'[u][i].draft.content)
  BY <1>1
<1> QED  BY <1>2 DEF FreshPuts, FreshDraft, Fresh, FreshNext

\* An answer comes from the server only.
LEMMA AnswerSteps ==
  ASSUME TypeOK, [Next]_vars, NEW u \in Tab, net'[u] # None, net'[u].answer = "ok"
  PROVE  net'[u] = net[u] \/ Serve(u)
<1>b. net \in NetType  BY DEF TypeOK, NetType
<1>1. ASSUME NEW t \in Tab, Change(t) \/ DraftTimer(t) \/ LocalEnds(t) \/ LocalFails(t)
                            \/ SaveTimer(t) \/ SaveNow(t) \/ KeepDraft(t) \/ UploadFails(t)
      PROVE  net' = net
  BY <1>1 DEF Change, DraftTimer, LocalEnds, LocalFails, SaveTimer, SaveNow, KeepDraft, UploadFails
<1>2. ASSUME NEW t \in Tab, Settle(t) \/ EndSave(t) \/ Trash(t) \/ Retire(t) \/ Fetch(t)
                            \/ Build(t) \/ Copy(t) \/ CopyMade(t) \/ CopyFails(t)
      PROVE  net' = net
  BY <1>2 DEF Settle, EndSave, Trash, Retire, Fetch, Build, Copy, CopyMade, CopyFails
<1>3. ASSUME NEW t \in Tab, SaveOk(t) \/ SaveFails(t) \/ Lose(t) \/ TrashOk(t) \/ TrashFails(t) \/ Close(t)
      PROVE  net'[u] = net[u]
  BY <1>3, <1>b DEF SaveOk, SaveFails, Lose, TrashOk, TrashFails, Close, NetType
<1>4. ASSUME NEW t \in Tab, NEW r, net' = Sent(t, r) PROVE net'[u] = net[u]
  BY <1>4, <1>b DEF Sent, NetType
<1>5. ASSUME NEW t \in Tab, Send(t) PROVE net'[u] = net[u]
  <2>1. net' = Sent(t, ToSend(t))  BY <1>5 DEF Send, ToSend
  <2> QED  BY <1>4, <2>1
<1>6. ASSUME NEW t \in Tab, TrashFlushed(t) PROVE net'[u] = net[u]
  <2>1. net' = net \/ net' = Sent(t, RequestOf(t, trashes))  BY <1>6 DEF TrashFlushed
  <2> QED  BY <1>4, <2>1
<1>7. ASSUME NEW t \in Tab, Serve(t) PROVE net'[u] = net[u] \/ Serve(u)
  BY <1>7, <1>b DEF Serve, NetType
<1>8. ASSUME NEW r \in stray, ServeStray(r) PROVE net' = net  BY <1>8 DEF ServeStray
<1>9. UNCHANGED vars => net' = net  BY DEF vars
<1> QED  BY <1>1, <1>2, <1>3, <1>5, <1>6, <1>7, <1>8, <1>9 DEF Next, Online, Unmount

\* A request that the server has taken is its document.
LEMMA Taken ==
  ASSUME TypeOK, ClaimInv, NEW r \in Requests, Verdict(r) = "ok"
  PROVE  Written(r).content = r.content
<1>1. server \in ServerType /\ r \in Request  BY RequestTypes DEF TypeOK, ServerType
<1>2. CASE server.last # r.id
  <2>1. Written(r) = [server EXCEPT !.rev = @ + 1, !.content = r.content, !.last = r.id]
    BY <1>2 DEF Written
  <2> QED  BY <1>1, <2>1 DEF ServerType
<1>3. CASE server.last = r.id
  <2>1. Written(r) = server  BY <1>3 DEF Written
  <2>2. RequestClaim(r) \in Claims /\ ServerClaim \in Claims  BY InClaims
  <2>3. /\ RequestClaim(r).id = ServerClaim.id /\ RequestClaim(r).gen = ServerClaim.gen
        /\ RequestClaim(r).content = r.content /\ ServerClaim.content = server.content
        /\ RequestClaim(r).gen = r.id[2]
    BY <1>3, ClaimFields DEF RequestClaim, ServerClaim
  <2>4. r.id[2] \in Nat  BY RequestTypes
  <2>5. RequestClaim(r).gen <= ServerClaim.gen /\ ServerClaim.gen <= RequestClaim(r).gen
    BY <2>3, <2>4
  <2>6. r.content \subseteq server.content /\ server.content \subseteq r.content
    BY <2>2, <2>3, <2>5 DEF ClaimInv
  <2> QED  BY <2>1, <2>6
<1> QED  BY <1>2, <1>3

LEMMA AnswersStayFresh ==
  ASSUME TypeOK, ClaimInv, FreshAnswers, [Next]_vars
  PROVE  FreshAnswers'
<1>0. ServerGrows /\ net \in NetType  BY GrowSteps DEF TypeOK, NetType
<1>1. ASSUME NEW u \in Tab, net'[u] # None, net'[u].answer = "ok", net'[u] = net[u]
      PROVE  net'[u].rev <= server'.rev
             /\ (net'[u].rev = server'.rev => server'.content = net'[u].req.content)
  <2>1. net[u].rev \in Nat /\ net[u].rev <= server.rev
        /\ (net[u].rev = server.rev => server.content = net[u].req.content)
    BY <1>0, <1>1 DEF FreshAnswers, NetType
  <2> QED  BY <1>0, <1>1, <2>1 DEF ServerGrows
<1>2. ASSUME NEW u \in Tab, net'[u] # None, net'[u].answer = "ok", Serve(u)
      PROVE  net'[u].rev <= server'.rev
             /\ (net'[u].rev = server'.rev => server'.content = net'[u].req.content)
  <2>1. /\ net[u] # None
        /\ net[u] \in [req : Request, answer : {"none", "ok", "conflict", "refused"}, rev : Nat]
    BY <1>0, <1>2 DEF Serve, NetType
  <2> DEFINE a == Verdict(net[u].req)
             n == server'.rev
  <2>2. net' = [net EXCEPT ![u] = [net[u] EXCEPT !.answer = a, !.rev = n]]
    BY <1>0, <1>2 DEF Serve, NetType
  <2> HIDE DEF a, n
  <2> DEFINE x == [net[u] EXCEPT !.answer = a, !.rev = n]
  <2>3. x.req = net[u].req /\ x.answer = a /\ x.rev = n  BY <2>1
  <2>4. net'[u] = x  BY <1>0, <2>2 DEF NetType
  <2> HIDE DEF x
  <2>5. PICK r : r = net[u].req  OBVIOUS
  <2>6. r \in Requests /\ Verdict(r) = "ok"
    BY <1>2, <2>1, <2>3, <2>4, <2>5, NetRequests DEF a
  <2>7. server'.content = r.content  BY <1>2, <2>5, <2>6, Taken DEF Serve
  <2>8. server'.rev \in Nat  BY <1>0 DEF ServerGrows
  <2> QED  BY <2>3, <2>4, <2>5, <2>7, <2>8 DEF n
<1>3. \A u \in Tab : net'[u] # None /\ net'[u].answer = "ok" =>
        net'[u].rev <= server'.rev
        /\ (net'[u].rev = server'.rev => server'.content = net'[u].req.content)
  BY <1>1, <1>2, AnswerSteps
<1> QED  BY <1>3 DEF FreshAnswers

LEMMA ReadsStayFresh ==
  ASSUME TypeOK, FreshReads, [Next]_vars
  PROVE  FreshReads'
<1>0. /\ ServerGrows /\ RestType
      /\ opening \in [Tab -> [rev : Nat, content : SUBSET Edit] \cup {None}]
  BY GrowSteps DEF TypeOK, RestType
<1>1. ASSUME NEW u \in Tab, opening'[u] # None, opening'[u] = opening[u]
      PROVE  /\ opening'[u].rev <= server'.rev
             /\ opening'[u].rev = server'.rev => server'.content \subseteq opening'[u].content
  <2>1. /\ opening[u].rev \in Nat /\ opening[u].rev <= server.rev
        /\ opening[u].rev = server.rev => server.content \subseteq opening[u].content
    BY <1>0, <1>1 DEF FreshReads
  <2> QED  BY <1>0, <1>1, <2>1 DEF ServerGrows
<1>2. ASSUME NEW t \in Tab, Fetch(t), NEW u \in Tab, opening'[u] # opening[u]
      PROVE  /\ opening'[u].rev <= server'.rev
             /\ opening'[u].rev = server'.rev => server'.content \subseteq opening'[u].content
  <2>1. opening'[u] = [rev |-> server.rev, content |-> server.content] /\ server' = server
    BY <1>0, <1>2 DEF Fetch
  <2> QED  BY <1>0, <2>1 DEF ServerGrows
<1>3. \A u \in Tab : opening'[u] # None =>
        /\ opening'[u].rev <= server'.rev
        /\ opening'[u].rev = server'.rev => server'.content \subseteq opening'[u].content
  BY <1>0, <1>1, <1>2, CounterSteps
<1> QED  BY <1>3 DEF FreshReads

-----------------------------------------------------------------------------
(* The theorems *)

LEMMA InitInv ==
  ASSUME BoardAssumption, NoneAssumption, Init
  PROVE  IInv
<1>1. TypeOK
  <2>1. MaxEdits \in Nat /\ 0 \in 0..MaxEdits  BY DEF BoardAssumption
  <2>2. server.rev = 1 /\ server \in [rev : {1}, content : {{}}, last : {<<None, 0, 0>>}, unfit : Unfit]
    BY DEF Init
  <2>3. <<None, 0, 0>> \in Mutation  BY <2>1 DEF Mutation
  <2>4. server \in [rev : Nat, content : SUBSET Edit, last : Mutation, unfit : Unfit]
    BY <2>2, <2>3
  <2>5. <<>> \in Seq(Operation)  OBVIOUS
  <2> QED  BY <2>4, <2>5 DEF Init, TypeOK
<1>2. \A t \in Tab : ~Open(t) /\ net[t] = None /\ drafts[t] = None /\ opening[t] = None
                     /\ local[t] = <<>> /\ saving[t] = "no"
  BY DEF Init, Open
<1>3. BoundInv  BY <1>2 DEF Init, BoundInv, BoardAssumption
<1>4. OwnInv  BY <1>2 DEF OwnInv, Own
<1>5. Requests = {}  BY <1>2 DEF Requests, Init
<1>6. ClaimInv
  <2>0. Drafts = {}
    <3>1. ASSUME NEW t \in Tab PROVE DOMAIN local[t] = {}  BY <1>2
    <3>2. \A t \in Tab : PutsOf(t) = {}  BY <3>1 DEF PutsOf
    <3> QED  BY <1>2, <3>2 DEF Drafts
  <2>1. Claims = {ServerClaim}  BY <1>2, <1>5, <2>0 DEF Claims
  <2>2. server.last = <<None, 0, 0>>  BY DEF Init
  <2>3. ServerClaim.id = None  BY <2>2, ClaimFields DEF ServerClaim
  <2> QED  BY <2>1, <2>3 DEF ClaimInv, Bounded
<1>7. FreshInv
  BY <1>2, <1>5 DEF FreshInv, FreshSessions, FreshRequests, FreshDrafts, FreshPuts, FreshAnswers, FreshReads
<1> QED  BY <1>1, <1>3, <1>4, <1>6, <1>7 DEF IInv, SaveInv

LEMMA StepInv ==
  ASSUME BoardAssumption, NoneAssumption, IInv, [Next]_vars
  PROVE  IInv'
<1>0. TypeOK /\ BoundInv /\ OwnInv /\ ClaimInv /\ FreshInv  BY DEF IInv, SaveInv
<1>1. TypeOK'  BY <1>0, TypeStep
<1>2. BoundInv'  BY <1>0, BoundStep
<1>3. OwnInv'  BY <1>0, OwnStep
<1>4. ClaimInv'  BY <1>0, ClaimStep
<1>5. FreshInv'
  BY <1>0, SessionsStayFresh, RequestsStayFresh, DraftsStayFresh, PutsStayFresh, AnswersStayFresh,
     ReadsStayFresh DEF FreshInv
<1> QED  BY <1>1, <1>2, <1>3, <1>4, <1>5 DEF IInv, SaveInv

\* A write takes nothing away, unless its session is one of the exception.
LEMMA StepOverwritesNothing ==
  ASSUME TypeOK, FreshRequests, [Next]_vars
  PROVE  [server.content \subseteq server'.content \/ server'.last[1] \in mixed]_server
<1>1. CASE UNCHANGED server  BY <1>1
<1>2. ASSUME NEW r \in Requests, Writes(r)
      PROVE  server.content \subseteq server'.content \/ server'.last[1] \in mixed
  <2>1. Fresh(r.id[1], r.rev, r.content)  BY DEF FreshRequests
  <2> QED  BY <1>2, <2>1 DEF Fresh, Writes
<1> QED  BY <1>1, <1>2, ServerSteps

\* The types are kept, whatever the tabs do in whatever order.
THEOREM TypeCorrect == Spec => []TypeOK
<1>1. Init => IInv  BY InitInv, BoardAssumption, NoneAssumption
<1>2. IInv /\ [Next]_vars => IInv'  BY StepInv, BoardAssumption, NoneAssumption
<1>3. IInv => TypeOK  BY DEF IInv
<1> QED  BY <1>1, <1>2, <1>3, PTL DEF Spec

\* However many tabs there are, and whatever is lost, repeated, reopened or recovered, no
\* write takes away an edit that its session has not seen; the sessions of the exception
\* are those that wrote a draft of a conflict they began in, and those that recovered such
\* a draft (session.ts:62, 137, 189).
THEOREM SavesOverwriteNothing == Spec => NothingOverwritten
<1>1. Init => IInv  BY InitInv, BoardAssumption, NoneAssumption
<1>2. IInv /\ [Next]_vars => IInv'  BY StepInv, BoardAssumption, NoneAssumption
<1>3. IInv /\ [Next]_vars =>
        [server.content \subseteq server'.content \/ server'.last[1] \in mixed]_server
  BY StepOverwritesNothing DEF IInv, SaveInv, FreshInv
<1> QED  BY <1>1, <1>2, <1>3, PTL DEF Spec, NothingOverwritten

-----------------------------------------------------------------------------
(* The invariants *)

\* What needs not be kept any more.
Known == held \cup forgiven \cup outrun

\* A session that is not saved is on its way to the server.
Scheduled(t) ==
  Open(t) =>
    /\ session[t].status \in {"dirty", "saving"} => session[t].timer \/ saving[t] # "no"
    /\ session[t].status = "saving" => saving[t] \in {"draft", "sent", "settle"}
    /\ saving[t] = "draft" => session[t].status # "saved"
    /\ saving[t] \in {"trash", "retire"} => session[t].status = "saved" /\ session[t].life = "trashing"
ScheduleInv == \A t \in Tab : Scheduled(t)

\* What the server has answered or shown has been at the server, and so has what is saved.
ReadsHeld == \A t \in Tab : opening[t] # None => opening[t].content \subseteq held
AnswersHeld == \A t \in Tab : net[t] # None /\ net[t].answer = "ok" => net[t].req.content \subseteq held
SaveHeld(t) ==
  /\ saving[t] = "sent" => net[t].req = session[t].pending
  /\ saving[t] = "settle" => session[t].pending # None /\ session[t].pending.content \subseteq held
  /\ Open(t) /\ session[t].status = "saved" => session[t].content \subseteq Known
  /\ Open(t) /\ session[t].localGen # None => session[t].localGen <= session[t].gen
HeldInv ==
  /\ server.content \subseteq held
  /\ \A r \in Requests : r.gen = r.id[2]
  /\ ReadsHeld /\ AnswersHeld /\ \A t \in Tab : SaveHeld(t)

\* A draft that is to be cleared says nothing that is not known; a draft that was
\* recovered says nothing that is not known or in the session that recovered it.
BoundedToken(k) == Bounded(ClaimOf(k[1], k[2], {}))
ClearsInv ==
  \A t \in Tab : \A i \in DOMAIN local[t] : local[t][i].op = "clear" =>
    /\ BoundedToken(local[t][i].token)
    /\ \A c \in Claims :
         c.id = local[t][i].token[1] /\ c.gen = local[t][i].token[2] => c.content \subseteq Known
Recovers(t) ==
  Open(t) /\ session[t].recovered # None =>
    /\ BoundedToken(session[t].recovered[2])
    /\ \A c, d \in Claims :
         /\ c.id = session[t].recovered[2][1] /\ c.gen = session[t].recovered[2][2]
         /\ d.id = session[t].id
         => c.content \subseteq d.content \cup Known
TokenInv == ClearsInv /\ \A t \in Tab : Recovers(t)

\* What is in the store after an operation of a tab on its own draft.
Leaves(op) ==
  CASE op.op = "put" -> op.draft.content
    [] op.op = "wipe" -> {}
    [] OTHER -> Edit

\* The operations q of t replace a draft, the draft d before them and each other's, by
\* more, or the rest is in l or known.
Chain(t, q, d, l, knows) ==
  /\ \A i \in DOMAIN q : q[i].op \in {"put", "wipe"} => q[i].key = t
  /\ \A i \in DOMAIN q : d # None => d.content \subseteq Leaves(q[i]) \cup knows
  /\ \A i, j \in DOMAIN q :
       i < j /\ q[i].op = "put" => q[i].draft.content \subseteq Leaves(q[j]) \cup knows
  /\ \A i \in DOMAIN q : q[i].op = "put" => q[i].draft.content \subseteq l \cup knows

\* A session contains its draft and what it has begun to store.
Level(t) == IF Open(t) THEN session[t].content ELSE {}
Surpassed(t) == Open(t) /\ drafts[t] # None => drafts[t].content \subseteq Level(t) \cup Known
Stores(t) == Chain(t, local[t], drafts[t], Level(t), Known) /\ Surpassed(t)
StoreInv == \A t \in Tab : Stores(t)

-----------------------------------------------------------------------------
(* The sessions of a step *)

\* z is the session s, the same in its document, with these fields.
Is(s, z, rev, localGen, status, life, pending, recovered) ==
  /\ z \in Session /\ Same(s, z) /\ z.rev = rev /\ z.localGen = localGen
  /\ z.status = status /\ z.life = life /\ z.pending = pending /\ z.recovered = recovered

\* The session of t goes on with these fields.
Goes(t, rev, localGen, status, life, pending, recovered) ==
  /\ Open(t) /\ Open(t)'
  /\ Is(session[t], session'[t], rev, localGen, status, life, pending, recovered)
  /\ \A u \in Tab \ {t} : session'[u] = session[u] /\ (Open(u)' <=> Open(u))

LEMMA IsGoes ==
  ASSUME NoneAssumption, SessionType, NEW t \in Tab, Open(t), NEW z, Becomes(t, z),
         NEW r, NEW g, NEW v, NEW l, NEW p, NEW o, Is(session[t], z, r, g, v, l, p, o)
  PROVE  Goes(t, r, g, v, l, p, o) /\ session'[t] = z
<1>1. z \in Session  BY DEF Is
<1>2. session'[t] = z /\ Open(t)' /\ \A u \in Tab \ {t} : session'[u] = session[u] /\ (Open(u)' <=> Open(u))
  BY <1>1, Became
<1> QED  BY <1>2 DEF Goes

LEMMA DraftTimerGoes ==
  ASSUME NoneAssumption, SessionType, NEW t \in Tab, DraftTimer(t)
  PROVE  /\ session'[t].timer = session[t].timer
         /\ Goes(t, session[t].rev, session[t].localGen, session[t].status,
              session[t].life, session[t].pending, session[t].recovered)
<1> DEFINE s == session[t]
           z == [s EXCEPT !.draftTimer = FALSE]
<1>1. Open(t) /\ s \in Session  BY OpenSession DEF DraftTimer
<1>2. Becomes(t, z)  BY DEF DraftTimer, Becomes, SessionType
<1>3. z.timer = s.timer /\ Is(s, z, s.rev, s.localGen, s.status, s.life, s.pending, s.recovered)
  BY <1>1 DEF Is, Same, Session
<1> HIDE DEF z
<1> QED  BY <1>1, <1>2, <1>3, IsGoes

LEMMA KeepDraftGoes ==
  ASSUME NoneAssumption, SessionType, NEW t \in Tab, KeepDraft(t)
  PROVE  Goes(t, session[t].rev, session[t].localGen, session[t].status,
              session[t].life, session[t].pending, session[t].recovered)
<1> DEFINE s == session[t]
           z == [s EXCEPT !.timer = FALSE]
<1>1. Open(t) /\ s \in Session  BY OpenSession DEF KeepDraft
<1>2. Becomes(t, z)  BY DEF KeepDraft, Becomes, SessionType
<1>3. Is(s, z, s.rev, s.localGen, s.status, s.life, s.pending, s.recovered)
  BY <1>1 DEF Is, Same, Session
<1> HIDE DEF z
<1> QED  BY <1>1, <1>2, <1>3, IsGoes

LEMMA CopyGoes ==
  ASSUME NoneAssumption, SessionType, NEW t \in Tab, Copy(t) \/ CopyFails(t)
  PROVE  /\ session'[t].timer = session[t].timer
         /\ Goes(t, session[t].rev, session[t].localGen, session[t].status,
              session[t].life, session[t].pending, session[t].recovered)
<1>1. Open(t) /\ session[t] \in Session /\ session[t].content \in SUBSET Edit
  BY OpenSession, Fields DEF Copy, CopyFails, Active
<1>2. PICK c \in SUBSET SUBSET Edit :
        session' = [session EXCEPT ![t] = [session[t] EXCEPT !.copies = c]]
  <2>1. {session[t].content} \in SUBSET SUBSET Edit  BY <1>1
  <2> QED  BY <2>1 DEF Copy, CopyFails, SessionType
<1> DEFINE s == session[t]
           z == [s EXCEPT !.copies = c]
<1>3. Becomes(t, z)  BY <1>2 DEF Becomes
<1>4. z.timer = s.timer /\ Is(s, z, s.rev, s.localGen, s.status, s.life, s.pending, s.recovered)
  BY <1>1 DEF Is, Same, Session
<1> HIDE DEF z
<1> QED  BY <1>1, <1>3, <1>4, IsGoes

\* Nothing of the save or of the edits is touched.
Aside(t) == DraftTimer(t) \/ KeepDraft(t) \/ Copy(t) \/ CopyFails(t)

LEMMA AsideGoes ==
  ASSUME NoneAssumption, SessionType, NEW t \in Tab, Aside(t)
  PROVE  /\ Goes(t, session[t].rev, session[t].localGen, session[t].status,
                 session[t].life, session[t].pending, session[t].recovered)
         /\ UNCHANGED <<server, drafts, saving, net, stray, opening, edits, trashes, opens,
                        held, forgiven, outrun>>
         /\ Copy(t) \/ CopyFails(t) => UNCHANGED local
<1>1. Goes(t, session[t].rev, session[t].localGen, session[t].status,
           session[t].life, session[t].pending, session[t].recovered)
  BY DraftTimerGoes, KeepDraftGoes, CopyGoes DEF Aside
<1>2. UNCHANGED <<server, drafts, saving, net, stray, opening, edits, trashes, opens,
                  held, forgiven, outrun>>
  BY DEF Aside, DraftTimer, KeepDraft, Copy, CopyFails, counters, history
<1> QED  BY <1>1, <1>2 DEF Copy, CopyFails

LEMMA FlushGoes ==
  ASSUME BoardAssumption, NoneAssumption, SessionType, NEW t \in Tab, NEW l \in {"active", "trashing"}, Open(t), Flush(t, l)
  PROVE  \E v \in Statuses :
           /\ v = IF CanSave(t) THEN "saving" ELSE session[t].status
           /\ Goes(t, session[t].rev, session[t].localGen, v, l, session[t].pending,
                   session[t].recovered)
<1> DEFINE s == session[t]
           v == IF CanSave(t) THEN "saving" ELSE s.status
           z == [s EXCEPT !.timer = FALSE, !.life = l, !.status = v]
<1>1. s \in Session /\ v \in Statuses  BY OpenSession, Fields DEF Statuses
<1>2. Becomes(t, z)  BY DEF Flush, Becomes, SessionType
<1> HIDE DEF v
<1>3. Is(s, z, s.rev, s.localGen, v, l, s.pending, s.recovered)
  BY <1>1 DEF Is, Same, Session, Statuses
<1>4. Goes(t, s.rev, s.localGen, v, l, s.pending, s.recovered)  BY <1>2, <1>3, IsGoes
<1>5. v = IF CanSave(t) THEN "saving" ELSE s.status  BY DEF v
<1> QED  BY <1>1, <1>4, <1>5

LEMMA SendGoes ==
  ASSUME BoardAssumption, NoneAssumption, SessionType, NEW t \in Tab, Open(t), Send(t)
  PROVE  Goes(t, session[t].rev, session[t].localGen, session[t].status,
              session[t].life, ToSend(t), session[t].recovered)
<1> DEFINE s == session[t]
           p == ToSend(t)
           z == [s EXCEPT !.pending = p]
<1>1. s \in Session /\ p \in Request  BY OpenSession, SendTurns
<1>2. Becomes(t, z)  BY DEF Send, ToSend, Becomes, SessionType
<1> HIDE DEF p
<1>3. Is(s, z, s.rev, s.localGen, s.status, s.life, p, s.recovered)
  BY <1>1 DEF Is, Same, Session
<1>4. Goes(t, s.rev, s.localGen, s.status, s.life, p, s.recovered)  BY <1>2, <1>3, IsGoes
<1> QED  BY <1>4 DEF p

LEMMA StatusGoes ==
  ASSUME NoneAssumption, SessionType, NEW t \in Tab, Open(t), NEW v \in Statuses,
         session' = [session EXCEPT ![t].status = v]
  PROVE  Goes(t, session[t].rev, session[t].localGen, v,
              session[t].life, session[t].pending, session[t].recovered)
<1> DEFINE s == session[t]
           z == [s EXCEPT !.status = v]
<1>1. s \in Session  BY OpenSession
<1>2. Becomes(t, z)  BY DEF Becomes, SessionType
<1>3. Is(s, z, s.rev, s.localGen, v, s.life, s.pending, s.recovered)
  BY <1>1 DEF Is, Same, Session, Statuses
<1> QED  BY <1>2, <1>3, IsGoes

LEMMA SettleGoes ==
  ASSUME NoneAssumption, SessionType, NEW t \in Tab, Open(t), Settle(t)
  PROVE  Goes(t, session[t].rev, session[t].localGen,
              IF session[t].gen = session[t].pending.gen THEN "saved" ELSE "dirty",
              session[t].life, None, session[t].recovered)
<1> DEFINE s == session[t]
           v == IF s.gen = s.pending.gen THEN "saved" ELSE "dirty"
           z == [s EXCEPT !.status = v, !.pending = None]
<1>1. s \in Session /\ v \in Statuses  BY OpenSession DEF Statuses
<1>2. Becomes(t, z)  BY DEF Settle, Becomes, SessionType
<1> HIDE DEF v
<1>3. Is(s, z, s.rev, s.localGen, v, s.life, None, s.recovered)
  BY <1>1 DEF Is, Same, Session, Statuses
<1>4. Goes(t, s.rev, s.localGen, v, s.life, None, s.recovered)  BY <1>2, <1>3, IsGoes
<1> QED  BY <1>4 DEF v

LEMMA EndSaveGoes ==
  ASSUME NoneAssumption, SessionType, NEW t \in Tab, Open(t), EndSave(t)
  PROVE  /\ session[t].status = "dirty" => session'[t].timer
         /\ Goes(t, session[t].rev, session[t].localGen,
              session[t].status, session[t].life, session[t].pending, session[t].recovered)
<1> DEFINE s == session[t]
           w == s.timer \/ s.status = "dirty"
           z == [s EXCEPT !.timer = w]
<1>1. s \in Session /\ w \in BOOLEAN  BY OpenSession
<1>2. Becomes(t, z)  BY DEF EndSave, Becomes, SessionType
<1> HIDE DEF w
<1>3. z.timer = w /\ Is(s, z, s.rev, s.localGen, s.status, s.life, s.pending, s.recovered)
  BY <1>1 DEF Is, Same, Session
<1> HIDE DEF z
<1>4. session'[t].timer = w /\ Goes(t, s.rev, s.localGen, s.status, s.life, s.pending, s.recovered)  BY <1>2, <1>3, IsGoes
<1> QED  BY <1>4 DEF w

LEMMA RefusedGoes ==
  ASSUME NoneAssumption, SessionType, NEW t \in Tab, Open(t), SaveFails(t),
         net[t].answer # "conflict"
  PROVE  \E cured \in BOOLEAN :
           /\ cured => session'[t].timer
           /\ Goes(t, session[t].rev, session[t].localGen,
                IF cured THEN "dirty" ELSE "error", session[t].life, None, session[t].recovered)
<1> DEFINE s == session[t]
           cured == s.gen > s.pending.gen
           w == s.timer \/ cured
           v == IF cured THEN "dirty" ELSE "error"
           z == [s EXCEPT !.pending = None, !.timer = w, !.status = v]
<1>1. s \in Session /\ w \in BOOLEAN /\ v \in Statuses  BY OpenSession DEF Statuses
<1>2. Becomes(t, z)  BY DEF SaveFails, Answered, Becomes, SessionType
<1>0. cured \in BOOLEAN  OBVIOUS
<1> HIDE DEF v, w
<1>3. z.timer = w /\ Is(s, z, s.rev, s.localGen, v, s.life, None, s.recovered)
  BY <1>1 DEF Is, Same, Session, Statuses
<1> HIDE DEF z
<1>4. session'[t].timer = w /\ Goes(t, s.rev, s.localGen, v, s.life, None, s.recovered)  BY <1>2, <1>3, IsGoes
<1>5. PICK b \in BOOLEAN : b = cured  BY <1>0
<1>6. w = (s.timer \/ b) /\ v = (IF b THEN "dirty" ELSE "error")  BY <1>5 DEF w, v
<1> QED  BY <1>4, <1>6

LEMMA LoseGoes ==
  ASSUME NoneAssumption, SessionType, NEW t \in Tab, Open(t), Lose(t)
  PROVE  Goes(t, session[t].rev, session[t].localGen,
              IF saving[t] = "sent" THEN "error" ELSE session[t].status,
              IF saving[t] = "trash" THEN "active" ELSE session[t].life,
              session[t].pending, session[t].recovered)
<1> DEFINE s == session[t]
           v == IF saving[t] = "sent" THEN "error" ELSE s.status
           l == IF saving[t] = "trash" THEN "active" ELSE s.life
           z == [s EXCEPT !.status = v, !.life = l]
<1>1. s \in Session /\ v \in Statuses /\ l \in {"active", "trashing"}
  BY OpenSession, Fields DEF Statuses
<1>2. Becomes(t, z)  BY DEF Lose, Becomes, SessionType
<1> HIDE DEF v, l
<1>3. Is(s, z, s.rev, s.localGen, v, l, s.pending, s.recovered)
  BY <1>1 DEF Is, Same, Session, Statuses
<1>4. Goes(t, s.rev, s.localGen, v, l, s.pending, s.recovered)  BY <1>2, <1>3, IsGoes
<1> QED  BY <1>4 DEF v, l

LEMMA LifeGoes ==
  ASSUME NoneAssumption, SessionType, NEW t \in Tab, Open(t), session' = [session EXCEPT ![t].life = "active"]
  PROVE  /\ session'[t].timer = session[t].timer
         /\ Goes(t, session[t].rev, session[t].localGen, session[t].status,
              "active", session[t].pending, session[t].recovered)
<1> DEFINE s == session[t]
           z == [s EXCEPT !.life = "active"]
<1>1. s \in Session  BY OpenSession
<1>2. Becomes(t, z)  BY DEF Becomes, SessionType
<1>3. z.timer = s.timer /\ Is(s, z, s.rev, s.localGen, s.status, "active", s.pending, s.recovered)
  BY <1>1 DEF Is, Same, Session
<1> HIDE DEF z
<1> QED  BY <1>2, <1>3, IsGoes

LEMMA SaveOkGoes ==
  ASSUME NoneAssumption, SessionType, NEW t \in Tab, Open(t), SaveOk(t), net[t].rev \in Nat
  PROVE  Goes(t, net[t].rev, session[t].localGen, session[t].status,
              session[t].life, session[t].pending, None)
<1> DEFINE s == session[t]
           z == [s EXCEPT !.rev = net[t].rev, !.recovered = None]
<1>1. s \in Session  BY OpenSession
<1>2. Becomes(t, z)  BY DEF SaveOk, Becomes, SessionType
<1>3. Is(s, z, net[t].rev, s.localGen, s.status, s.life, s.pending, None)
  BY <1>1 DEF Is, Same, Session
<1> QED  BY <1>2, <1>3, IsGoes

LEMMA TrashOkGoes ==
  ASSUME NoneAssumption, SessionType, NEW t \in Tab, Open(t), TrashOk(t), net[t].rev \in Nat
  PROVE  Goes(t, net[t].rev, session[t].localGen, session[t].status,
              session[t].life, session[t].pending, session[t].recovered)
<1> DEFINE s == session[t]
           z == [s EXCEPT !.rev = net[t].rev]
<1>1. s \in Session  BY OpenSession
<1>2. Becomes(t, z)  BY DEF TrashOk, Becomes, SessionType
<1>3. Is(s, z, net[t].rev, s.localGen, s.status, s.life, s.pending, s.recovered)
  BY <1>1 DEF Is, Same, Session
<1> QED  BY <1>2, <1>3, IsGoes

\* A put of a session makes its generation safe; no other operation changes a session.
LEMMA LocalEndsGoes ==
  ASSUME NoneAssumption, SessionType, NEW t \in Tab, LocalEnds(t), local[t] \in Seq(Operation)
  PROVE  \/ UNCHANGED session
         \/ /\ Head(local[t]).op = "put" /\ Open(t)
            /\ session[t].id = Head(local[t]).draft.token[1]
            /\ session'[t].timer = session[t].timer
            /\ Goes(t, session[t].rev, Head(local[t]).draft.token[2], session[t].status,
                    session[t].life, session[t].pending, session[t].recovered)
<1> DEFINE op == Head(local[t])
           s == session[t]
           g == op.draft.token[2]
           z == [s EXCEPT !.localGen = g]
<1>1. CASE op.op = "put" /\ Open(t) /\ s.id = op.draft.token[1]
  <2>1. s \in Session  BY <1>1, OpenSession
  <2>2. g \in 0..MaxEdits  BY <1>1, Operations DEF LocalEnds, Draft, Token
  <2>3. Becomes(t, z)  BY <1>1 DEF LocalEnds, Acknowledge, Becomes, SessionType
  <2> HIDE DEF op, g
  <2>4. z.timer = s.timer /\ Is(s, z, s.rev, g, s.status, s.life, s.pending, s.recovered)
    BY <2>1, <2>2 DEF Is, Same, Session
  <2> HIDE DEF z
  <2>5. session'[t].timer = s.timer /\ Goes(t, s.rev, g, s.status, s.life, s.pending, s.recovered)
    BY <1>1, <2>3, <2>4, IsGoes
  <2> QED  BY <1>1, <2>5 DEF op, g
<1>2. CASE ~(op.op = "put" /\ Open(t) /\ s.id = op.draft.token[1])
  BY <1>2 DEF LocalEnds, Acknowledge
<1> QED  BY <1>1, <1>2

\* An edit is not saved; it is scheduled, unless the session is in conflict.
Edits(t) ==
  /\ EditOf(t)
  /\ session'[t].localGen = session[t].localGen /\ session'[t].recovered = session[t].recovered
  /\ session'[t].life = "active" /\ session'[t].life = session[t].life
  /\ session[t].status = "conflict" => session'[t].status = "conflict"
  /\ session[t].status # "conflict" => session'[t].status = "dirty" /\ session'[t].timer = TRUE

LEMMA ChangeEdits ==
  ASSUME BoardAssumption, NoneAssumption, TypeOK, BoundInv, NEW t \in Tab, Change(t)
  PROVE  Edits(t)
<1> DEFINE s == session[t]
           c == s.content \cup {edits + 1}
           g == s.gen + 1
           w == s.timer \/ s.status # "conflict"
           v == IF s.status = "conflict" THEN s.status ELSE "dirty"
           z == [s EXCEPT !.content = c, !.gen = g, !.draftTimer = TRUE, !.timer = w, !.status = v]
<1>0. SessionType  BY DEF TypeOK, SessionType
<1>1. Open(t) /\ s \in Session /\ s.life = "active" /\ s.timer \in BOOLEAN
  BY <1>0, OpenSession, Fields DEF Change, Active
<1>2. session' = [session EXCEPT ![t] = z]
  BY <1>0 DEF Change, SessionType
<1>3. session'[t] = z  BY <1>0, <1>2 DEF SessionType
<1>4. s.status # "conflict" => w = TRUE /\ v = "dirty"  OBVIOUS
<1>5. s.status = "conflict" => v = "conflict"  OBVIOUS
<1> HIDE DEF c, g, v
<1>6. /\ z.localGen = s.localGen /\ z.recovered = s.recovered /\ z.life = s.life
      /\ z.status = v /\ z.timer = w
  BY <1>1 DEF Session
<1> HIDE DEF z
<1> QED  BY <1>1, <1>3, <1>4, <1>5, <1>6, ChangeSteps DEF Edits

\* A new session.
LEMMA BeginsFields ==
  ASSUME BoardAssumption, TypeOK, BoundInv, NEW t \in Tab, opening[t] # None,
         NEW u \in Tab \cup {None}, NEW z, z = NewSession(t, u)
  PROVE  /\ z.localGen = (IF u = None THEN None ELSE 0) /\ z.life = "active"
         /\ z.status = "dirty" => z.timer
         /\ z.status \in {"saved", "dirty", "conflict"}
         /\ z.status = "saved" <=> u = None
         /\ z.recovered = (IF u = None THEN None ELSE <<u, drafts[u].token>>)
BY DEF NewSession

\* The session that t begins, from the draft of u or from none, is z; what it replaces
\* was saved.
Starts(t, u, z) ==
  /\ z = NewSession(t, u) /\ BeginsWith(t, u, z)
  /\ Open(t) => session[t].status = "saved"
  /\ u = None => drafts[t] = None \/ drafts[t].content = opening[t].content
  /\ u # None => drafts[t] = None \/ u = t

LEMMA BuildBegins ==
  ASSUME BoardAssumption, NoneAssumption, TypeOK, BoundInv, NEW t \in Tab, Build(t)
  PROVE  \/ UNCHANGED session
         \/ \E u \in Tab \cup {None} : \E z : Starts(t, u, z)
<1>0. SessionType  BY DEF TypeOK, SessionType
<1>1. opening[t] # None  BY DEF Build
<1>2. ASSUME session' # session
      PROVE  \E u \in Tab \cup {None} :
               /\ u # None => u \in Tab /\ drafts[u] # None
               /\ Becomes(t, NewSession(t, u))
               /\ u # None /\ drafts[u].token[1] \in mixed => <<t, opens>> \in mixed'
               /\ Open(t) => session[t].status = "saved"
               /\ u = None => drafts[t] = None \/ drafts[t].content = opening[t].content
               /\ u # None => drafts[t] = None \/ u = t
  <2>1. PICK x \in (IF Candidates(t) = {} THEN {None} ELSE Candidates(t)) :
          LET same == x # None /\ drafts[x].content = opening[t].content IN
          /\ Becomes(t, NewSession(t, IF same THEN None ELSE x))
          /\ mixed' = (IF x # None /\ drafts[x].token[1] \in mixed
                       THEN mixed \cup {<<t, opens>>} ELSE mixed)
          /\ Open(t) => session[t].status = "saved"
    BY <1>2 DEF Build, Becomes
  <2>2. /\ x # None => x \in Tab /\ drafts[x] # None
        /\ x = None => drafts[t] = None
        /\ x # None => drafts[t] = None \/ x = t
    BY DEF Candidates
  <2>3. CASE x # None /\ drafts[x].content = opening[t].content
    BY <2>1, <2>2, <2>3
  <2>4. CASE ~(x # None /\ drafts[x].content = opening[t].content)
    BY <2>1, <2>2, <2>4
  <2> QED  BY <2>3, <2>4
<1>3. ASSUME session' # session PROVE \E u \in Tab \cup {None} : \E z : Starts(t, u, z)
  <2>1. PICK u \in Tab \cup {None} :
               /\ u # None => u \in Tab /\ drafts[u] # None
               /\ Becomes(t, NewSession(t, u))
               /\ u # None /\ drafts[u].token[1] \in mixed => <<t, opens>> \in mixed'
               /\ Open(t) => session[t].status = "saved"
               /\ u = None => drafts[t] = None \/ drafts[t].content = opening[t].content
               /\ u # None => drafts[t] = None \/ u = t
    BY <1>2, <1>3
  <2>2. PICK z : z = NewSession(t, u)  OBVIOUS
  <2>3. Begins(t, u, z)  BY <1>1, <2>1, <2>2, NewSessions
  <2>4. z \in Session  BY <2>3 DEF Begins
  <2>5. session'[t] = z /\ \A w \in Tab \ {t} : session'[w] = session[w] /\ (Open(w)' <=> Open(w))
    BY <1>0, <2>1, <2>2, <2>4, Became
  <2>6. BeginsWith(t, u, z)  BY <2>1, <2>3, <2>4, <2>5 DEF BeginsWith
  <2>7. Starts(t, u, z)  BY <2>1, <2>2, <2>6 DEF Starts
  <2> QED  BY <2>7
<1> QED  BY <1>3

-----------------------------------------------------------------------------
(* The schedule *)

LEMMA ScheduleOthers ==
  ASSUME ScheduleInv, NEW t \in Tab, Scheduled(t)',
         \A u \in Tab \ {t} : session'[u] = session[u] /\ saving'[u] = saving[u]
  PROVE  ScheduleInv'
BY DEF ScheduleInv, Scheduled, Open

LEMMA ScheduleStep ==
  ASSUME BoardAssumption, NoneAssumption, TypeOK, BoundInv, OwnInv, ScheduleInv, [Next]_vars
  PROVE  ScheduleInv'
<1>a. /\ SessionType /\ local \in [Tab -> Seq(Operation)] /\ net \in NetType
      /\ saving \in [Tab -> {"no", "draft", "sent", "settle", "end", "trash", "retire"}]
  BY DEF TypeOK, SessionType, NetType
<1>b. \A t \in Tab : Own(t) /\ Scheduled(t)  BY DEF OwnInv, ScheduleInv
<1>4. ASSUME NEW t \in Tab, NEW l \in {"active", "trashing"}, Open(t), Flush(t, l),
             l = session[t].life \/ session[t].life = "active"
      PROVE  ScheduleInv'
  <2>1. saving' = (IF CanSave(t) THEN [saving EXCEPT ![t] = "draft"] ELSE saving)  BY <1>4 DEF Flush
  <2>0. PICK v \in Statuses :
          /\ v = IF CanSave(t) THEN "saving" ELSE session[t].status
          /\ Goes(t, session[t].rev, session[t].localGen, v, l, session[t].pending, session[t].recovered)
    BY <1>4, <1>a, FlushGoes 
  <2>2. CASE CanSave(t)
    <3>1. saving'[t] = "draft" /\ \A u \in Tab \ {t} : saving'[u] = saving[u]  BY <1>a, <2>1, <2>2
    <3>2. Scheduled(t)'  BY <2>0, <2>2, <3>1 DEF Scheduled, Goes, Is
    <3> QED  BY <2>0, <3>1, <3>2, ScheduleOthers DEF Goes, Is
  <2>3. CASE ~CanSave(t)
    <3>1. saving' = saving  BY <2>1, <2>3
    <3>2. session[t].status \in {"dirty", "saving"} => saving[t] # "no"  BY <2>3 DEF CanSave
    <3>3. Scheduled(t)'  BY <1>4, <1>b, <2>0, <2>3, <3>1, <3>2 DEF Scheduled, Goes, Is
    <3> QED  BY <2>0, <3>1, <3>3, ScheduleOthers DEF Goes, Is
  <2> QED  BY <2>2, <2>3
<1> USE DEF Goes, Is
<1>1. ASSUME NEW t \in Tab, Change(t) PROVE ScheduleInv'
  <2>1. Edits(t) /\ UNCHANGED saving  BY <1>1, ChangeEdits DEF Change
  <2>2. session'[t].timer \in BOOLEAN  BY <2>1, Fields DEF Edits, EditOf
  <2>3. Scheduled(t)'  BY <1>b, <2>1, <2>2 DEF Edits, EditOf, Scheduled, Own
  <2> QED  BY <2>1, <2>3, ScheduleOthers DEF Edits, EditOf
<1>2. ASSUME NEW t \in Tab, DraftTimer(t) \/ KeepDraft(t) \/ Copy(t) \/ CopyFails(t) PROVE ScheduleInv'
  <2>0. UNCHANGED saving  BY <1>2 DEF DraftTimer, KeepDraft, Copy, CopyFails
  <2>1. /\ Goes(t, session[t].rev, session[t].localGen, session[t].status,
                 session[t].life, session[t].pending, session[t].recovered)
        /\ session'[t].timer = session[t].timer
           \/ session[t].status \in {"saved", "conflict"} \/ saving[t] # "no"
    BY <1>2, <1>a, DraftTimerGoes, KeepDraftGoes, CopyGoes DEF KeepDraft, CanSave
  <2>2. Scheduled(t)'  BY <1>b, <2>0, <2>1 DEF Scheduled
  <2> QED  BY <2>0, <2>1, <2>2, ScheduleOthers
<1>3. ASSUME NEW t \in Tab, LocalEnds(t) PROVE ScheduleInv'
  <2>1. UNCHANGED saving  BY <1>3 DEF LocalEnds
  <2>2. CASE UNCHANGED session  BY <2>1, <2>2 DEF ScheduleInv, Scheduled, Open
  <2>3. CASE session'[t].timer = session[t].timer /\ Goes(t, session[t].rev, Head(local[t]).draft.token[2], session[t].status,
                  session[t].life, session[t].pending, session[t].recovered)
    <3>1. Scheduled(t)'  BY <1>b, <2>1, <2>3 DEF Scheduled
    <3> QED  BY <2>1, <2>3, <3>1, ScheduleOthers
  <2> QED  BY <1>3, <1>a, <2>2, <2>3, LocalEndsGoes
<1>5. ASSUME NEW t \in Tab, SaveTimer(t) \/ SaveNow(t) \/ Trash(t) PROVE ScheduleInv'
  <2>1. Open(t) /\ \E l \in {"active", "trashing"} :
                     Flush(t, l) /\ (l = session[t].life \/ session[t].life = "active")
    BY <1>5, <1>a, OpenSession, Fields DEF SaveTimer, SaveNow, Trash, Active
  <2> QED  BY <1>4, <2>1
<1>6. ASSUME NEW t \in Tab, Send(t) PROVE ScheduleInv'
  <2>1. Open(t)  BY <1>6, <1>b DEF Send, Own
  <2>2. saving'[t] = "sent" /\ \A u \in Tab \ {t} : saving'[u] = saving[u]  BY <1>6, <1>a DEF Send
  <2>3. Goes(t, session[t].rev, session[t].localGen, session[t].status,
              session[t].life, ToSend(t), session[t].recovered)
    BY <1>6, <1>a, <2>1, SendGoes
  <2>4. Scheduled(t)'  BY <1>6, <1>b, <2>2, <2>3 DEF Scheduled, Send
  <2> QED  BY <2>2, <2>3, <2>4, ScheduleOthers
<1>7. ASSUME NEW t \in Tab, UploadFails(t) PROVE ScheduleInv'
  <2>1. Open(t) /\ "error" \in Statuses  BY <1>7, <1>b DEF UploadFails, Own, Statuses
  <2>2. saving'[t] = "no" /\ \A u \in Tab \ {t} : saving'[u] = saving[u]  BY <1>7, <1>a DEF UploadFails
  <2>3. Goes(t, session[t].rev, session[t].localGen, "error",
              session[t].life, session[t].pending, session[t].recovered)
    BY <1>7, <1>a, <2>1, StatusGoes DEF UploadFails
  <2>4. Scheduled(t)'  BY <2>2, <2>3 DEF Scheduled
  <2> QED  BY <2>2, <2>3, <2>4, ScheduleOthers
<1>8. ASSUME NEW t \in Tab, SaveOk(t) PROVE ScheduleInv'
  <2>1. Open(t) /\ net[t].rev \in Nat  BY <1>8, <1>a, <1>b DEF SaveOk, Answered, Own, NetType
  <2>2. saving[t] = "sent" /\ saving'[t] = "settle" /\ \A u \in Tab \ {t} : saving'[u] = saving[u]
    BY <1>8, <1>a DEF SaveOk, Answered
  <2>3. Goes(t, net[t].rev, session[t].localGen, session[t].status,
              session[t].life, session[t].pending, None)
    BY <1>8, <1>a, <2>1, SaveOkGoes
  <2>4. Scheduled(t)'  BY <1>b, <2>2, <2>3 DEF Scheduled
  <2> QED  BY <2>2, <2>3, <2>4, ScheduleOthers
<1>9. ASSUME NEW t \in Tab, Settle(t) PROVE ScheduleInv'
  <2>1. Open(t)  BY <1>9, <1>b DEF Settle, Own
  <2>2. saving'[t] = "end" /\ \A u \in Tab \ {t} : saving'[u] = saving[u]  BY <1>9, <1>a DEF Settle
  <2>3. Goes(t, session[t].rev, session[t].localGen,
              IF session[t].gen = session[t].pending.gen THEN "saved" ELSE "dirty",
              session[t].life, None, session[t].recovered)
    BY <1>9, <1>a, <2>1, SettleGoes
  <2>4. Scheduled(t)'  BY <2>2, <2>3 DEF Scheduled
  <2> QED  BY <2>2, <2>3, <2>4, ScheduleOthers
<1>10. ASSUME NEW t \in Tab, EndSave(t) PROVE ScheduleInv'
  <2>1. Open(t) /\ saving[t] = "end"  BY <1>10, <1>b DEF EndSave, Own
  <2>2. saving'[t] = "no" /\ \A u \in Tab \ {t} : saving'[u] = saving[u]  BY <1>10, <1>a DEF EndSave
  <2>3. (session[t].status = "dirty" => session'[t].timer) /\ Goes(t, session[t].rev, session[t].localGen,
              session[t].status, session[t].life, session[t].pending, session[t].recovered)
    BY <1>10, <1>a, <2>1, EndSaveGoes
  <2>4. session[t].status # "saving"  BY <1>b, <2>1 DEF Scheduled
  <2>5. Scheduled(t)'  BY <2>2, <2>3, <2>4 DEF Scheduled
  <2> QED  BY <2>2, <2>3, <2>5, ScheduleOthers
<1>11. ASSUME NEW t \in Tab, SaveFails(t) PROVE ScheduleInv'
  <2>1. Open(t) /\ "conflict" \in Statuses  BY <1>11, <1>b DEF SaveFails, Answered, Own, Statuses
  <2>2. saving'[t] = "no" /\ \A u \in Tab \ {t} : saving'[u] = saving[u]  BY <1>11, <1>a DEF SaveFails
  <2>3. CASE session' = [session EXCEPT ![t].status = "conflict"]
    <3>1. Goes(t, session[t].rev, session[t].localGen, "conflict",
                session[t].life, session[t].pending, session[t].recovered)
      BY <1>a, <2>1, <2>3, StatusGoes
    <3>2. Scheduled(t)'  BY <2>2, <3>1 DEF Scheduled
    <3> QED  BY <2>2, <3>1, <3>2, ScheduleOthers
  <2>4. CASE net[t].answer # "conflict"
    <3>1. PICK cured \in BOOLEAN :
           /\ cured => session'[t].timer
           /\ Goes(t, session[t].rev, session[t].localGen,
                IF cured THEN "dirty" ELSE "error", session[t].life, None, session[t].recovered)
      BY <1>11, <1>a, <2>1, <2>4, RefusedGoes
    <3>2. Scheduled(t)'  BY <2>2, <3>1 DEF Scheduled
    <3> QED  BY <2>2, <3>1, <3>2, ScheduleOthers
  <2> QED  BY <1>11, <2>3, <2>4 DEF SaveFails, Answered
<1>12. ASSUME NEW t \in Tab, Lose(t) PROVE ScheduleInv'
  <2>1. Open(t) /\ saving[t] \in {"sent", "trash"}  BY <1>12, <1>b DEF Lose, Own
  <2>2. saving'[t] = "no" /\ \A u \in Tab \ {t} : saving'[u] = saving[u]  BY <1>12, <1>a DEF Lose
  <2>3. Goes(t, session[t].rev, session[t].localGen,
              IF saving[t] = "sent" THEN "error" ELSE session[t].status,
              IF saving[t] = "trash" THEN "active" ELSE session[t].life,
              session[t].pending, session[t].recovered)
    BY <1>12, <1>a, <2>1, LoseGoes
  <2>4. saving[t] = "trash" => session[t].status = "saved"  BY <1>b, <2>1 DEF Scheduled
  <2>5. Scheduled(t)'  BY <2>1, <2>2, <2>3, <2>4 DEF Scheduled
  <2> QED  BY <2>2, <2>3, <2>5, ScheduleOthers
<1>13. ASSUME NEW t \in Tab, TrashFlushed(t) PROVE ScheduleInv'
  <2>1. CASE session[t].status = "saved"
    <3>1. saving'[t] = "trash" /\ UNCHANGED session /\ \A u \in Tab \ {t} : saving'[u] = saving[u]
      BY <1>13, <1>a, <2>1 DEF TrashFlushed
    <3>2. Scheduled(t)'  BY <1>13, <2>1, <3>1 DEF Scheduled, TrashFlushed, Open
    <3> QED  BY <3>1, <3>2, ScheduleOthers
  <2>2. CASE session[t].status # "saved"
    <3>1. /\ Open(t) /\ saving[t] = "no" /\ UNCHANGED saving
          /\ session' = [session EXCEPT ![t].life = "active"]
      BY <1>13, <2>2 DEF TrashFlushed
    <3>2. session'[t].timer = session[t].timer /\ Goes(t, session[t].rev, session[t].localGen, session[t].status,
                "active", session[t].pending, session[t].recovered)
      BY <1>a, <3>1, LifeGoes
    <3>3. Scheduled(t)'  BY <1>b, <3>1, <3>2 DEF Scheduled
    <3> QED  BY <3>1, <3>2, <3>3, ScheduleOthers
  <2> QED  BY <2>1, <2>2
<1>14. ASSUME NEW t \in Tab, TrashOk(t) PROVE ScheduleInv'
  <2>1. Open(t) /\ net[t].rev \in Nat  BY <1>14, <1>a, <1>b DEF TrashOk, Answered, Own, NetType
  <2>2. saving[t] = "trash" /\ saving'[t] = "retire" /\ \A u \in Tab \ {t} : saving'[u] = saving[u]
    BY <1>14, <1>a DEF TrashOk, Answered
  <2>3. Goes(t, net[t].rev, session[t].localGen, session[t].status,
              session[t].life, session[t].pending, session[t].recovered)
    BY <1>14, <1>a, <2>1, TrashOkGoes
  <2>4. Scheduled(t)'  BY <1>b, <2>2, <2>3 DEF Scheduled
  <2> QED  BY <2>2, <2>3, <2>4, ScheduleOthers
<1>15. ASSUME NEW t \in Tab, TrashFails(t) PROVE ScheduleInv'
  <2>1. Open(t) /\ saving[t] = "trash"  BY <1>15, <1>b DEF TrashFails, Answered, Own
  <2>2. saving'[t] = "no" /\ \A u \in Tab \ {t} : saving'[u] = saving[u]  BY <1>15, <1>a DEF TrashFails
  <2>3. Goes(t, session[t].rev, session[t].localGen, session[t].status,
              "active", session[t].pending, session[t].recovered)
    BY <1>15, <1>a, <2>1, LifeGoes DEF TrashFails
  <2>4. Scheduled(t)'  BY <1>b, <2>1, <2>2, <2>3 DEF Scheduled
  <2> QED  BY <2>2, <2>3, <2>4, ScheduleOthers
<1>16. ASSUME NEW t \in Tab, Retire(t) \/ CopyMade(t) \/ Close(t) PROVE ScheduleInv'
  <2>1. session'[t] = None /\ \A u \in Tab \ {t} : session'[u] = session[u] /\ saving'[u] = saving[u]
    BY <1>16, <1>a DEF Retire, CopyMade, Close, SessionType
  <2>2. Scheduled(t)'  BY <2>1 DEF Scheduled, Open
  <2> QED  BY <2>1, <2>2, ScheduleOthers
<1>17. ASSUME NEW t \in Tab, Build(t) PROVE ScheduleInv'
  <2>1. opening[t] # None /\ saving[t] = "no" /\ UNCHANGED saving
    BY <1>17, <1>b DEF Build, Own
  <2>2. CASE UNCHANGED session  BY <2>1, <2>2 DEF ScheduleInv, Scheduled, Open
  <2>3. ASSUME NEW u \in Tab \cup {None}, NEW z, Starts(t, u, z)
        PROVE  ScheduleInv'
    <3>1. (z.status = "dirty" => z.timer) /\ z.status \in {"saved", "dirty", "conflict"}
      BY <2>1, <2>3, BeginsFields DEF Starts
    <3>0. session'[t] = z /\ \A w \in Tab \ {t} : session'[w] = session[w]
      BY <2>3 DEF Starts, BeginsWith
    <3>2. Scheduled(t)'  BY <2>1, <3>0, <3>1 DEF Scheduled
    <3> QED  BY <2>1, <3>0, <3>2, ScheduleOthers
  <2> QED  BY <1>17, <2>2, <2>3, BuildBegins
<1>18. ASSUME NEW t \in Tab, LocalFails(t) \/ Serve(t) \/ Fetch(t) PROVE ScheduleInv'
  BY <1>18 DEF LocalFails, Serve, Fetch, ScheduleInv, Scheduled, Open
<1>19. ASSUME NEW r \in stray, ServeStray(r) PROVE ScheduleInv'
  BY <1>19 DEF ServeStray, ScheduleInv, Scheduled, Open
<1>20. CASE UNCHANGED vars  BY <1>20 DEF vars, ScheduleInv, Scheduled, Open
<1> QED
  BY <1>1, <1>2, <1>3, <1>5, <1>6, <1>7, <1>8, <1>9, <1>10, <1>11, <1>12, <1>13, <1>14,
     <1>15, <1>16, <1>17, <1>18, <1>19, <1>20 DEF Next, Online, Unmount

-----------------------------------------------------------------------------
(* What is known *)

\* What is known stays known, and what is at the server has been there.
Learns == held \subseteq held' /\ Known \subseteq Known'

LEMMA KnownSteps ==
  ASSUME [Next]_vars, server.content \subseteq held
  PROVE  Learns /\ server'.content \subseteq held'
<1> USE DEF Learns, Known, history
<1>1. ASSUME NEW t \in Tab, Change(t) \/ DraftTimer(t) \/ LocalEnds(t) \/ LocalFails(t)
                            \/ SaveTimer(t) \/ SaveNow(t) \/ KeepDraft(t) \/ Send(t) \/ UploadFails(t)
      PROVE  UNCHANGED <<server, held, forgiven, outrun>>
  BY <1>1 DEF Change, DraftTimer, LocalEnds, LocalFails, SaveTimer, SaveNow, KeepDraft, Send, UploadFails
<1>2. ASSUME NEW t \in Tab, SaveOk(t) \/ Settle(t) \/ EndSave(t) \/ SaveFails(t) \/ Lose(t)
                            \/ Trash(t) \/ TrashFlushed(t) \/ TrashOk(t) \/ TrashFails(t)
      PROVE  UNCHANGED <<server, held, forgiven, outrun>>
  BY <1>2 DEF SaveOk, Settle, EndSave, SaveFails, Lose, Trash, TrashFlushed, TrashOk, TrashFails
<1>3. ASSUME NEW t \in Tab, Retire(t) \/ Fetch(t) \/ Build(t) \/ Copy(t) \/ CopyFails(t)
      PROVE  UNCHANGED <<server, held, forgiven, outrun>>
  BY <1>3 DEF Retire, Fetch, Build, Copy, CopyFails
<1>4. ASSUME NEW t \in Tab, CopyMade(t) \/ Close(t)
      PROVE  /\ server' = server /\ held \subseteq held' /\ forgiven \subseteq forgiven'
             /\ outrun \subseteq outrun'
  BY <1>4 DEF CopyMade, Close
<1>5. ASSUME NEW t \in Tab, Serve(t)
      PROVE  held' = held \cup server'.content /\ UNCHANGED <<forgiven, outrun>>
  BY <1>5 DEF Serve
<1>6. ASSUME NEW r \in stray, ServeStray(r)
      PROVE  held' = held \cup server'.content /\ UNCHANGED <<forgiven, outrun>>
  BY <1>6 DEF ServeStray
<1>7. UNCHANGED vars => UNCHANGED <<server, held, forgiven, outrun>>  BY DEF vars
<1> QED  BY <1>1, <1>2, <1>3, <1>4, <1>5, <1>6, <1>7 DEF Next, Online, Unmount

\* A board is read from the server.
LEMMA ReadsStayHeld ==
  ASSUME RestType, server.content \subseteq held, ReadsHeld, [Next]_vars
  PROVE  ReadsHeld'
<1>1. Learns  BY KnownSteps
<1>2. opening \in [Tab -> [rev : Nat, content : SUBSET Edit] \cup {None}]  BY DEF RestType
<1>3. ASSUME NEW u \in Tab, opening'[u] # None PROVE opening'[u].content \subseteq held'
  <2>1. CASE opening'[u] \in {opening[u], None}
    <3>1. opening'[u] = opening[u]  BY <1>3, <2>1
    <3>2. opening[u].content \subseteq held  BY <1>3, <3>1 DEF ReadsHeld
    <3> QED  BY <1>1, <3>1, <3>2 DEF Learns
  <2>2. ASSUME NEW t \in Tab, Fetch(t) PROVE opening'[u].content \subseteq held'
    <3>1. opening' = [opening EXCEPT ![t] = [rev |-> server.rev, content |-> server.content]]
      BY <2>2 DEF Fetch
    <3>2. CASE u = t
      <4>1. opening'[u] = [rev |-> server.rev, content |-> server.content]  BY <1>2, <3>1, <3>2
      <4> QED  BY <1>1, <4>1 DEF Learns
    <3>3. CASE u # t
      <4>1. opening'[u] = opening[u]  BY <1>2, <3>1, <3>3
      <4>2. opening[u].content \subseteq held  BY <1>3, <4>1 DEF ReadsHeld
      <4> QED  BY <1>1, <4>1, <4>2 DEF Learns
    <3> QED  BY <3>2, <3>3
  <2> QED  BY <2>1, <2>2, CounterSteps
<1> QED  BY <1>3 DEF ReadsHeld

\* A good answer is to a request that the server has taken.
LEMMA AnswersStayHeld ==
  ASSUME TypeOK, ClaimInv, server.content \subseteq held, AnswersHeld, [Next]_vars
  PROVE  AnswersHeld'
<1>1. Learns /\ server'.content \subseteq held'  BY KnownSteps
<1>0. net \in NetType  BY DEF TypeOK, NetType
<1>2. ASSUME NEW u \in Tab, net'[u] # None, net'[u].answer = "ok", net'[u] = net[u]
      PROVE  net'[u].req.content \subseteq held'
  <2>1. net[u].req.content \subseteq held  BY <1>2 DEF AnswersHeld
  <2> QED  BY <1>1, <1>2, <2>1 DEF Learns
<1>3. ASSUME NEW u \in Tab, net'[u] # None, net'[u].answer = "ok", Serve(u)
      PROVE  net'[u].req.content \subseteq held'
  <2>1. /\ net[u] # None
        /\ net[u] \in [req : Request, answer : {"none", "ok", "conflict", "refused"}, rev : Nat]
    BY <1>0, <1>3 DEF Serve, NetType
  <2> DEFINE a == Verdict(net[u].req)
             n == server'.rev
  <2>2. net' = [net EXCEPT ![u] = [net[u] EXCEPT !.answer = a, !.rev = n]]
    BY <1>0, <1>3 DEF Serve, NetType
  <2> HIDE DEF a, n
  <2> DEFINE x == [net[u] EXCEPT !.answer = a, !.rev = n]
  <2>3. x.req = net[u].req /\ x.answer = a  BY <2>1
  <2>4. net'[u] = x  BY <1>0, <2>2 DEF NetType
  <2> HIDE DEF x
  <2>5. PICK r : r = net[u].req  OBVIOUS
  <2>6. r \in Requests /\ Verdict(r) = "ok"
    BY <1>3, <2>1, <2>3, <2>4, <2>5, NetRequests DEF a
  <2>7. server'.content = r.content  BY <1>3, <2>5, <2>6, Taken DEF Serve
  <2> QED  BY <1>1, <2>3, <2>4, <2>5, <2>7
<1> QED  BY <1>2, <1>3, AnswerSteps DEF AnswersHeld

\* A request has the generation of its id.
LEMMA GenerationsStay ==
  ASSUME BoardAssumption, NoneAssumption, TypeOK, OwnInv, BoundInv, [Next]_vars,
         \A r \in Requests : r.gen = r.id[2], NEW q \in Requests'
  PROVE  q.gen = q.id[2]
<1>1. OldOrNew(q)  BY RequestSteps
<1>2. ASSUME NEW t \in Tab, NEW k \in Nat, q = RequestOf(t, k) PROVE q.gen = q.id[2]
  BY <1>2 DEF RequestOf
<1> QED  BY <1>1, <1>2 DEF OldOrNew, NewRequest

\* What a tab sent and got when the tab does nothing.
LEMMA SaveHeldOthers ==
  ASSUME Learns, NEW u \in Tab, SaveHeld(u),
         session'[u] = session[u], saving'[u] = saving[u], net'[u] = net[u]
  PROVE  SaveHeld(u)'
BY DEF SaveHeld, Open, Learns

\* Two things that a session has said of one generation are the same.
LEMMA SaidOnce ==
  ASSUME TypeOK, ClaimInv, NEW c \in Claims, NEW d \in Claims, c.id = d.id, c.gen = d.gen
  PROVE  c.content = d.content
<1>1. c.gen \in Nat  BY ClaimTypes
<1>2. c.gen <= d.gen /\ d.gen <= c.gen  BY <1>1
<1>3. c.content \subseteq d.content  BY <1>2 DEF ClaimInv
<1>4. d.content \subseteq c.content  BY <1>2 DEF ClaimInv
<1> QED  BY <1>3, <1>4

\* A save that settles the generation of its session has saved its content.
LEMMA SettledIsHeld ==
  ASSUME TypeOK, OwnInv, ClaimInv, HeldInv, NEW t \in Tab, Open(t), saving[t] = "settle",
         session[t].gen = session[t].pending.gen
  PROVE  session[t].content \subseteq held
<1> DEFINE r == session[t].pending
<1>1. r # None /\ r.content \subseteq held  BY DEF HeldInv, SaveHeld
<1>2. r \in Requests  BY <1>1, PendingRequests
<1>3. r.gen = r.id[2] /\ r.id[1] = session[t].id  BY <1>1, <1>2 DEF HeldInv, OwnInv, Own
<1>4. SessionClaim(t) \in Claims /\ RequestClaim(r) \in Claims  BY <1>2, InClaims
<1>5. /\ SessionClaim(t).id = session[t].id /\ SessionClaim(t).gen = session[t].gen
      /\ SessionClaim(t).content = session[t].content
  BY ClaimFields DEF SessionClaim
<1>6. RequestClaim(r).id = r.id[1] /\ RequestClaim(r).gen = r.id[2] /\ RequestClaim(r).content = r.content
  BY ClaimFields DEF RequestClaim
<1>7. session[t].content = r.content  BY <1>3, <1>4, <1>5, <1>6, SaidOnce
<1> QED  BY <1>1, <1>7

\* A draft of the session is of a generation that the session has reached.
LEMMA AcknowledgedIsReached ==
  ASSUME NoneAssumption, TypeOK, ClaimInv, NEW t \in Tab, Open(t), local[t] # <<>>, Head(local[t]).op = "put",
         session[t].id = Head(local[t]).draft.token[1]
  PROVE  Head(local[t]).draft.token[2] <= session[t].gen
<1> DEFINE d == Head(local[t]).draft
<1>1. local[t] \in Seq(Operation)  BY DEF TypeOK
<1>2. 1 \in DOMAIN local[t] /\ Head(local[t]) = local[t][1]  BY <1>1, Operations
<1>3. d \in Drafts  BY <1>2, InDrafts DEF PutsOf
<1>4. DraftClaim(d) \in Claims  BY <1>3, InClaims
<1>5. DraftClaim(d).id = d.token[1] /\ DraftClaim(d).gen = d.token[2]  BY ClaimFields DEF DraftClaim
<1>6. session[t].id # None
  <2>1. SessionType  BY DEF TypeOK, SessionType
  <2>2. session[t].id \in SessionId  BY <2>1, OpenSession, Fields
  <2> QED  BY <2>2 DEF NoneAssumption
<1>7. Bounded(DraftClaim(d))  BY <1>4 DEF ClaimInv
<1> QED  BY <1>5, <1>6, <1>7 DEF Bounded

\* The rest of the tabs, and what is saved.
Alone(t) == \A u \in Tab \ {t} : session'[u] = session[u] /\ saving'[u] = saving[u] /\ net'[u] = net[u]

LEMMA SaveHeldAlone ==
  ASSUME Learns, HeldInv, NEW t \in Tab, Alone(t), SaveHeld(t)'
  PROVE  \A u \in Tab : SaveHeld(u)'
<1>1. ASSUME NEW u \in Tab, u # t PROVE SaveHeld(u)'
  BY <1>1, SaveHeldOthers DEF HeldInv, Alone
<1> QED  BY <1>1

\* A session that goes on as it was.
LEMMA SaveHeldGoes ==
  ASSUME Learns, HeldInv, NEW t \in Tab, UNCHANGED <<saving, net>>, NEW r, NEW l,
         Goes(t, r, session[t].localGen, session[t].status, l, session[t].pending, session[t].recovered)
  PROVE  \A u \in Tab : SaveHeld(u)'
<1>1. SaveHeld(t)  BY DEF HeldInv
<1>2. SaveHeld(t)'  BY <1>1 DEF SaveHeld, Goes, Is, Same, Learns
<1>3. Alone(t)  BY DEF Alone, Goes
<1> QED  BY <1>2, <1>3, SaveHeldAlone

LEMMA SaveHeldSteps ==
  ASSUME BoardAssumption, NoneAssumption, TypeOK, BoundInv, OwnInv, ClaimInv, HeldInv, [Next]_vars
  PROVE  \A u \in Tab : SaveHeld(u)'
<1>a. /\ SessionType /\ local \in [Tab -> Seq(Operation)] /\ net \in NetType
      /\ saving \in [Tab -> {"no", "draft", "sent", "settle", "end", "trash", "retire"}]
  BY DEF TypeOK, SessionType, NetType
<1>n. net \in [Tab -> [req : Request, answer : {"none", "ok", "conflict", "refused"}, rev : Nat] \cup {None}]
  BY <1>a DEF NetType
<1>b. \A t \in Tab : Own(t) /\ SaveHeld(t)  BY DEF OwnInv, HeldInv
<1>k. Learns /\ held' \subseteq Known'  BY KnownSteps DEF HeldInv, Known
<1>1. ASSUME NEW t \in Tab, Change(t) PROVE \A u \in Tab : SaveHeld(u)'
  <2>1. Edits(t) /\ UNCHANGED <<saving, net>>  BY <1>1, ChangeEdits DEF Change
  <2>2. session[t].gen \in Nat /\ session[t].localGen \in 0..MaxEdits \cup {None}
    BY <1>a, <2>1, Fields DEF Edits, EditOf
  <2>3. session'[t].status # "saved"  BY <2>1 DEF Edits
  <2>4. session[t].localGen # None => session[t].localGen <= session[t].gen + 1
    <3>1. ASSUME session[t].localGen # None PROVE session[t].localGen \in Nat  BY <2>2, <3>1
    <3>2. session[t].localGen # None => session[t].localGen <= session[t].gen
      BY <1>b, <2>1 DEF SaveHeld, Edits, EditOf
    <3> QED  BY <2>2, <3>1, <3>2
  <2>5. SaveHeld(t)'  BY <1>b, <1>k, <2>1, <2>3, <2>4 DEF SaveHeld, Edits, EditOf, Learns
  <2>6. Alone(t)  BY <2>1 DEF Alone, Edits, EditOf
  <2> QED  BY <1>k, <2>5, <2>6, SaveHeldAlone
<1>2. ASSUME NEW t \in Tab, Aside(t) PROVE \A u \in Tab : SaveHeld(u)'
  <2>1. /\ UNCHANGED <<saving, net>>
        /\ Goes(t, session[t].rev, session[t].localGen, session[t].status, session[t].life,
                session[t].pending, session[t].recovered)
    BY <1>2, <1>a, AsideGoes
  <2> QED  BY <1>k, <2>1, SaveHeldGoes
<1>3. ASSUME NEW t \in Tab, LocalEnds(t) PROVE \A u \in Tab : SaveHeld(u)'
  <2>1. UNCHANGED <<saving, net>> /\ local[t] # <<>>  BY <1>3 DEF LocalEnds
  <2>2. CASE UNCHANGED session
    BY <1>b, <1>k, <2>1, <2>2 DEF SaveHeld, Open, Learns
  <2>3. CASE /\ Head(local[t]).op = "put" /\ Open(t) /\ session[t].id = Head(local[t]).draft.token[1]
             /\ Goes(t, session[t].rev, Head(local[t]).draft.token[2], session[t].status,
                     session[t].life, session[t].pending, session[t].recovered)
    <3>1. Head(local[t]).draft.token[2] <= session[t].gen
      BY <2>1, <2>3, AcknowledgedIsReached
    <3>2. SaveHeld(t)'  BY <1>b, <1>k, <2>1, <2>3, <3>1 DEF SaveHeld, Goes, Is, Same, Learns
    <3>3. Alone(t)  BY <2>1, <2>3 DEF Alone, Goes
    <3> QED  BY <1>k, <3>2, <3>3, SaveHeldAlone
  <2> QED  BY <1>3, <1>a, <2>2, <2>3, LocalEndsGoes
<1>4. ASSUME NEW t \in Tab, SaveTimer(t) \/ SaveNow(t) \/ Trash(t) PROVE \A u \in Tab : SaveHeld(u)'
  <2>1. PICK l \in {"active", "trashing"} : Open(t) /\ Flush(t, l)
    BY <1>4, <1>a, OpenSession, Fields DEF SaveTimer, SaveNow, Trash, Active
  <2>2. net' = net  BY <1>4 DEF SaveTimer, SaveNow, Trash
  <2>3. PICK v \in Statuses :
          /\ v = IF CanSave(t) THEN "saving" ELSE session[t].status
          /\ Goes(t, session[t].rev, session[t].localGen, v, l, session[t].pending, session[t].recovered)
    BY <1>a, <2>1, FlushGoes
  <2>4. /\ saving'[t] = saving[t] \/ saving'[t] = "draft"
        /\ \A u \in Tab \ {t} : saving'[u] = saving[u]
    BY <1>a, <2>1 DEF Flush
  <2>5. v = session[t].status \/ v = "saving"  BY <2>3
  <2>6. SaveHeld(t)'  BY <1>b, <1>k, <2>2, <2>3, <2>4, <2>5 DEF SaveHeld, Goes, Is, Same, Learns
  <2>7. Alone(t)  BY <2>2, <2>3, <2>4 DEF Alone, Goes
  <2> QED  BY <1>k, <2>6, <2>7, SaveHeldAlone
<1>5. ASSUME NEW t \in Tab, Send(t) PROVE \A u \in Tab : SaveHeld(u)'
  <2>1. Open(t)  BY <1>5, <1>b DEF Send, Own
  <2>2. Goes(t, session[t].rev, session[t].localGen, session[t].status,
              session[t].life, ToSend(t), session[t].recovered)
    BY <1>5, <1>a, <2>1, SendGoes
  <2>3. /\ saving'[t] = "sent" /\ net'[t].req = ToSend(t)
        /\ \A u \in Tab \ {t} : saving'[u] = saving[u] /\ net'[u] = net[u]
    <3>1. net' = [net EXCEPT ![t] = [req |-> ToSend(t), answer |-> "none", rev |-> 0]]
      BY <1>5 DEF Send, Sent, ToSend
    <3>2. ToSend(t) \in Request  BY <1>5, <1>a, <2>1, SendTurns
    <3>3. net'[t].req = ToSend(t) /\ \A u \in Tab \ {t} : net'[u] = net[u]  BY <1>n, <3>1
    <3> QED  BY <1>5, <1>a, <3>3 DEF Send
  <2>4. SaveHeld(t)'  BY <1>b, <1>k, <2>2, <2>3 DEF SaveHeld, Goes, Is, Same, Learns
  <2>5. Alone(t)  BY <2>2, <2>3 DEF Alone, Goes
  <2> QED  BY <1>k, <2>4, <2>5, SaveHeldAlone
<1>6. ASSUME NEW t \in Tab, UploadFails(t) PROVE \A u \in Tab : SaveHeld(u)'
  <2>1. Open(t) /\ "error" \in Statuses /\ net' = net  BY <1>6, <1>b DEF UploadFails, Own, Statuses
  <2>2. saving'[t] = "no" /\ \A u \in Tab \ {t} : saving'[u] = saving[u]  BY <1>6, <1>a DEF UploadFails
  <2>3. Goes(t, session[t].rev, session[t].localGen, "error",
              session[t].life, session[t].pending, session[t].recovered)
    BY <1>6, <1>a, <2>1, StatusGoes DEF UploadFails
  <2>4. SaveHeld(t)'  BY <1>b, <2>2, <2>3 DEF SaveHeld, Goes, Is, Same
  <2>5. Alone(t)  BY <2>1, <2>2, <2>3 DEF Alone, Goes
  <2> QED  BY <1>k, <2>4, <2>5, SaveHeldAlone
<1>7. ASSUME NEW t \in Tab, Serve(t) PROVE \A u \in Tab : SaveHeld(u)'
  <2>1. /\ net[t] # None /\ UNCHANGED <<session, saving>>
        /\ net[t] \in [req : Request, answer : {"none", "ok", "conflict", "refused"}, rev : Nat]
    BY <1>n, <1>7 DEF Serve
  <2> DEFINE a == Verdict(net[t].req)
             n == server'.rev
             x == [net[t] EXCEPT !.answer = a, !.rev = n]
  <2>2. net' = [net EXCEPT ![t] = x]  BY <1>n, <1>7 DEF Serve
  <2> HIDE DEF a, n
  <2>3. x.req = net[t].req  BY <2>1
  <2> HIDE DEF x
  <2>4. net'[t] = x /\ \A u \in Tab \ {t} : net'[u] = net[u]  BY <1>n, <2>2
  <2>5. ASSUME NEW u \in Tab PROVE SaveHeld(u)'
    <3>1. net'[u].req = net[u].req  BY <2>3, <2>4
    <3> QED  BY <1>b, <1>k, <2>1, <3>1 DEF SaveHeld, Open, Learns
  <2> QED  BY <2>5
<1>8. ASSUME NEW t \in Tab, SaveOk(t) PROVE \A u \in Tab : SaveHeld(u)'
  <2>1. /\ Open(t) /\ net[t] # None /\ net[t].answer = "ok" /\ net[t].rev \in Nat
        /\ net[t].req \in Request
    BY <1>8, <1>a, <1>b DEF SaveOk, Answered, Own, NetType
  <2>2. /\ saving[t] = "sent" /\ saving'[t] = "settle"
        /\ \A u \in Tab \ {t} : saving'[u] = saving[u] /\ net'[u] = net[u]
    BY <1>8, <1>a, <1>n DEF SaveOk, Answered
  <2>3. Goes(t, net[t].rev, session[t].localGen, session[t].status,
              session[t].life, session[t].pending, None)
    BY <1>8, <1>a, <2>1, SaveOkGoes
  <2>4. net[t].req = session[t].pending /\ net[t].req.content \subseteq held
    BY <1>b, <2>1, <2>2 DEF SaveHeld, HeldInv, AnswersHeld
  <2>5. session[t].pending # None
    <3>1. net[t].req # None  BY <2>1 DEF NoneAssumption
    <3> QED  BY <2>4, <3>1
  <2>6. SaveHeld(t)'  BY <1>b, <1>k, <2>2, <2>3, <2>4, <2>5 DEF SaveHeld, Goes, Is, Same, Learns
  <2>7. Alone(t)  BY <2>2, <2>3 DEF Alone, Goes
  <2> QED  BY <1>k, <2>6, <2>7, SaveHeldAlone
<1>9. ASSUME NEW t \in Tab, Settle(t) PROVE \A u \in Tab : SaveHeld(u)'
  <2>1. Open(t) /\ saving[t] = "settle" /\ net' = net  BY <1>9, <1>b DEF Settle, Own
  <2>2. saving'[t] = "end" /\ \A u \in Tab \ {t} : saving'[u] = saving[u]  BY <1>9, <1>a DEF Settle
  <2>3. PICK v : /\ v = IF session[t].gen = session[t].pending.gen THEN "saved" ELSE "dirty"
                 /\ Goes(t, session[t].rev, session[t].localGen, v, session[t].life, None,
                         session[t].recovered)
    BY <1>9, <1>a, <2>1, SettleGoes
  <2>4. v = "saved" => session[t].content \subseteq held
    BY <2>1, <2>3, SettledIsHeld
  <2>5. SaveHeld(t)'  BY <1>b, <1>k, <2>2, <2>3, <2>4 DEF SaveHeld, Goes, Is, Same, Learns
  <2>6. Alone(t)  BY <2>1, <2>2, <2>3 DEF Alone, Goes
  <2> QED  BY <1>k, <2>5, <2>6, SaveHeldAlone
<1>10. ASSUME NEW t \in Tab, EndSave(t) PROVE \A u \in Tab : SaveHeld(u)'
  <2>1. Open(t) /\ net' = net  BY <1>10, <1>b DEF EndSave, Own
  <2>2. saving'[t] = "no" /\ \A u \in Tab \ {t} : saving'[u] = saving[u]  BY <1>10, <1>a DEF EndSave
  <2>3. Goes(t, session[t].rev, session[t].localGen,
              session[t].status, session[t].life, session[t].pending, session[t].recovered)
    BY <1>10, <1>a, <2>1, EndSaveGoes
  <2>4. SaveHeld(t)'  BY <1>b, <1>k, <2>2, <2>3 DEF SaveHeld, Goes, Is, Same, Learns
  <2>5. Alone(t)  BY <2>1, <2>2, <2>3 DEF Alone, Goes
  <2> QED  BY <1>k, <2>4, <2>5, SaveHeldAlone
<1>11. ASSUME NEW t \in Tab, SaveFails(t) PROVE \A u \in Tab : SaveHeld(u)'
  <2>1. Open(t) /\ "conflict" \in Statuses  BY <1>11, <1>b DEF SaveFails, Answered, Own, Statuses
  <2>2. saving'[t] = "no" /\ \A u \in Tab \ {t} : saving'[u] = saving[u] /\ net'[u] = net[u]
    BY <1>11, <1>a, <1>n DEF SaveFails
  <2>3. CASE session' = [session EXCEPT ![t].status = "conflict"]
    <3>1. Goes(t, session[t].rev, session[t].localGen, "conflict",
                session[t].life, session[t].pending, session[t].recovered)
      BY <1>a, <2>1, <2>3, StatusGoes
    <3>2. SaveHeld(t)'  BY <1>b, <2>2, <3>1 DEF SaveHeld, Goes, Is, Same
    <3>3. Alone(t)  BY <2>2, <3>1 DEF Alone, Goes
    <3> QED  BY <1>k, <3>2, <3>3, SaveHeldAlone
  <2>4. CASE net[t].answer # "conflict"
    <3>1. PICK cured \in BOOLEAN :
           Goes(t, session[t].rev, session[t].localGen,
                IF cured THEN "dirty" ELSE "error", session[t].life, None, session[t].recovered)
      BY <1>11, <1>a, <2>1, <2>4, RefusedGoes
    <3>2. SaveHeld(t)'  BY <1>b, <2>2, <3>1 DEF SaveHeld, Goes, Is, Same
    <3>3. Alone(t)  BY <2>2, <3>1 DEF Alone, Goes
    <3> QED  BY <1>k, <3>2, <3>3, SaveHeldAlone
  <2> QED  BY <1>11, <2>3, <2>4 DEF SaveFails, Answered
<1>12. ASSUME NEW t \in Tab, Lose(t) PROVE \A u \in Tab : SaveHeld(u)'
  <2>1. Open(t)  BY <1>12, <1>b DEF Lose, Own
  <2>2. saving'[t] = "no" /\ \A u \in Tab \ {t} : saving'[u] = saving[u] /\ net'[u] = net[u]
    BY <1>12, <1>a, <1>n DEF Lose
  <2>3. Goes(t, session[t].rev, session[t].localGen,
              IF saving[t] = "sent" THEN "error" ELSE session[t].status,
              IF saving[t] = "trash" THEN "active" ELSE session[t].life,
              session[t].pending, session[t].recovered)
    BY <1>12, <1>a, <2>1, LoseGoes
  <2>4. SaveHeld(t)'  BY <1>b, <1>k, <2>2, <2>3 DEF SaveHeld, Goes, Is, Same, Learns
  <2>5. Alone(t)  BY <2>2, <2>3 DEF Alone, Goes
  <2> QED  BY <1>k, <2>4, <2>5, SaveHeldAlone
<1>13. ASSUME NEW t \in Tab, TrashFlushed(t) PROVE \A u \in Tab : SaveHeld(u)'
  <2>1. CASE session[t].status = "saved"
    <3>1. /\ saving'[t] = "trash" /\ UNCHANGED session
          /\ \A u \in Tab \ {t} : saving'[u] = saving[u] /\ net'[u] = net[u]
      BY <1>13, <1>a, <1>n, <2>1 DEF TrashFlushed, Sent
    <3>2. SaveHeld(t)'  BY <1>b, <1>k, <3>1 DEF SaveHeld, Open, Learns
    <3>3. Alone(t)  BY <3>1 DEF Alone
    <3> QED  BY <1>k, <3>2, <3>3, SaveHeldAlone
  <2>2. CASE session[t].status # "saved"
    <3>1. /\ Open(t) /\ UNCHANGED <<saving, net>>
          /\ session' = [session EXCEPT ![t].life = "active"]
      BY <1>13, <2>2 DEF TrashFlushed
    <3>2. Goes(t, session[t].rev, session[t].localGen, session[t].status, "active",
               session[t].pending, session[t].recovered)
      BY <1>a, <3>1, LifeGoes
    <3> QED  BY <1>k, <3>1, <3>2, SaveHeldGoes
  <2> QED  BY <2>1, <2>2
<1>14. ASSUME NEW t \in Tab, TrashOk(t) PROVE \A u \in Tab : SaveHeld(u)'
  <2>1. Open(t) /\ net[t].rev \in Nat  BY <1>14, <1>a, <1>b DEF TrashOk, Answered, Own, NetType
  <2>2. saving'[t] = "retire" /\ \A u \in Tab \ {t} : saving'[u] = saving[u] /\ net'[u] = net[u]
    BY <1>14, <1>a, <1>n DEF TrashOk
  <2>3. Goes(t, net[t].rev, session[t].localGen, session[t].status,
              session[t].life, session[t].pending, session[t].recovered)
    BY <1>14, <1>a, <2>1, TrashOkGoes
  <2>4. SaveHeld(t)'  BY <1>b, <1>k, <2>2, <2>3 DEF SaveHeld, Goes, Is, Same, Learns
  <2>5. Alone(t)  BY <2>2, <2>3 DEF Alone, Goes
  <2> QED  BY <1>k, <2>4, <2>5, SaveHeldAlone
<1>15. ASSUME NEW t \in Tab, TrashFails(t) PROVE \A u \in Tab : SaveHeld(u)'
  <2>1. Open(t)  BY <1>15, <1>b DEF TrashFails, Answered, Own
  <2>2. saving'[t] = "no" /\ \A u \in Tab \ {t} : saving'[u] = saving[u] /\ net'[u] = net[u]
    BY <1>15, <1>a, <1>n DEF TrashFails
  <2>3. Goes(t, session[t].rev, session[t].localGen, session[t].status,
              "active", session[t].pending, session[t].recovered)
    BY <1>15, <1>a, <2>1, LifeGoes DEF TrashFails
  <2>4. SaveHeld(t)'  BY <1>b, <1>k, <2>2, <2>3 DEF SaveHeld, Goes, Is, Same, Learns
  <2>5. Alone(t)  BY <2>2, <2>3 DEF Alone, Goes
  <2> QED  BY <1>k, <2>4, <2>5, SaveHeldAlone
<1>16. ASSUME NEW t \in Tab, Retire(t) \/ CopyMade(t) \/ Close(t) PROVE \A u \in Tab : SaveHeld(u)'
  <2>1. /\ session'[t] = None /\ saving'[t] = "no"
        /\ \A u \in Tab \ {t} : session'[u] = session[u] /\ saving'[u] = saving[u] /\ net'[u] = net[u]
    <3>1. CopyMade(t) => saving[t] = "no" /\ UNCHANGED <<saving, net>>  BY <1>b DEF CopyMade, Own
    <3> QED  BY <1>16, <1>a, <1>n, <3>1 DEF Retire, CopyMade, Close, SessionType
  <2>2. SaveHeld(t)'  BY <2>1 DEF SaveHeld, Open
  <2>3. Alone(t)  BY <2>1 DEF Alone
  <2> QED  BY <1>k, <2>2, <2>3, SaveHeldAlone
<1>17. ASSUME NEW t \in Tab, Build(t) PROVE \A u \in Tab : SaveHeld(u)'
  <2>1. opening[t] # None /\ saving[t] = "no" /\ UNCHANGED <<saving, net>>
    BY <1>17, <1>b DEF Build, Own
  <2>2. CASE UNCHANGED session  BY <1>b, <1>k, <2>1, <2>2 DEF SaveHeld, Open, Learns
  <2>3. ASSUME NEW u \in Tab \cup {None}, NEW z, Starts(t, u, z)
        PROVE  \A w \in Tab : SaveHeld(w)'
    <3>1. /\ z.localGen = (IF u = None THEN None ELSE 0) /\ (z.status = "saved" <=> u = None)
      BY <2>1, <2>3, BeginsFields DEF Starts
    <3>2. /\ session'[t] = z /\ z.gen = 0 /\ (u = None => z.content = opening[t].content)
          /\ \A w \in Tab \ {t} : session'[w] = session[w]
      BY <2>3 DEF Starts, BeginsWith, Begins
    <3>3. opening[t].content \subseteq held  BY <2>1 DEF HeldInv, ReadsHeld
    <3>4. SaveHeld(t)'  BY <1>k, <2>1, <3>1, <3>2, <3>3 DEF SaveHeld, Learns
    <3>5. Alone(t)  BY <2>1, <3>2 DEF Alone
    <3> QED  BY <1>k, <3>4, <3>5, SaveHeldAlone
  <2> QED  BY <1>17, <2>2, <2>3, BuildBegins
<1>18. ASSUME UNCHANGED <<session, saving, net>> PROVE \A u \in Tab : SaveHeld(u)'
  BY <1>b, <1>k, <1>18 DEF SaveHeld, Open, Learns
<1>19. ASSUME NEW t \in Tab, LocalFails(t) \/ Fetch(t) PROVE UNCHANGED <<session, saving, net>>
  BY <1>19 DEF LocalFails, Fetch
<1>20. ASSUME NEW r \in stray, ServeStray(r) PROVE UNCHANGED <<session, saving, net>>
  BY <1>20 DEF ServeStray
<1>21. UNCHANGED vars => UNCHANGED <<session, saving, net>>  BY DEF vars
<1> QED
  BY <1>1, <1>2, <1>3, <1>4, <1>5, <1>6, <1>7, <1>8, <1>9, <1>10, <1>11, <1>12, <1>13, <1>14,
     <1>15, <1>16, <1>17, <1>18, <1>19, <1>20, <1>21 DEF Next, Online, Unmount, Aside

LEMMA HeldStep ==
  ASSUME BoardAssumption, NoneAssumption, TypeOK, BoundInv, OwnInv, ClaimInv, HeldInv, [Next]_vars
  PROVE  HeldInv'
<1>1. RestType  BY DEF TypeOK, RestType
<1>2. server'.content \subseteq held'  BY KnownSteps DEF HeldInv
<1>3. ReadsHeld'  BY <1>1, ReadsStayHeld DEF HeldInv
<1>4. AnswersHeld'  BY AnswersStayHeld DEF HeldInv
<1>5. \A r \in Requests' : r.gen = r.id[2]  BY GenerationsStay DEF HeldInv
<1>6. \A t \in Tab : SaveHeld(t)'  BY SaveHeldSteps
<1> QED  BY <1>2, <1>3, <1>4, <1>5, <1>6 DEF HeldInv

-----------------------------------------------------------------------------
(* The sessions of any step *)

\* The session of u says what it said, and has recovered nothing new.
Keeps(u) ==
  Open(u) /\ Same(session[u], session'[u]) /\ session'[u].recovered \in {session[u].recovered, None}

\* Only an edit and the start of a session say anything new.
Closes(u) == Retire(u) \/ CopyMade(u) \/ Close(u)
KeepAll == \A u \in Tab : (Open(u)' => Keeps(u)) /\ (Open(u) => Open(u)' \/ Closes(u))

LEMMA GoesKeeps ==
  ASSUME NEW t \in Tab, NEW r, NEW g, NEW v, NEW l, NEW p, NEW o, Goes(t, r, g, v, l, p, o),
         o = session[t].recovered \/ o = None
  PROVE  KeepAll
<1>1. Keeps(t) /\ Open(t)'  BY DEF Keeps, Goes, Is
<1>2. ASSUME NEW u \in Tab \ {t} PROVE (Open(u)' => Keeps(u)) /\ (Open(u) => Open(u)')
  BY DEF Keeps, Goes, Same
<1> QED  BY <1>1, <1>2 DEF KeepAll

LEMMA SessionMoves ==
  ASSUME BoardAssumption, NoneAssumption, TypeOK, BoundInv, OwnInv, [Next]_vars
  PROVE  \/ KeepAll
         \/ \E t \in Tab : Edits(t)
         \/ \E t \in Tab : opening[t] # None /\ opens' = opens /\ opening'[t] = None
                           /\ \E u \in Tab \cup {None} : \E z : Starts(t, u, z)
<1>a. /\ SessionType /\ local \in [Tab -> Seq(Operation)] /\ net \in NetType
      /\ opening \in [Tab -> [rev : Nat, content : SUBSET Edit] \cup {None}]
  BY DEF TypeOK, SessionType, NetType
<1>b. \A t \in Tab : Own(t)  BY DEF OwnInv
<1>c. session' = session => KeepAll  BY DEF KeepAll, Keeps, Open, Same
<1>1. ASSUME NEW t \in Tab, Change(t) PROVE Edits(t)
  BY <1>1, ChangeEdits
<1>2. ASSUME NEW t \in Tab, Aside(t) PROVE KeepAll
  BY <1>2, <1>a, AsideGoes, GoesKeeps
<1>3. ASSUME NEW t \in Tab, LocalEnds(t) PROVE KeepAll
  <2>1. CASE Goes(t, session[t].rev, Head(local[t]).draft.token[2], session[t].status,
                  session[t].life, session[t].pending, session[t].recovered)
    BY <2>1, GoesKeeps
  <2> QED  BY <1>3, <1>a, <1>c, <2>1, LocalEndsGoes
<1>4. ASSUME NEW t \in Tab, SaveTimer(t) \/ SaveNow(t) \/ Trash(t) PROVE KeepAll
  <2>1. PICK l \in {"active", "trashing"} : Open(t) /\ Flush(t, l)
    BY <1>4, <1>a, OpenSession, Fields DEF SaveTimer, SaveNow, Trash, Active
  <2>2. PICK v \in Statuses :
          Goes(t, session[t].rev, session[t].localGen, v, l, session[t].pending, session[t].recovered)
    BY <1>a, <2>1, FlushGoes
  <2> QED  BY <2>2, GoesKeeps
<1>5. ASSUME NEW t \in Tab, Send(t) PROVE KeepAll
  <2>1. Open(t)  BY <1>5, <1>b DEF Send, Own
  <2>2. Goes(t, session[t].rev, session[t].localGen, session[t].status,
              session[t].life, ToSend(t), session[t].recovered)
    BY <1>5, <1>a, <2>1, SendGoes
  <2> QED  BY <2>2, GoesKeeps
<1>6. ASSUME NEW t \in Tab, UploadFails(t) PROVE KeepAll
  <2>1. Open(t) /\ "error" \in Statuses  BY <1>6, <1>b DEF UploadFails, Own, Statuses
  <2>2. Goes(t, session[t].rev, session[t].localGen, "error",
              session[t].life, session[t].pending, session[t].recovered)
    BY <1>6, <1>a, <2>1, StatusGoes DEF UploadFails
  <2> QED  BY <2>2, GoesKeeps
<1>7. ASSUME NEW t \in Tab, SaveOk(t) PROVE KeepAll
  <2>1. Open(t) /\ net[t].rev \in Nat  BY <1>7, <1>a, <1>b DEF SaveOk, Answered, Own, NetType
  <2>2. Goes(t, net[t].rev, session[t].localGen, session[t].status,
              session[t].life, session[t].pending, None)
    BY <1>7, <1>a, <2>1, SaveOkGoes
  <2> QED  BY <2>2, GoesKeeps
<1>8. ASSUME NEW t \in Tab, Settle(t) PROVE KeepAll
  <2>1. Open(t)  BY <1>8, <1>b DEF Settle, Own
  <2>2. Goes(t, session[t].rev, session[t].localGen,
              IF session[t].gen = session[t].pending.gen THEN "saved" ELSE "dirty",
              session[t].life, None, session[t].recovered)
    BY <1>8, <1>a, <2>1, SettleGoes
  <2> QED  BY <2>2, GoesKeeps
<1>9. ASSUME NEW t \in Tab, EndSave(t) PROVE KeepAll
  <2>1. Open(t)  BY <1>9, <1>b DEF EndSave, Own
  <2>2. Goes(t, session[t].rev, session[t].localGen,
              session[t].status, session[t].life, session[t].pending, session[t].recovered)
    BY <1>9, <1>a, <2>1, EndSaveGoes
  <2> QED  BY <2>2, GoesKeeps
<1>10. ASSUME NEW t \in Tab, SaveFails(t) PROVE KeepAll
  <2>1. Open(t) /\ "conflict" \in Statuses  BY <1>10, <1>b DEF SaveFails, Answered, Own, Statuses
  <2>2. CASE session' = [session EXCEPT ![t].status = "conflict"]
    <3>1. Goes(t, session[t].rev, session[t].localGen, "conflict",
                session[t].life, session[t].pending, session[t].recovered)
      BY <1>a, <2>1, <2>2, StatusGoes
    <3> QED  BY <3>1, GoesKeeps
  <2>3. CASE net[t].answer # "conflict"
    <3>1. PICK cured \in BOOLEAN :
           Goes(t, session[t].rev, session[t].localGen,
                IF cured THEN "dirty" ELSE "error", session[t].life, None, session[t].recovered)
      BY <1>10, <1>a, <2>1, <2>3, RefusedGoes
    <3> QED  BY <3>1, GoesKeeps
  <2> QED  BY <1>10, <2>2, <2>3 DEF SaveFails, Answered
<1>11. ASSUME NEW t \in Tab, Lose(t) PROVE KeepAll
  <2>1. Open(t)  BY <1>11, <1>b DEF Lose, Own
  <2>2. Goes(t, session[t].rev, session[t].localGen,
              IF saving[t] = "sent" THEN "error" ELSE session[t].status,
              IF saving[t] = "trash" THEN "active" ELSE session[t].life,
              session[t].pending, session[t].recovered)
    BY <1>11, <1>a, <2>1, LoseGoes
  <2> QED  BY <2>2, GoesKeeps
<1>12. ASSUME NEW t \in Tab, TrashFlushed(t) \/ TrashFails(t) PROVE KeepAll
  <2>1. Open(t) /\ (session' = session \/ session' = [session EXCEPT ![t].life = "active"])
    BY <1>12, <1>b DEF TrashFlushed, TrashFails, Answered, Own
  <2>2. CASE session' = [session EXCEPT ![t].life = "active"]
    <3>1. Goes(t, session[t].rev, session[t].localGen, session[t].status, "active",
               session[t].pending, session[t].recovered)
      BY <1>a, <2>1, <2>2, LifeGoes
    <3> QED  BY <3>1, GoesKeeps
  <2> QED  BY <1>c, <2>1, <2>2
<1>13. ASSUME NEW t \in Tab, TrashOk(t) PROVE KeepAll
  <2>1. Open(t) /\ net[t].rev \in Nat  BY <1>13, <1>a, <1>b DEF TrashOk, Answered, Own, NetType
  <2>2. Goes(t, net[t].rev, session[t].localGen, session[t].status,
              session[t].life, session[t].pending, session[t].recovered)
    BY <1>13, <1>a, <2>1, TrashOkGoes
  <2> QED  BY <2>2, GoesKeeps
<1>14. ASSUME NEW t \in Tab, Retire(t) \/ CopyMade(t) \/ Close(t) PROVE KeepAll
  <2>1. session'[t] = None /\ \A u \in Tab \ {t} : session'[u] = session[u]
    BY <1>14, <1>a DEF Retire, CopyMade, Close, SessionType
  <2> QED  BY <1>14, <2>1 DEF KeepAll, Keeps, Open, Same, Closes
<1>15. ASSUME NEW t \in Tab, Build(t)
      PROVE  \/ KeepAll
             \/ opening[t] # None /\ opens' = opens /\ opening'[t] = None
                /\ \E u \in Tab \cup {None} : \E z : Starts(t, u, z)
  <2>1. opening[t] # None /\ opens' = opens /\ opening'[t] = None  BY <1>15, <1>a DEF Build, counters
  <2> QED  BY <1>15, <1>c, <2>1, BuildBegins
<1>16. ASSUME NEW t \in Tab, LocalFails(t) \/ Serve(t) \/ Fetch(t) PROVE session' = session
  BY <1>16 DEF LocalFails, Serve, Fetch
<1>17. ASSUME NEW r \in stray, ServeStray(r) PROVE session' = session  BY <1>17 DEF ServeStray
<1>18. UNCHANGED vars => session' = session  BY DEF vars
<1> QED
  BY <1>c, <1>1, <1>2, <1>3, <1>4, <1>5, <1>6, <1>7, <1>8, <1>9, <1>10, <1>11, <1>12, <1>13,
     <1>14, <1>15, <1>16, <1>17, <1>18 DEF Next, Online, Unmount, Aside

-----------------------------------------------------------------------------
(* The tokens *)

\* The session that begins has an id of its own.
LEMMA StartIsNew ==
  ASSUME BoardAssumption, NoneAssumption, TypeOK, BoundInv, NEW t \in Tab, opening[t] # None,
         NEW c, Bounded(c), c.id \in SessionId
  PROVE  c.id # <<t, opens>>
<1>1. c.id # None  BY DEF NoneAssumption
<1>2. opens \in Nat /\ c.id[2] \in Nat  BY DEF TypeOK, SessionId
<1>3. SUFFICES ASSUME c.id = <<t, opens>> PROVE FALSE  OBVIOUS
<1>4. c.id[1] = t /\ c.id[2] = opens  BY <1>3
<1>5. c.id[2] < opens  BY <1>1, <1>4 DEF Bounded
<1> QED  BY <1>2, <1>4, <1>5

\* A token that was bounded stays so, and nothing new is said of it.
LEMMA TokenBound ==
  ASSUME BoardAssumption, NoneAssumption, TypeOK, BoundInv, OwnInv, [Next]_vars,
         NEW k \in Token, BoundedToken(k), NEW t \in Tab, Open(t)', session'[t].id = k[1]
  PROVE  k[2] <= session'[t].gen /\ (session'[t].gen = k[2] => Keeps(t))
<1>0. PICK c : c = ClaimOf(k[1], k[2], {})  OBVIOUS
<1>1. c.id = k[1] /\ c.gen = k[2] /\ Bounded(c) /\ k[1] \in SessionId /\ k[2] \in Nat
  BY <1>0, ClaimFields DEF BoundedToken, Token
<1>2. c.id # None  BY <1>1 DEF NoneAssumption
<1>3. \A u \in Tab : Open(u) /\ session[u].id = k[1] => k[2] <= session[u].gen
  BY <1>1, <1>2 DEF Bounded
<1>4. CASE Keeps(t)  BY <1>3, <1>4 DEF Keeps, Same
<1>5. ASSUME NEW u \in Tab, Edits(u) PROVE k[2] <= session'[t].gen /\ (session'[t].gen = k[2] => Keeps(t))
  <2>1. CASE u = t
    <3>1. session[t].gen \in Nat /\ session'[t].gen = session[t].gen + 1 /\ k[2] <= session[t].gen
      BY <1>3, <1>5, <2>1, Fields DEF Edits, EditOf
    <3> QED  BY <1>1, <3>1
  <2>2. CASE u # t
    <3>1. session'[t] = session[t] /\ Open(t)  BY <1>5, <2>2 DEF Edits, EditOf
    <3>2. Keeps(t)  BY <3>1 DEF Keeps, Same
    <3> QED  BY <1>4, <3>2
  <2> QED  BY <2>1, <2>2
<1>6. ASSUME NEW u \in Tab, NEW w \in Tab \cup {None}, NEW z, opening[u] # None, Starts(u, w, z)
      PROVE  Keeps(t)
  <2>1. CASE u = t
    <3>1. session'[t].id = <<t, opens>>  BY <1>6, <2>1 DEF Starts, BeginsWith, Begins
    <3> QED  BY <1>1, <1>6, <2>1, <3>1, StartIsNew
  <2>2. CASE u # t
    <3>1. session'[t] = session[t] /\ Open(t)  BY <1>6, <2>2 DEF Starts, BeginsWith
    <3> QED  BY <3>1 DEF Keeps, Same
  <2> QED  BY <2>1, <2>2
<1> QED  BY <1>4, <1>5, <1>6, SessionMoves DEF KeepAll

LEMMA TokenStays ==
  ASSUME BoardAssumption, NoneAssumption, TypeOK, BoundInv, OwnInv, [Next]_vars,
         NEW k \in Token, BoundedToken(k)
  PROVE  BoundedToken(k)'
<1>0. PICK c : c = ClaimOf(k[1], k[2], {})  OBVIOUS
<1>1. c.id = k[1] /\ c.gen = k[2] /\ Bounded(c) /\ k[1] \in SessionId
  BY <1>0, ClaimFields DEF BoundedToken, Token
<1>2. RestType  BY DEF TypeOK, RestType
<1>3. \A t \in Tab : Open(t)' /\ session'[t].id = c.id => c.gen <= session'[t].gen
  BY <1>1, TokenBound
<1>4. Bounded(c)'  BY <1>1, <1>2, <1>3, BoundedKept
<1> QED  BY <1>0, <1>4 DEF BoundedToken

LEMMA TokenSaysNoMore ==
  ASSUME BoardAssumption, NoneAssumption, TypeOK, BoundInv, OwnInv, [Next]_vars,
         NEW k \in Token, BoundedToken(k), NEW c \in Claims', c.id = k[1], c.gen = k[2]
  PROVE  c \in Claims
<1>1. ASSUME NEW t \in Tab, Open(t)', c = SessionClaim(t)' PROVE c \in Claims
  <2>1. session'[t].id = k[1] /\ session'[t].gen = k[2]  BY <1>1, ClaimFields DEF SessionClaim
  <2>2. Keeps(t)  BY <1>1, <2>1, TokenBound
  <2> QED  BY <1>1, <2>2, SameClaim DEF Keeps
<1> QED  BY <1>1, ClaimSteps

\* What may be cleared: what the token stands for is known.
KnownToken(k, knows) ==
  /\ k \in Token /\ BoundedToken(k)
  /\ \A c \in Claims : c.id = k[1] /\ c.gen = k[2] => c.content \subseteq knows

LEMMA ClaimIsToken ==
  ASSUME ClaimInv, NEW c \in Claims, NEW k, c.id = k[1], c.gen = k[2]
  PROVE  BoundedToken(k)
<1>1. PICK x : x = ClaimOf(k[1], k[2], {})  OBVIOUS
<1>2. x.id = c.id /\ x.gen = c.gen  BY <1>1, ClaimFields
<1>3. Bounded(c)  BY DEF ClaimInv
<1>4. Bounded(x)  BY <1>2, <1>3 DEF Bounded
<1> QED  BY <1>1, <1>4 DEF BoundedToken

LEMMA ClaimIsKnown ==
  ASSUME TypeOK, ClaimInv, NEW c \in Claims, NEW k \in Token, NEW knows,
         c.id = k[1], c.gen = k[2], c.content \subseteq knows
  PROVE  KnownToken(k, knows)
<1>1. BoundedToken(k)  BY ClaimIsToken
<1>2. ASSUME NEW d \in Claims, d.id = k[1], d.gen = k[2] PROVE d.content \subseteq knows
  BY <1>2, SaidOnce
<1> QED  BY <1>1, <1>2 DEF KnownToken

\* The token of a session whose content is known, and of a draft.
LEMMA SessionIsKnown ==
  ASSUME BoardAssumption, TypeOK, ClaimInv, NEW t \in Tab, Open(t), NEW knows, session[t].content \subseteq knows
  PROVE  KnownToken(TokenOf(t), knows)
<1>0. SessionType /\ 0 \in Nat  BY DEF TypeOK, SessionType
<1>1. TokenOf(t) \in Token  BY <1>0, Made
<1>2. PICK c : c = SessionClaim(t)  OBVIOUS
<1>3. c \in Claims  BY <1>2, InClaims
<1>4. c.id = session[t].id /\ c.gen = session[t].gen /\ c.content = session[t].content
  BY <1>2, ClaimFields DEF SessionClaim
<1>5. TokenOf(t)[1] = c.id /\ TokenOf(t)[2] = c.gen  BY <1>4 DEF TokenOf
<1> QED  BY <1>1, <1>3, <1>4, <1>5, ClaimIsKnown

LEMMA DraftIsKnown ==
  ASSUME TypeOK, ClaimInv, NEW d \in Drafts, NEW knows, d.content \subseteq knows
  PROVE  KnownToken(d.token, knows)
<1>1. d.token \in Token  BY InDrafts DEF Draft
<1>2. PICK c : c = DraftClaim(d)  OBVIOUS
<1>3. c \in Claims  BY <1>2, InClaims
<1>4. c.id = d.token[1] /\ c.gen = d.token[2] /\ c.content = d.content
  BY <1>2, ClaimFields DEF DraftClaim
<1> QED  BY <1>1, <1>3, <1>4, ClaimIsKnown

\* A draft that was recovered may be cleared when something that the session said is known.
LEMMA RecoveredIsKnown ==
  ASSUME TypeOK, NEW t \in Tab, Open(t), session[t].recovered # None, Recovers(t),
         NEW d \in Claims, d.id = session[t].id, NEW knows, Known \subseteq knows, d.content \subseteq knows
  PROVE  KnownToken(session[t].recovered[2], knows)
<1>0. SessionType  BY DEF TypeOK, SessionType
<1>1. session[t].recovered[2] \in Token  BY <1>0, OpenSession, Fields
<1>2. PICK k : k = session[t].recovered[2]  OBVIOUS
<1>3. BoundedToken(k) /\ \A c \in Claims : c.id = k[1] /\ c.gen = k[2] => c.content \subseteq d.content \cup Known
  BY <1>2 DEF Recovers
<1>4. KnownToken(k, knows)  BY <1>1, <1>2, <1>3 DEF KnownToken
<1> QED  BY <1>2, <1>4

\* What a step begins in the store.
Adds(t, x) == x \in Operation /\ local' = [local EXCEPT ![t] = Append(local[t], x)]
PutsOwn(t, x) == Open(t) /\ x.op = "put" /\ x.key = t /\ x.draft = DraftOf(t)
ClearsKnown(x) == x.op = "clear" /\ KnownToken(x.token, Known')
Leaving(t) ==
  \E x : /\ x \in Operation /\ ClearsKnown(x)
         /\ \E w \in Operation : /\ w.op = "wipe" /\ w.key = t
              /\ local' = [local EXCEPT ![t] = Append(Append(local[t], x), w)]

LEMMA PutAdds ==
  ASSUME BoardAssumption, TypeOK, NEW t \in Tab, Open(t), NEW a \in BOOLEAN, local' = PersistDraft(t, a)
  PROVE  \E x : Adds(t, x) /\ PutsOwn(t, x)
<1>0. SessionType /\ 0 \in Nat  BY DEF TypeOK, SessionType
<1>1. PICK d : d = DraftOf(t)  OBVIOUS
<1>2. d \in Draft  BY <1>0, <1>1, Made
<1>3. PICK x : x = [op |-> "put", key |-> t, draft |-> d, awaited |-> a]  OBVIOUS
<1>4. x \in Operation /\ x.op = "put" /\ x.key = t /\ x.draft = d  BY <1>2, <1>3 DEF Operation
<1>5. local' = [local EXCEPT ![t] = Append(local[t], x)]  BY <1>1, <1>3 DEF PersistDraft
<1> QED  BY <1>1, <1>4, <1>5 DEF Adds, PutsOwn

LEMMA ClearAdds ==
  ASSUME NEW t \in Tab, NEW key \in Tab, NEW k, KnownToken(k, Known'), NEW a \in BOOLEAN,
         local' = ClearDraft(t, key, k, a)
  PROVE  \E x : Adds(t, x) /\ ClearsKnown(x)
<1>1. PICK x : x = [op |-> "clear", key |-> key, token |-> k, awaited |-> a]  OBVIOUS
<1>2. k \in Token  BY DEF KnownToken
<1>3. x \in Operation /\ x.op = "clear" /\ x.token = k  BY <1>1, <1>2 DEF Operation
<1>4. local' = [local EXCEPT ![t] = Append(local[t], x)]  BY <1>1 DEF ClearDraft
<1> QED  BY <1>3, <1>4 DEF Adds, ClearsKnown

\* What is discarded is in the copy, or was made while the copy was.
LEMMA CopyMadeKnows ==
  ASSUME NEW t \in Tab, CopyMade(t)
  PROVE  session[t].content \subseteq Known'
<1>1. PICK copy \in session[t].copies :
        held' = held \cup copy /\ outrun' = outrun \cup (session[t].content \ copy)
  BY DEF CopyMade
<1> QED  BY <1>1 DEF Known

LEMMA CopyMadeAdds ==
  ASSUME TypeOK, NEW t \in Tab, CopyMade(t),
         session[t].recovered # None => KnownToken(session[t].recovered[2], Known')
  PROVE  \/ Leaving(t)
         \/ \E w : Adds(t, w) /\ w.op = "wipe" /\ w.key = t
<1>0. SessionType /\ local \in [Tab -> Seq(Operation)]  BY DEF TypeOK, SessionType
<1>1. Open(t) /\ session[t].recovered \in (Tab \X Token) \cup {None}
  BY <1>0, OpenSession, Fields DEF CopyMade
<1>2. PICK w : w = [op |-> "wipe", key |-> t, awaited |-> FALSE]  OBVIOUS
<1>3. w \in Operation /\ w.op = "wipe" /\ w.key = t  BY <1>2 DEF Operation
<1>4. local[t] \in Seq(Operation)  BY <1>0
<1>5. CASE session[t].recovered = None
  <2>1. local' = [local EXCEPT ![t] = local[t] \o <<>> \o <<w>>]  BY <1>2, <1>5 DEF CopyMade
  <2>2. local[t] \o <<>> \o <<w>> = Append(local[t], w)  BY <1>3, <1>4, ConcatEmptySeq, AppendIsConcat
  <2>3. local' = [local EXCEPT ![t] = Append(local[t], w)]  BY <2>1, <2>2
  <2> QED  BY <1>3, <2>3 DEF Adds
<1>6. CASE session[t].recovered # None
  <2>1. PICK x : x = [op |-> "clear", key |-> session[t].recovered[1],
                      token |-> session[t].recovered[2], awaited |-> FALSE]
    OBVIOUS
  <2>2. session[t].recovered[1] \in Tab /\ session[t].recovered[2] \in Token  BY <1>1, <1>6
  <2>3. x \in Operation /\ x.op = "clear" /\ x.token = session[t].recovered[2]
    BY <2>1, <2>2 DEF Operation
  <2>4. local' = [local EXCEPT ![t] = local[t] \o <<x>> \o <<w>>]  BY <1>2, <1>6, <2>1 DEF CopyMade
  <2>5. Append(local[t], x) = local[t] \o <<x>> /\ Append(local[t], x) \in Seq(Operation)
    BY <1>4, <2>3, AppendIsConcat, AppendProperties
  <2>6. local[t] \o <<x>> \o <<w>> = Append(Append(local[t], x), w)
    BY <1>3, <2>5, AppendIsConcat
  <2>7. ClearsKnown(x)  BY <1>6, <2>3 DEF ClearsKnown
  <2>8. local' = [local EXCEPT ![t] = Append(Append(local[t], x), w)]  BY <2>4, <2>6
  <2> QED  BY <1>3, <2>3, <2>7, <2>8 DEF Leaving
<1> QED  BY <1>5, <1>6

\* What a step does with the operations of a tab.
LocalStep(t) ==
  \/ LocalEnds(t) \/ LocalFails(t) \/ Close(t)
  \/ \E x : Adds(t, x) /\ (PutsOwn(t, x) \/ ClearsKnown(x))
  \/ CopyMade(t) /\ (Leaving(t) \/ \E w : Adds(t, w) /\ w.op = "wipe" /\ w.key = t)

LEMMA LocalSteps ==
  ASSUME BoardAssumption, NoneAssumption, TypeOK, BoundInv, OwnInv, ClaimInv, ScheduleInv, HeldInv,
         TokenInv, [Next]_vars
  PROVE  local' = local \/ \E t \in Tab : LocalStep(t)
<1>a. /\ SessionType /\ local \in [Tab -> Seq(Operation)] /\ net \in NetType
      /\ drafts \in [Tab -> Draft \cup {None}]
  BY DEF TypeOK, SessionType, NetType
<1>b. \A t \in Tab : Own(t) /\ Scheduled(t) /\ SaveHeld(t) /\ Recovers(t)
  BY DEF OwnInv, ScheduleInv, HeldInv, TokenInv
<1>k. Known \subseteq Known' /\ held \subseteq Known /\ held \subseteq Known'
  BY KnownSteps DEF HeldInv, Known, Learns
<1>1. ASSUME NEW t \in Tab, Change(t) \/ Send(t) \/ UploadFails(t) \/ Serve(t) \/ EndSave(t)
                            \/ SaveFails(t) \/ Lose(t)
      PROVE  local' = local
  BY <1>1 DEF Change, Send, UploadFails, Serve, EndSave, SaveFails, Lose
<1>2. ASSUME NEW t \in Tab, TrashFlushed(t) \/ TrashFails(t) \/ Retire(t) \/ Fetch(t)
                            \/ Copy(t) \/ CopyFails(t)
      PROVE  local' = local
  BY <1>2 DEF TrashFlushed, TrashFails, Retire, Fetch, Copy, CopyFails
<1>3. ASSUME NEW t \in Tab, DraftTimer(t) \/ KeepDraft(t) PROVE local' = local \/ LocalStep(t)
  <2>1. Open(t) /\ local' \in {local, PersistDraft(t, FALSE)}  BY <1>3 DEF DraftTimer, KeepDraft
  <2>2. ASSUME local' = PersistDraft(t, FALSE) PROVE \E x : Adds(t, x) /\ PutsOwn(t, x)
    BY <2>1, <2>2, PutAdds
  <2> QED  BY <2>1, <2>2 DEF LocalStep
<1>4. ASSUME NEW t \in Tab, SaveTimer(t) \/ SaveNow(t) \/ Trash(t) PROVE local' = local \/ LocalStep(t)
  <2>1. Open(t) /\ \E l \in {"active", "trashing"} : Flush(t, l)
    BY <1>4, <1>a, OpenSession, Fields DEF SaveTimer, SaveNow, Trash, Active
  <2>2. local' \in {local, PersistDraft(t, TRUE)}  BY <2>1 DEF Flush
  <2>3. ASSUME local' = PersistDraft(t, TRUE) PROVE \E x : Adds(t, x) /\ PutsOwn(t, x)
    BY <2>1, <2>3, PutAdds
  <2> QED  BY <2>2, <2>3 DEF LocalStep
<1>5. ASSUME NEW t \in Tab, NEW key \in Tab, NEW k, KnownToken(k, Known'), NEW a \in BOOLEAN,
             local' = ClearDraft(t, key, k, a)
      PROVE  LocalStep(t)
  BY <1>5, ClearAdds DEF LocalStep
<1>6. ASSUME NEW t \in Tab, SaveOk(t) PROVE local' = local \/ LocalStep(t)
  <2>1. /\ Open(t) /\ net[t] # None /\ net[t].answer = "ok"
        /\ session[t].recovered \in (Tab \X Token) \cup {None}
    BY <1>6, <1>a, <1>b, OpenSession, Fields DEF SaveOk, Answered, Own
  <2>2. PICK r : r = net[t].req  OBVIOUS
  <2>3. r \in Requests /\ r.content \subseteq held /\ r.id[1] = session[t].id
    BY <1>b, <2>1, <2>2, NetRequests DEF HeldInv, AnswersHeld, Own
  <2>4. PICK d : d = RequestClaim(r)  OBVIOUS
  <2>5. d \in Claims /\ d.id = session[t].id /\ d.content = r.content
    BY <2>3, <2>4, InClaims, ClaimFields DEF RequestClaim
  <2>6. CASE session[t].recovered # None
    <3>1. Recovers(t) /\ d.content \subseteq Known'  BY <1>b, <1>k, <2>3, <2>5
    <3>2. KnownToken(session[t].recovered[2], Known')
      BY <1>k, <2>1, <2>5, <2>6, <3>1, RecoveredIsKnown
    <3>3. session[t].recovered[1] \in Tab  BY <2>1, <2>6
    <3>4. local' = ClearDraft(t, session[t].recovered[1], session[t].recovered[2], TRUE)
      BY <1>6, <2>6 DEF SaveOk
    <3> QED  BY <1>5, <3>2, <3>3, <3>4
  <2> QED  BY <1>6, <2>6 DEF SaveOk
<1>7. ASSUME NEW t \in Tab, Settle(t) PROVE LocalStep(t)
  <2>1. Open(t) /\ saving[t] = "settle"  BY <1>7, <1>b DEF Settle, Own
  <2>2. CASE session[t].gen = session[t].pending.gen
    <3>1. session[t].content \subseteq Known'  BY <1>k, <2>1, <2>2, SettledIsHeld
    <3>2. KnownToken(TokenOf(t), Known')  BY <2>1, <3>1, SessionIsKnown
    <3>3. local' = ClearDraft(t, t, TokenOf(t), TRUE)  BY <1>7, <2>2 DEF Settle
    <3> QED  BY <1>5, <3>2, <3>3
  <2>3. CASE session[t].gen # session[t].pending.gen
    <3>1. local' = PersistDraft(t, TRUE)  BY <1>7, <2>3 DEF Settle
    <3> QED  BY <2>1, <3>1, PutAdds DEF LocalStep
  <2> QED  BY <2>2, <2>3
<1>8. ASSUME NEW t \in Tab, TrashOk(t) PROVE LocalStep(t)
  <2>1. Open(t) /\ saving[t] = "trash"  BY <1>8, <1>b DEF TrashOk, Answered, Own
  <2>2. session[t].status = "saved"  BY <1>b, <2>1 DEF Scheduled
  <2>3. session[t].content \subseteq Known'  BY <1>b, <1>k, <2>1, <2>2 DEF SaveHeld
  <2>4. KnownToken(TokenOf(t), Known')  BY <2>1, <2>3, SessionIsKnown
  <2>5. local' = ClearDraft(t, t, TokenOf(t), TRUE)  BY <1>8 DEF TrashOk
  <2> QED  BY <1>5, <2>4, <2>5
<1>9. ASSUME NEW t \in Tab, Build(t) PROVE local' = local \/ LocalStep(t)
  <2>1. opening[t] # None
        /\ (local' = local \/ \E key \in Tab : /\ drafts[key] # None
                                /\ drafts[key].content = opening[t].content
                                /\ local' = ClearDraft(t, key, drafts[key].token, FALSE))
    BY <1>9 DEF Build, Candidates
  <2>2. ASSUME NEW key \in Tab, drafts[key] # None, drafts[key].content = opening[t].content,
               local' = ClearDraft(t, key, drafts[key].token, FALSE)
        PROVE  LocalStep(t)
    <3>1. drafts[key] \in Drafts  BY <2>2, InDrafts
    <3>2. drafts[key].content \subseteq Known'  BY <1>k, <2>1, <2>2 DEF HeldInv, ReadsHeld
    <3>3. KnownToken(drafts[key].token, Known')  BY <3>1, <3>2, DraftIsKnown
    <3> QED  BY <1>5, <2>2, <3>3
  <2> QED  BY <2>1, <2>2
<1>10. ASSUME NEW t \in Tab, CopyMade(t) PROVE LocalStep(t)
  <2>1. Open(t) /\ Recovers(t) /\ session[t].content \subseteq Known'
    BY <1>10, <1>b, CopyMadeKnows DEF CopyMade
  <2>2. PICK d : d = SessionClaim(t)  OBVIOUS
  <2>3. d \in Claims /\ d.id = session[t].id /\ d.content = session[t].content
    BY <2>1, <2>2, InClaims, ClaimFields DEF SessionClaim
  <2>4. d.content \subseteq Known'  BY <2>1, <2>3
  <2>5. session[t].recovered # None => KnownToken(session[t].recovered[2], Known')
    BY <1>k, <2>1, <2>3, <2>4, RecoveredIsKnown
  <2> QED  BY <1>10, <2>5, CopyMadeAdds DEF LocalStep
<1>11. ASSUME NEW t \in Tab, LocalEnds(t) \/ LocalFails(t) \/ Close(t) PROVE LocalStep(t)
  BY <1>11 DEF LocalStep
<1>12. ASSUME NEW r \in stray, ServeStray(r) PROVE local' = local  BY <1>12 DEF ServeStray
<1>13. UNCHANGED vars => local' = local  BY DEF vars
<1> QED
  BY <1>1, <1>2, <1>3, <1>4, <1>6, <1>7, <1>8, <1>9, <1>10, <1>11, <1>12, <1>13 DEF Next, Online, Unmount

\* What a token stands for stays known.
LEMMA KnownTokenStays ==
  ASSUME BoardAssumption, NoneAssumption, TypeOK, BoundInv, OwnInv, [Next]_vars,
         NEW k, KnownToken(k, Known')
  PROVE  /\ BoundedToken(k)'
         /\ \A c \in Claims' : c.id = k[1] /\ c.gen = k[2] => c.content \subseteq Known'
<1>1. k \in Token /\ BoundedToken(k)  BY DEF KnownToken
<1>2. BoundedToken(k)'  BY <1>1, TokenStays
<1>3. ASSUME NEW c \in Claims', c.id = k[1], c.gen = k[2] PROVE c.content \subseteq Known'
  <2>1. c \in Claims  BY <1>1, <1>3, TokenSaysNoMore
  <2> QED  BY <1>3, <2>1 DEF KnownToken
<1> QED  BY <1>2, <1>3

\* A clear was begun, or is known.
OldClears(s, q) ==
  \A i \in DOMAIN q :
    q[i].op = "clear" => (\E j \in DOMAIN s : s[j] = q[i]) \/ KnownToken(q[i].token, Known')

LEMMA AppendClears ==
  ASSUME NEW s \in Seq(Operation), NEW q \in Seq(Operation), NEW x \in Operation, OldClears(s, q),
         x.op = "clear" => KnownToken(x.token, Known')
  PROVE  OldClears(s, Append(q, x)) /\ Append(q, x) \in Seq(Operation)
<1>1. \A i \in DOMAIN Append(q, x) :
        (i \in DOMAIN q /\ Append(q, x)[i] = q[i]) \/ Append(q, x)[i] = x
  BY AppendProperties, LenProperties
<1>2. Append(q, x) \in Seq(Operation)  BY AppendProperties
<1> QED  BY <1>1, <1>2 DEF OldClears

LEMMA ClearSteps ==
  ASSUME BoardAssumption, NoneAssumption, TypeOK, BoundInv, OwnInv, ClaimInv, ScheduleInv, HeldInv,
         TokenInv, [Next]_vars, NEW u \in Tab
  PROVE  OldClears(local[u], local'[u])
<1>0. local \in [Tab -> Seq(Operation)] /\ local[u] \in Seq(Operation)  BY DEF TypeOK
<1>s. OldClears(local[u], local[u])  BY DEF OldClears
<1>1. CASE local'[u] = local[u]  BY <1>s, <1>1
<1>2. ASSUME LocalEnds(u) \/ LocalFails(u) PROVE OldClears(local[u], local'[u])
  <2>1. local[u] # <<>> /\ local'[u] = Tail(local[u])  BY <1>0, <1>2 DEF LocalEnds, LocalFails
  <2>2. \A i \in DOMAIN Tail(local[u]) : i + 1 \in DOMAIN local[u] /\ Tail(local[u])[i] = local[u][i + 1]
    BY <1>0, <2>1, Operations
  <2> QED  BY <2>1, <2>2 DEF OldClears
<1>3. ASSUME Close(u) PROVE OldClears(local[u], local'[u])
  <2>1. local'[u] = <<>>  BY <1>0, <1>3 DEF Close
  <2> QED  BY <2>1 DEF OldClears
<1>4. ASSUME NEW x, Adds(u, x), x.op = "clear" => KnownToken(x.token, Known')
      PROVE  OldClears(local[u], local'[u])
  <2>1. x \in Operation /\ local'[u] = Append(local[u], x)  BY <1>0, <1>4 DEF Adds
  <2>2. OldClears(local[u], Append(local[u], x))  BY <1>0, <1>s, <1>4, <2>1, AppendClears
  <2> QED  BY <2>1, <2>2
<1>5. ASSUME Leaving(u) PROVE OldClears(local[u], local'[u])
  <2>1. PICK x : /\ x \in Operation /\ ClearsKnown(x)
                 /\ \E w \in Operation : /\ w.op = "wipe" /\ w.key = u
                      /\ local' = [local EXCEPT ![u] = Append(Append(local[u], x), w)]
    BY <1>5 DEF Leaving
  <2>2. PICK w \in Operation : w.op = "wipe" /\ local' = [local EXCEPT ![u] = Append(Append(local[u], x), w)]
    BY <2>1
  <2>3. OldClears(local[u], Append(local[u], x)) /\ Append(local[u], x) \in Seq(Operation)
    BY <1>0, <1>s, <2>1, AppendClears DEF ClearsKnown
  <2>4. OldClears(local[u], Append(Append(local[u], x), w))  BY <1>0, <2>2, <2>3, AppendClears
  <2>5. local'[u] = Append(Append(local[u], x), w)  BY <1>0, <2>2
  <2> QED  BY <2>4, <2>5
<1>6. ASSUME NEW t \in Tab, t # u, LocalStep(t) PROVE local'[u] = local[u]
  BY <1>0, <1>6 DEF LocalStep, LocalEnds, LocalFails, Close, Adds, Leaving
<1>7. ASSUME LocalStep(u) PROVE OldClears(local[u], local'[u])
  <2>1. ASSUME NEW x, Adds(u, x), PutsOwn(u, x) \/ ClearsKnown(x)
        PROVE  OldClears(local[u], local'[u])
    BY <1>4, <2>1 DEF PutsOwn, ClearsKnown
  <2>2. ASSUME NEW x, Adds(u, x), x.op = "wipe" PROVE OldClears(local[u], local'[u])
    BY <1>4, <2>2
  <2> QED  BY <1>2, <1>3, <1>5, <1>7, <2>1, <2>2 DEF LocalStep
<1> QED  BY <1>1, <1>6, <1>7, LocalSteps

LEMMA ClearsStay ==
  ASSUME BoardAssumption, NoneAssumption, TypeOK, BoundInv, OwnInv, ClaimInv, ScheduleInv, HeldInv,
         TokenInv, TypeOK', [Next]_vars
  PROVE  ClearsInv'
<1>k. Known \subseteq Known'  BY KnownSteps DEF HeldInv, Learns
<1>1. ASSUME NEW u \in Tab, NEW i \in DOMAIN local'[u], local'[u][i].op = "clear"
      PROVE  /\ BoundedToken(local[u][i].token)'
             /\ \A c \in Claims' : c.id = local'[u][i].token[1] /\ c.gen = local'[u][i].token[2]
                  => c.content \subseteq Known'
  <2>1. PICK k : k = local'[u][i].token  OBVIOUS
  <2>2. KnownToken(k, Known')
    <3>1. ASSUME NEW j \in DOMAIN local[u], local[u][j] = local'[u][i] PROVE KnownToken(k, Known')
      <4>1. local[u] \in Seq(Operation)  BY DEF TypeOK
      <4>2. local[u][j] \in Operation /\ local[u][j].op = "clear" /\ local[u][j].token = k
        BY <1>1, <2>1, <3>1, <4>1, LenProperties
      <4>3. k \in Token  BY <4>2 DEF Operation
      <4>4. BoundedToken(k) /\ \A c \in Claims : c.id = k[1] /\ c.gen = k[2] => c.content \subseteq Known
        BY <3>1, <4>2 DEF TokenInv, ClearsInv
      <4> QED  BY <1>k, <4>3, <4>4 DEF KnownToken
    <3> QED  BY <1>1, <2>1, <3>1, ClearSteps DEF OldClears
  <2>3. BoundedToken(k)' /\ \A c \in Claims' : c.id = k[1] /\ c.gen = k[2] => c.content \subseteq Known'
    BY <2>2, KnownTokenStays
  <2>4. BoundedToken(local[u][i].token)'  BY <2>1, <2>3 DEF BoundedToken
  <2> QED  BY <2>1, <2>3, <2>4
<1> QED  BY <1>1 DEF ClearsInv

\* A session goes on with what it has said.
LEMMA OwnClaims ==
  ASSUME BoardAssumption, NoneAssumption, TypeOK, BoundInv, OwnInv, [Next]_vars,
         NEW u \in Tab, Open(u)', NEW d \in Claims', d.id = session'[u].id
  PROVE  d \in Claims \/ d = SessionClaim(u)'
<1>1. OwnInv'  BY OwnStep
<1>2. ASSUME NEW t \in Tab, Open(t)', d = SessionClaim(t)' PROVE t = u
  <2>1. d.id = session'[t].id  BY <1>2, ClaimFields DEF SessionClaim
  <2> QED  BY <1>1, <1>2, <2>1 DEF OwnInv, Own
<1> QED  BY <1>2, ClaimSteps

LEMMA RecoverKept ==
  ASSUME BoardAssumption, NoneAssumption, TypeOK, BoundInv, OwnInv, HeldInv, [Next]_vars,
         NEW u \in Tab, Recovers(u), Open(u), Open(u)', session'[u].recovered \in {session[u].recovered, None},
         session'[u].id = session[u].id, session[u].content \subseteq session'[u].content
  PROVE  Recovers(u)'
<1>0. SessionType /\ Known \subseteq Known'  BY KnownSteps DEF TypeOK, SessionType, HeldInv, Learns
<1>1. SUFFICES ASSUME session'[u].recovered # None PROVE Recovers(u)'  BY DEF Recovers
<1>2. PICK k : k = session'[u].recovered[2]  OBVIOUS
<1>3. k \in Token /\ k = session[u].recovered[2] /\ session[u].recovered # None
  BY <1>0, <1>1, <1>2, OpenSession, Fields
<1>4. /\ BoundedToken(k)
      /\ \A c, d \in Claims : c.id = k[1] /\ c.gen = k[2] /\ d.id = session[u].id
           => c.content \subseteq d.content \cup Known
  BY <1>3 DEF Recovers
<1>5. BoundedToken(k)'  BY <1>3, <1>4, TokenStays
<1>6. ASSUME NEW c \in Claims', NEW d \in Claims', c.id = k[1], c.gen = k[2], d.id = session'[u].id
      PROVE  c.content \subseteq d.content \cup Known'
  <2>1. c \in Claims  BY <1>3, <1>4, <1>6, TokenSaysNoMore
  <2>2. CASE d \in Claims  BY <1>0, <1>4, <1>6, <2>1, <2>2
  <2>3. CASE d = SessionClaim(u)'
    <3>1. PICK o : o = SessionClaim(u)  OBVIOUS
    <3>2. o \in Claims /\ o.id = session[u].id /\ o.content = session[u].content
      BY <3>1, InClaims, ClaimFields DEF SessionClaim
    <3>3. d.content = session'[u].content  BY <2>3, ClaimFields DEF SessionClaim
    <3>4. c.content \subseteq o.content \cup Known  BY <1>4, <1>6, <2>1, <3>2
    <3> QED  BY <1>0, <3>2, <3>3, <3>4
  <2> QED  BY <1>6, <2>2, <2>3, OwnClaims
<1>7. BoundedToken(session[u].recovered[2])'  BY <1>2, <1>5 DEF BoundedToken
<1>8. \A c, d \in Claims' : c.id = k[1] /\ c.gen = k[2] /\ d.id = session'[u].id
           => c.content \subseteq d.content \cup Known'
  BY <1>6
<1> QED  BY <1>2, <1>7, <1>8 DEF Recovers

\* A session that begins from a draft says what the draft says.
LEMMA RecoverStarts ==
  ASSUME BoardAssumption, NoneAssumption, TypeOK, BoundInv, OwnInv, ClaimInv, HeldInv, [Next]_vars,
         NEW t \in Tab, opening[t] # None, NEW u \in Tab \cup {None}, NEW z, Starts(t, u, z), Open(t)'
  PROVE  Recovers(t)'
<1>0. session'[t] = z /\ z.id = <<t, opens>> /\ z.content = (IF u = None THEN opening[t].content ELSE drafts[u].content)
  BY DEF Starts, BeginsWith, Begins
<1>1. z.recovered = (IF u = None THEN None ELSE <<u, drafts[u].token>>)
  BY BeginsFields DEF Starts
<1>2. CASE u = None  BY <1>0, <1>1, <1>2 DEF Recovers
<1>3. CASE u # None
  <2>1. PICK d : d = drafts[u]  OBVIOUS
  <2>2. d \in Drafts  BY <1>3, <2>1, InDrafts DEF Starts, BeginsWith
  <2>3. PICK x : x = DraftClaim(d)  OBVIOUS
  <2>4. x \in Claims /\ x.id = d.token[1] /\ x.gen = d.token[2] /\ x.content = d.content
    BY <2>2, <2>3, InClaims, ClaimFields DEF DraftClaim
  <2>5. PICK k : k = d.token  OBVIOUS
  <2>6. k \in Token /\ BoundedToken(k)
    <3>1. k \in Token  BY <2>2, <2>5, InDrafts DEF Draft
    <3>2. x.id = k[1] /\ x.gen = k[2]  BY <2>4, <2>5
    <3> QED  BY <2>4, <3>1, <3>2, ClaimIsToken
  <2>7. BoundedToken(k)'  BY <2>6, TokenStays
  <2>8. session'[t].recovered[2] = k /\ session'[t].content = d.content  BY <1>0, <1>1, <1>3, <2>1, <2>5
  <2>9. ASSUME NEW c \in Claims', NEW e \in Claims', c.id = k[1], c.gen = k[2], e.id = session'[t].id
        PROVE  c.content \subseteq e.content \cup Known'
    <3>1. c \in Claims  BY <2>6, <2>9, TokenSaysNoMore
    <3>2. c.content = x.content  BY <2>4, <2>5, <2>9, <3>1, SaidOnce
    <3>3. e \notin Claims
      <4>1. SUFFICES ASSUME e \in Claims PROVE FALSE  OBVIOUS
      <4>2. Bounded(e) /\ e.id = <<t, opens>>  BY <1>0, <2>9, <4>1 DEF ClaimInv
      <4>3. e.id \in SessionId \cup {None}  BY <4>1, ClaimTypes
      <4>4. <<t, opens>> \in SessionId
        <5>1. opens \in Nat /\ opens >= 1 /\ opens <= MaxOpens /\ MaxOpens \in Nat
          BY DEF TypeOK, BoundInv, BoardAssumption
        <5> QED  BY <5>1 DEF SessionId
      <4> QED  BY <4>2, <4>4, StartIsNew
    <3>4. e = SessionClaim(t)'  BY <2>9, <3>3, OwnClaims
    <3>5. e.content = session'[t].content  BY <3>4, ClaimFields DEF SessionClaim
    <3> QED  BY <2>4, <2>8, <3>2, <3>5
  <2>10. BoundedToken(session[t].recovered[2])'  BY <2>7, <2>8 DEF BoundedToken
  <2>11. \A c, e \in Claims' : c.id = k[1] /\ c.gen = k[2] /\ e.id = session'[t].id
           => c.content \subseteq e.content \cup Known'
    BY <2>9
  <2> QED  BY <2>8, <2>10, <2>11 DEF Recovers
<1> QED  BY <1>2, <1>3

LEMMA TokenStep ==
  ASSUME BoardAssumption, NoneAssumption, TypeOK, BoundInv, OwnInv, ClaimInv, ScheduleInv, HeldInv,
         TokenInv, TypeOK', [Next]_vars
  PROVE  TokenInv'
<1>1. ClearsInv'  BY ClearsStay
<1>2. ASSUME NEW u \in Tab PROVE Recovers(u)'
  <2>0. Recovers(u)  BY DEF TokenInv
  <2>1. CASE ~ Open(u)'  BY <2>1 DEF Recovers
  <2>2. ASSUME Open(u)', Keeps(u) PROVE Recovers(u)'
    <3>1. /\ session'[u].id = session[u].id /\ session[u].content \subseteq session'[u].content
          /\ Open(u) /\ session'[u].recovered \in {session[u].recovered, None}
      BY <2>2 DEF Keeps, Same
    <3> QED  BY <2>0, <2>2, <3>1, RecoverKept
  <2>3. ASSUME Open(u)', NEW t \in Tab, Edits(t) PROVE Recovers(u)'
    <3>1. CASE t = u
      <4>1. /\ session'[u].id = session[u].id /\ session[u].content \subseteq session'[u].content
            /\ Open(u) /\ session'[u].recovered \in {session[u].recovered, None}
        BY <2>3, <3>1 DEF Edits, EditOf
      <4> QED  BY <2>0, <2>3, <4>1, RecoverKept
    <3>2. CASE t # u
      <4>1. Keeps(u)  BY <2>3, <3>2 DEF Edits, EditOf, Keeps, Same
      <4> QED  BY <2>2, <2>3, <4>1
    <3> QED  BY <3>1, <3>2
  <2>4. ASSUME Open(u)', NEW t \in Tab, opening[t] # None, NEW w \in Tab \cup {None}, NEW z, Starts(t, w, z)
        PROVE  Recovers(u)'
    <3>1. CASE t = u  BY <2>4, <3>1, RecoverStarts
    <3>2. CASE t # u
      <4>1. Keeps(u)  BY <2>4, <3>2 DEF Starts, BeginsWith, Keeps, Same
      <4> QED  BY <2>2, <2>4, <4>1
    <3> QED  BY <3>1, <3>2
  <2> QED  BY <2>1, <2>2, <2>3, <2>4, SessionMoves DEF KeepAll
<1> QED  BY <1>1, <1>2 DEF TokenInv

-----------------------------------------------------------------------------
(* The store *)

LEMMA ChainWeaker ==
  ASSUME NEW t, NEW q, NEW d, NEW e, NEW l, NEW m, NEW K, NEW L,
         Chain(t, q, d, l, K), K \subseteq L, l \subseteq m \cup L, e = d \/ e = None
  PROVE  Chain(t, q, e, m, L)
<1>1. \A i \in DOMAIN q : q[i].op \in {"put", "wipe"} => q[i].key = t  BY DEF Chain
<1>2. \A i \in DOMAIN q : e # None => e.content \subseteq Leaves(q[i]) \cup L
  <2>1. \A i \in DOMAIN q : d # None => d.content \subseteq Leaves(q[i]) \cup K  BY DEF Chain
  <2> QED  BY <2>1
<1>3. \A i, j \in DOMAIN q :
        i < j /\ q[i].op = "put" => q[i].draft.content \subseteq Leaves(q[j]) \cup L
  <2>1. \A i, j \in DOMAIN q :
          i < j /\ q[i].op = "put" => q[i].draft.content \subseteq Leaves(q[j]) \cup K
    BY DEF Chain
  <2> QED  BY <2>1
<1>4. \A i \in DOMAIN q : q[i].op = "put" => q[i].draft.content \subseteq m \cup L
  <2>1. \A i \in DOMAIN q : q[i].op = "put" => q[i].draft.content \subseteq l \cup K  BY DEF Chain
  <2> QED  BY <2>1
<1> QED  BY <1>1, <1>2, <1>3, <1>4 DEF Chain

LEMMA ChainEmpty ==
  ASSUME NEW t, NEW d, NEW l, NEW K
  PROVE  Chain(t, <<>>, d, l, K)
BY DEF Chain

\* The oldest operation ends, or fails.
LEMMA ChainTail ==
  ASSUME NEW t, NEW q \in Seq(Operation), q # <<>>, NEW d, NEW l, NEW K, Chain(t, q, d, l, K)
  PROVE  /\ Chain(t, Tail(q), d, l, K)
         /\ Head(q).op = "put" => Chain(t, Tail(q), Head(q).draft, l, K)
<1> DEFINE r == Tail(q)
<1>1. /\ \A i \in DOMAIN r : i + 1 \in DOMAIN q /\ r[i] = q[i + 1] /\ i \in Nat \ {0}
      /\ 1 \in DOMAIN q /\ Head(q) = q[1]
  <2>1. r \in Seq(Operation)  BY Operations
  <2>2. \A i \in DOMAIN r : i \in Nat \ {0}  BY <2>1, LenProperties
  <2> QED  BY <2>2, Operations
<1> HIDE DEF r
<1>2. \A i \in DOMAIN r : r[i].op \in {"put", "wipe"} => r[i].key = t
  <2>1. \A i \in DOMAIN q : q[i].op \in {"put", "wipe"} => q[i].key = t  BY DEF Chain
  <2> QED  BY <1>1, <2>1
<1>3. \A i \in DOMAIN r : d # None => d.content \subseteq Leaves(r[i]) \cup K
  <2>1. \A i \in DOMAIN q : d # None => d.content \subseteq Leaves(q[i]) \cup K  BY DEF Chain
  <2> QED  BY <1>1, <2>1
<1>a. \A i, j \in DOMAIN q :
        i < j /\ q[i].op = "put" => q[i].draft.content \subseteq Leaves(q[j]) \cup K
  BY DEF Chain
<1>4. ASSUME NEW i \in DOMAIN r, NEW j \in DOMAIN r, i < j, r[i].op = "put"
      PROVE  r[i].draft.content \subseteq Leaves(r[j]) \cup K
  <2>1. i + 1 \in DOMAIN q /\ j + 1 \in DOMAIN q /\ i + 1 < j + 1  BY <1>1, <1>4
  <2>2. r[i] = q[i + 1] /\ r[j] = q[j + 1]  BY <1>1
  <2> QED  BY <1>4, <1>a, <2>1, <2>2
<1>5. \A i \in DOMAIN r : r[i].op = "put" => r[i].draft.content \subseteq l \cup K
  <2>1. \A i \in DOMAIN q : q[i].op = "put" => q[i].draft.content \subseteq l \cup K  BY DEF Chain
  <2> QED  BY <1>1, <2>1
<1>6. ASSUME NEW i \in DOMAIN r, Head(q).op = "put" PROVE Head(q).draft.content \subseteq Leaves(r[i]) \cup K
  <2>1. i + 1 \in DOMAIN q /\ 1 < i + 1 /\ r[i] = q[i + 1]  BY <1>1
  <2> QED  BY <1>1, <1>6, <1>a, <2>1
<1>7. Chain(t, r, d, l, K)  BY <1>2, <1>3, <1>4, <1>5 DEF Chain
<1>8. Head(q).op = "put" => Chain(t, r, Head(q).draft, l, K)
  BY <1>2, <1>4, <1>5, <1>6 DEF Chain
<1> QED  BY <1>7, <1>8 DEF r

\* Another operation begins.
LEMMA ChainAppend ==
  ASSUME NEW t, NEW q \in Seq(Operation), NEW x \in Operation, NEW d, NEW l, NEW K, Chain(t, q, d, l, K),
         x.op \in {"put", "wipe"} => x.key = t,
         d # None => d.content \subseteq Leaves(x) \cup K,
         \A i \in DOMAIN q : q[i].op = "put" => q[i].draft.content \subseteq Leaves(x) \cup K,
         x.op = "put" => x.draft.content \subseteq l \cup K
  PROVE  Chain(t, Append(q, x), d, l, K)
<1> DEFINE r == Append(q, x)
<1>1. \A i \in DOMAIN r :
        \/ i \in DOMAIN q /\ r[i] = q[i]
        \/ r[i] = x /\ \A j \in DOMAIN q : j < i
  BY AppendProperties, LenProperties
<1>0. \A i \in DOMAIN r : i \in Nat
  <2>1. r \in Seq(Operation)  BY AppendProperties
  <2> QED  BY <2>1, LenProperties
<1>n. \A i \in DOMAIN r : r[i] = x /\ i \notin DOMAIN q => \A j \in DOMAIN r : ~ (i < j)
  BY AppendProperties, LenProperties
<1> HIDE DEF r
<1>2. \A i \in DOMAIN r : r[i].op \in {"put", "wipe"} => r[i].key = t
  <2>1. \A i \in DOMAIN q : q[i].op \in {"put", "wipe"} => q[i].key = t  BY DEF Chain
  <2> QED  BY <1>1, <2>1
<1>3. \A i \in DOMAIN r : d # None => d.content \subseteq Leaves(r[i]) \cup K
  <2>1. \A i \in DOMAIN q : d # None => d.content \subseteq Leaves(q[i]) \cup K  BY DEF Chain
  <2> QED  BY <1>1, <2>1
<1>4. ASSUME NEW i \in DOMAIN r, NEW j \in DOMAIN r, i < j, r[i].op = "put"
      PROVE  r[i].draft.content \subseteq Leaves(r[j]) \cup K
  <2>1. i \in DOMAIN q /\ r[i] = q[i]  BY <1>1, <1>4, <1>n
  <2>2. CASE j \in DOMAIN q /\ r[j] = q[j]
    <3>1. \A m, n \in DOMAIN q :
            m < n /\ q[m].op = "put" => q[m].draft.content \subseteq Leaves(q[n]) \cup K
      BY DEF Chain
    <3> QED  BY <1>4, <2>1, <2>2, <3>1
  <2>3. CASE r[j] = x  BY <1>4, <2>1, <2>3
  <2> QED  BY <1>1, <2>2, <2>3
<1>5. \A i \in DOMAIN r : r[i].op = "put" => r[i].draft.content \subseteq l \cup K
  <2>1. \A i \in DOMAIN q : q[i].op = "put" => q[i].draft.content \subseteq l \cup K  BY DEF Chain
  <2> QED  BY <1>1, <2>1
<1>6. Chain(t, r, d, l, K)  BY <1>2, <1>3, <1>4, <1>5 DEF Chain
<1> QED  BY <1>6 DEF r

\* What each operation leaves.
LEMMA WhatIsLeft ==
  ASSUME NEW x
  PROVE  /\ x.op = "put" => Leaves(x) = x.draft.content
         /\ x.op = "wipe" => Leaves(x) = {}
         /\ x.op = "clear" => Leaves(x) = Edit
BY DEF Leaves

LEMMA ContentsAreEdits ==
  ASSUME TypeOK, NEW t \in Tab
  PROVE  /\ drafts[t] # None => drafts[t].content \subseteq Edit
         /\ \A i \in DOMAIN local[t] : local[t][i].op = "put" => local[t][i].draft.content \subseteq Edit
<1>1. \A d \in Drafts : d.content \subseteq Edit  BY InDrafts DEF Draft
<1> QED  BY <1>1, InDrafts DEF PutsOf

\* The session of u contains what it did, or the rest is known; a page that is left
\* has no operations.
LevelKept(u) ==
  /\ Level(u) \subseteq Level(u)' \cup Known'
  /\ Open(u)' => Open(u) \/ (drafts[u] # None => drafts[u].content \subseteq Level(u)' \cup Known')

LEMMA LevelSteps ==
  ASSUME BoardAssumption, NoneAssumption, TypeOK, BoundInv, OwnInv, ScheduleInv, HeldInv, [Next]_vars, NEW u \in Tab
  PROVE  LevelKept(u) \/ Close(u)
<1>0. SessionType /\ Known \subseteq Known' /\ held \subseteq Known
  BY KnownSteps DEF TypeOK, SessionType, HeldInv, Learns, Known
<1>b. SaveHeld(u) /\ Own(u)  BY DEF HeldInv, OwnInv
<1>1. CASE ~Open(u) /\ ~Open(u)'  BY <1>1 DEF LevelKept, Level
<1>2. ASSUME Open(u), Open(u)', session[u].content \subseteq session'[u].content PROVE LevelKept(u)
  BY <1>2 DEF LevelKept, Level
<1>7. ASSUME Open(u)' <=> Open(u), session[u].content \subseteq session'[u].content PROVE LevelKept(u)
  <2>1. CASE Open(u)  BY <1>2, <1>7, <2>1
  <2>2. CASE ~Open(u)  BY <1>7, <2>2 DEF LevelKept, Level
  <2> QED  BY <2>1, <2>2
<1>3. ASSUME Open(u), ~ Open(u)', session[u].content \subseteq Known' PROVE LevelKept(u)
  BY <1>3 DEF LevelKept, Level
<1>4. CASE KeepAll
  <2>1. ASSUME Open(u)' PROVE LevelKept(u)
    <3>1. Open(u) /\ session[u].content \subseteq session'[u].content
      BY <1>4, <2>1 DEF KeepAll, Keeps, Same
    <3> QED  BY <1>2, <2>1, <3>1
  <2>2. ASSUME ~ Open(u)', Open(u), Retire(u) PROVE LevelKept(u)
    <3>1. session[u].status = "saved" => session[u].content \subseteq Known'
      BY <1>0, <1>b, <2>2 DEF SaveHeld
    <3>2. session[u].status = "saved"
      BY <2>2 DEF ScheduleInv, Scheduled, Retire
    <3> QED  BY <1>3, <2>2, <3>1, <3>2
  <2>3. ASSUME ~ Open(u)', Open(u), CopyMade(u) PROVE LevelKept(u)
    <3>1. session[u].content \subseteq Known'  BY <2>3, CopyMadeKnows
    <3> QED  BY <1>3, <2>3, <3>1
  <2> QED  BY <1>1, <1>4, <2>1, <2>2, <2>3 DEF KeepAll, Closes
<1>5. ASSUME NEW t \in Tab, Edits(t) PROVE LevelKept(u)
  <2>1. (Open(u)' <=> Open(u)) /\ session[u].content \subseteq session'[u].content
    BY <1>5 DEF Edits, EditOf
  <2> QED  BY <1>7, <2>1
<1>6. ASSUME NEW t \in Tab, opening[t] # None, NEW w \in Tab \cup {None}, NEW z, Starts(t, w, z)
      PROVE  LevelKept(u)
  <2>1. CASE t # u
    <3>1. (Open(u)' <=> Open(u)) /\ session[u].content \subseteq session'[u].content
      BY <1>6, <2>1 DEF Starts, BeginsWith
    <3> QED  BY <1>7, <3>1
  <2>2. CASE t = u
    <3>1. /\ session'[u] = z
          /\ z.content = (IF w = None THEN opening[u].content ELSE drafts[w].content)
          /\ Open(u) => session[u].status = "saved"
          /\ w = None => drafts[u] = None \/ drafts[u].content = opening[u].content
          /\ w # None => drafts[u] = None \/ w = u
      BY <1>6, <2>2 DEF Starts, BeginsWith, Begins
    <3>2. z # None  BY <1>6 DEF Starts, BeginsWith, NoneAssumption
    <3>3. Level(u)' = z.content  BY <3>1, <3>2 DEF Level, Open
    <3>4. Level(u) \subseteq Known'
      BY <1>0, <1>b, <3>1 DEF Level, SaveHeld
    <3>5. drafts[u] # None => drafts[u].content \subseteq z.content  BY <3>1
    <3> QED  BY <3>3, <3>4, <3>5 DEF LevelKept
  <2> QED  BY <2>1, <2>2
<1> QED  BY <1>4, <1>5, <1>6, SessionMoves

\* What the store and a queue become when the oldest operation of t ends.
LEMMA EndsKeepChain ==
  ASSUME TypeOK, StoreInv, NEW t \in Tab, LocalEnds(t), NEW u \in Tab, NEW l, NEW K,
         Chain(u, local[u], drafts[u], l, K)
  PROVE  /\ Chain(u, local'[u], drafts'[u], l, K)
         /\ \/ drafts'[u] = drafts[u] \/ drafts'[u] = None
            \/ (u = t /\ Head(local[t]).op = "put" /\ drafts'[u] = Head(local[t]).draft)
<1>a. local \in [Tab -> Seq(Operation)] /\ drafts \in [Tab -> Draft \cup {None}]  BY DEF TypeOK
<1>b. /\ local[t] \in Seq(Operation) /\ local[t] # <<>> /\ local'[t] = Tail(local[t])
      /\ \A w \in Tab \ {t} : local'[w] = local[w]
      /\ drafts' = Stored(Head(local[t]))
  BY <1>a DEF LocalEnds
<1>1. PICK op : op = Head(local[t])  OBVIOUS
<1>2. op \in Operation /\ 1 \in DOMAIN local[t] /\ op = local[t][1]  BY <1>1, <1>b, Operations
<1>3. op.op \in {"put", "wipe"} => op.key = t
  <2>1. Chain(t, local[t], drafts[t], Level(t), Known)  BY DEF StoreInv, Stores
  <2> QED  BY <1>2, <2>1 DEF Chain
<1>4. drafts' = Stored(op)  BY <1>1, <1>b
<1>5. CASE op.op = "put"
  <2>1. drafts' = [drafts EXCEPT ![t] = op.draft]  BY <1>3, <1>4, <1>5 DEF Stored
  <2>2. CASE u = t
    <3>1. drafts'[u] = op.draft  BY <1>a, <2>1, <2>2
    <3>2. Chain(u, Tail(local[u]), op.draft, l, K)  BY <1>1, <1>5, <1>b, <2>2, ChainTail
    <3> QED  BY <1>1, <1>5, <1>b, <2>2, <3>1, <3>2
  <2>3. CASE u # t  BY <1>a, <1>b, <2>1, <2>3
  <2> QED  BY <2>2, <2>3
<1>6. CASE op.op \in {"wipe", "clear"}
  <2>1. drafts'[u] = drafts[u] \/ drafts'[u] = None
    BY <1>a, <1>4, <1>6 DEF Stored
  <2>2. K \subseteq K /\ l \subseteq l \cup K  OBVIOUS
  <2>3. Chain(u, local'[u], drafts[u], l, K)
    <3>1. CASE u = t  BY <1>b, <3>1, ChainTail
    <3>2. CASE u # t  BY <1>b, <3>2
    <3> QED  BY <3>1, <3>2
  <2>4. Chain(u, local'[u], drafts'[u], l, K)  BY <2>1, <2>2, <2>3, ChainWeaker
  <2> QED  BY <2>1, <2>4
<1> QED  BY <1>2, <1>5, <1>6 DEF Operation

\* The draft and the operations of u after a step that leaves its session what it was.
StoresNext(u) == Chain(u, local'[u], drafts'[u], Level(u)', Known')

LEMMA ChainSteps ==
  ASSUME BoardAssumption, NoneAssumption, TypeOK, BoundInv, OwnInv, ClaimInv, ScheduleInv, HeldInv,
         TokenInv, StoreInv, [Next]_vars, NEW u \in Tab
  PROVE  StoresNext(u)
<1>a. /\ local \in [Tab -> Seq(Operation)] /\ drafts \in [Tab -> Draft \cup {None}]
      /\ local[u] \in Seq(Operation)
  BY DEF TypeOK
<1>k. Known \subseteq Known'  BY KnownSteps DEF HeldInv, Learns
<1>c. Chain(u, local[u], drafts[u], Level(u), Known) /\ Surpassed(u)  BY DEF StoreInv, Stores
<1>1. ASSUME Close(u) PROVE StoresNext(u)
  <2>1. local'[u] = <<>>  BY <1>a, <1>1 DEF Close
  <2> QED  BY <2>1, ChainEmpty DEF StoresNext
<1>2. ASSUME LevelKept(u), NEW q, Chain(u, q, drafts[u], Level(u), Known), local'[u] = q,
             drafts'[u] = drafts[u]
      PROVE  StoresNext(u)
  <2>1. Level(u) \subseteq Level(u)' \cup Known'  BY <1>2 DEF LevelKept
  <2>2. Chain(u, q, drafts[u], Level(u)', Known')  BY <1>2, <1>k, <2>1, ChainWeaker
  <2> QED  BY <1>2, <2>2 DEF StoresNext
<1>3. ASSUME LevelKept(u), local'[u] = local[u], drafts' = drafts PROVE StoresNext(u)
  BY <1>2, <1>3, <1>c
<1>4. ASSUME LevelKept(u), NEW t \in Tab, LocalEnds(t) PROVE StoresNext(u)
  <2>1. Level(u) \subseteq Level(u)' \cup Known'  BY <1>4 DEF LevelKept
  <2>2. Chain(u, local[u], drafts[u], Level(u)', Known')  BY <1>c, <1>k, <2>1, ChainWeaker
  <2> QED  BY <1>4, <2>2, EndsKeepChain DEF StoresNext
<1>5. ASSUME LevelKept(u), LocalFails(u) PROVE StoresNext(u)
  <2>1. local[u] # <<>> /\ local'[u] = Tail(local[u]) /\ drafts' = drafts  BY <1>a, <1>5 DEF LocalFails
  <2>2. Chain(u, Tail(local[u]), drafts[u], Level(u), Known)  BY <1>a, <1>c, <2>1, ChainTail
  <2> QED  BY <1>2, <1>5, <2>1, <2>2
<1>6. ASSUME LevelKept(u), NEW x, Adds(u, x), PutsOwn(u, x), drafts' = drafts PROVE StoresNext(u)
  <2>1. /\ x \in Operation /\ x.op = "put" /\ x.key = u /\ x.draft = DraftOf(u) /\ Open(u)
        /\ local'[u] = Append(local[u], x)
    BY <1>a, <1>6 DEF Adds, PutsOwn
  <2>2. x.draft.content = Level(u) /\ Leaves(x) = Level(u)
    BY <2>1, WhatIsLeft DEF DraftOf, Level
  <2>3. drafts[u] # None => drafts[u].content \subseteq Leaves(x) \cup Known
    BY <1>c, <2>1, <2>2 DEF Surpassed
  <2>4. \A i \in DOMAIN local[u] : local[u][i].op = "put" =>
          local[u][i].draft.content \subseteq Leaves(x) \cup Known
    BY <1>c, <2>2 DEF Chain
  <2>5. x.op = "put" => x.draft.content \subseteq Level(u) \cup Known  BY <2>2
  <2>6. Chain(u, Append(local[u], x), drafts[u], Level(u), Known)
    BY <1>a, <1>c, <2>1, <2>3, <2>4, <2>5, ChainAppend
  <2> QED  BY <1>2, <1>6, <2>1, <2>6
<1>7. ASSUME NEW x \in Operation, x.op = "clear", NEW K, Chain(u, local[u], drafts[u], Level(u), K)
      PROVE  Chain(u, Append(local[u], x), drafts[u], Level(u), K) /\ Append(local[u], x) \in Seq(Operation)
             /\ \A i \in DOMAIN Append(local[u], x) : Append(local[u], x)[i].op = "put" =>
                  \E j \in DOMAIN local[u] : Append(local[u], x)[i] = local[u][j]
  <2>1. Leaves(x) = Edit  BY <1>7, WhatIsLeft
  <2>2. /\ drafts[u] # None => drafts[u].content \subseteq Leaves(x) \cup K
        /\ \A i \in DOMAIN local[u] : local[u][i].op = "put" =>
             local[u][i].draft.content \subseteq Leaves(x) \cup K
    BY <2>1, ContentsAreEdits
  <2>3. Chain(u, Append(local[u], x), drafts[u], Level(u), K)  BY <1>a, <1>7, <2>2, ChainAppend
  <2>4. \A i \in DOMAIN Append(local[u], x) :
          (i \in DOMAIN local[u] /\ Append(local[u], x)[i] = local[u][i]) \/ Append(local[u], x)[i] = x
    BY <1>a, AppendProperties, LenProperties
  <2> QED  BY <1>a, <1>7, <2>3, <2>4, AppendProperties
<1>8. ASSUME LevelKept(u), NEW x, Adds(u, x), ClearsKnown(x), drafts' = drafts PROVE StoresNext(u)
  <2>1. x \in Operation /\ x.op = "clear" /\ local'[u] = Append(local[u], x)
    BY <1>a, <1>8 DEF Adds, ClearsKnown
  <2>2. Chain(u, Append(local[u], x), drafts[u], Level(u), Known)  BY <1>c, <1>7, <2>1
  <2> QED  BY <1>2, <1>8, <2>1, <2>2
<1>9. ASSUME CopyMade(u), NEW q \in Seq(Operation), Chain(u, q, drafts[u], Level(u), Known'),
             NEW w \in Operation, w.op = "wipe", w.key = u, local'[u] = Append(q, w)
      PROVE  StoresNext(u)
  <2>1. Open(u) /\ Level(u) \subseteq Known' /\ drafts' = drafts
    BY <1>9, CopyMadeKnows DEF CopyMade, Level
  <2>2. drafts[u] # None => drafts[u].content \subseteq Leaves(w) \cup Known'
    BY <1>c, <1>k, <2>1 DEF Surpassed
  <2>3. \A i \in DOMAIN q : q[i].op = "put" => q[i].draft.content \subseteq Leaves(w) \cup Known'
    BY <1>9, <2>1 DEF Chain
  <2>4. Chain(u, Append(q, w), drafts[u], Level(u), Known')
    BY <1>9, <2>2, <2>3, ChainAppend
  <2>5. Known' \subseteq Known' /\ Level(u) \subseteq Level(u)' \cup Known'  BY <2>1
  <2>6. Chain(u, Append(q, w), drafts[u], Level(u)', Known')  BY <2>4, <2>5, ChainWeaker
  <2> QED  BY <1>9, <2>1, <2>6 DEF StoresNext
<1>10. Chain(u, local[u], drafts[u], Level(u), Known')
  <2>1. Level(u) \subseteq Level(u) \cup Known'  OBVIOUS
  <2> QED  BY <1>c, <1>k, <2>1, ChainWeaker
<1>11. ASSUME CopyMade(u), Leaving(u) PROVE StoresNext(u)
  <2>1. PICK x : /\ x \in Operation /\ ClearsKnown(x)
                 /\ \E w \in Operation : /\ w.op = "wipe" /\ w.key = u
                      /\ local' = [local EXCEPT ![u] = Append(Append(local[u], x), w)]
    BY <1>11 DEF Leaving
  <2>2. PICK w \in Operation : w.op = "wipe" /\ w.key = u /\ local' = [local EXCEPT ![u] = Append(Append(local[u], x), w)]
    BY <2>1
  <2>3. Chain(u, Append(local[u], x), drafts[u], Level(u), Known') /\ Append(local[u], x) \in Seq(Operation)
    BY <1>7, <1>10, <2>1 DEF ClearsKnown
  <2>4. local'[u] = Append(Append(local[u], x), w)  BY <1>a, <2>2
  <2> QED  BY <1>9, <1>11, <2>2, <2>3, <2>4
<1>12. ASSUME CopyMade(u), NEW w, Adds(u, w), w.op = "wipe", w.key = u PROVE StoresNext(u)
  <2>1. w \in Operation /\ local'[u] = Append(local[u], w)  BY <1>a, <1>12 DEF Adds
  <2> QED  BY <1>9, <1>10, <1>12, <1>a, <2>1
<1>13. ASSUME LevelKept(u), LocalStep(u), ~ LocalEnds(u), drafts' = drafts PROVE StoresNext(u)
  BY <1>1, <1>5, <1>6, <1>8, <1>11, <1>12, <1>13 DEF LocalStep
<1>14. ASSUME NEW t \in Tab, t # u, LocalStep(t) PROVE local'[u] = local[u]
  BY <1>a, <1>14 DEF LocalStep, LocalEnds, LocalFails, Close, Adds, Leaving
<1>15. ASSUME LevelKept(u) PROVE StoresNext(u)
  <2>1. CASE \E t \in Tab : LocalEnds(t)  BY <1>4, <1>15, <2>1
  <2>2. CASE ~ \E t \in Tab : LocalEnds(t)
    <3>1. drafts' = drafts  BY <2>2, DraftSteps
    <3>2. local'[u] = local[u] \/ LocalStep(u)  BY <1>14, LocalSteps
    <3> QED  BY <1>3, <1>13, <1>15, <2>2, <3>1, <3>2
  <2> QED  BY <2>1, <2>2
<1> QED  BY <1>1, <1>15, LevelSteps

\* A session contains its draft.
LEMMA SurpassedSteps ==
  ASSUME BoardAssumption, NoneAssumption, TypeOK, BoundInv, OwnInv, ScheduleInv, HeldInv,
         StoreInv, [Next]_vars, NEW u \in Tab
  PROVE  Surpassed(u)'
<1>a. /\ local \in [Tab -> Seq(Operation)] /\ drafts \in [Tab -> Draft \cup {None}]
      /\ local[u] \in Seq(Operation)
  BY DEF TypeOK
<1>k. Known \subseteq Known'  BY KnownSteps DEF HeldInv, Learns
<1>c. Chain(u, local[u], drafts[u], Level(u), Known) /\ Surpassed(u)  BY DEF StoreInv, Stores
<1>1. ASSUME Close(u) PROVE Surpassed(u)'
  <2>1. ~ Open(u)'
    <3>1. session'[u] = None  BY <1>1 DEF Close, TypeOK
    <3> QED  BY <3>1 DEF Open
  <2> QED  BY <2>1 DEF Surpassed
<1>2. ASSUME LevelKept(u), Open(u)', drafts[u] # None PROVE drafts[u].content \subseteq Level(u)' \cup Known'
  <2>1. CASE Open(u)
    <3>1. drafts[u].content \subseteq Level(u) \cup Known  BY <1>2, <1>c, <2>1 DEF Surpassed
    <3>2. Level(u) \subseteq Level(u)' \cup Known'  BY <1>2 DEF LevelKept
    <3> QED  BY <1>k, <3>1, <3>2
  <2>2. CASE ~ Open(u)  BY <1>2, <2>2 DEF LevelKept
  <2> QED  BY <2>1, <2>2
<1>3. ASSUME LevelKept(u), Open(u)', drafts'[u] # None PROVE drafts'[u].content \subseteq Level(u)' \cup Known'
  <2>1. CASE drafts'[u] = drafts[u]  BY <1>2, <1>3, <2>1
  <2>2. ASSUME LocalEnds(u), Head(local[u]).op = "put", drafts'[u] = Head(local[u]).draft
        PROVE  drafts'[u].content \subseteq Level(u)' \cup Known'
    <3>1. 1 \in DOMAIN local[u] /\ Head(local[u]) = local[u][1]  BY <1>a, <2>2, Operations DEF LocalEnds
    <3>2. local[u][1].draft.content \subseteq Level(u) \cup Known  BY <1>c, <2>2, <3>1 DEF Chain
    <3>3. Level(u) \subseteq Level(u)' \cup Known'  BY <1>3 DEF LevelKept
    <3> QED  BY <1>k, <2>2, <3>1, <3>2, <3>3
  <2>3. ASSUME NEW t \in Tab, LocalEnds(t)
        PROVE  \/ drafts'[u] = drafts[u] \/ drafts'[u] = None
               \/ (u = t /\ Head(local[t]).op = "put" /\ drafts'[u] = Head(local[t]).draft)
    BY <1>c, <2>3, EndsKeepChain
  <2> QED  BY <1>3, <2>1, <2>2, <2>3, DraftSteps
<1>4. LevelKept(u) => Surpassed(u)'  BY <1>3 DEF Surpassed
<1> QED  BY <1>1, <1>4, LevelSteps

LEMMA StoreStep ==
  ASSUME BoardAssumption, NoneAssumption, TypeOK, BoundInv, OwnInv, ClaimInv, ScheduleInv, HeldInv,
         TokenInv, StoreInv, [Next]_vars
  PROVE  StoreInv'
<1>1. ASSUME NEW u \in Tab PROVE Stores(u)'
  BY ChainSteps, SurpassedSteps DEF Stores, StoresNext
<1> QED  BY <1>1 DEF StoreInv

-----------------------------------------------------------------------------
(* The edits *)

\* A session whose page asks goes on to do so, or what it says is known or its draft.
Safe(u) ==
  \/ Open(u)' /\ NeedsUnloadWarning(u)' /\ session[u].content \subseteq session'[u].content
  \/ session[u].content \subseteq Known'
  \/ drafts'[u] # None /\ session[u].content \subseteq drafts'[u].content
Warns(u) == Open(u) /\ NeedsUnloadWarning(u)

LEMMA SafeAlone ==
  ASSUME NEW t \in Tab, \A u \in Tab \ {t} : session'[u] = session[u],
         Warns(t) => Safe(t), NEW u \in Tab, Warns(u)
  PROVE  Safe(u)
<1>1. CASE u = t  BY <1>1
<1>2. CASE u # t
  <2>1. session'[u] = session[u]  BY <1>2
  <2> QED  BY <2>1 DEF Warns, Safe, Open, NeedsUnloadWarning
<1> QED  BY <1>1, <1>2

LEMMA SafeGoes ==
  ASSUME NEW t \in Tab, NEW r, NEW v, NEW l, NEW p, NEW o,
         Goes(t, r, session[t].localGen, v, l, p, o),
         v = "saved" => session[t].status = "saved" \/ session[t].content \subseteq Known',
         NEW u \in Tab, Warns(u)
  PROVE  Safe(u)
<1>1. Warns(t) => Safe(t)  BY DEF Warns, Safe, NeedsUnloadWarning, Goes, Is, Same
<1>2. \A w \in Tab \ {t} : session'[w] = session[w]  BY DEF Goes
<1> QED  BY <1>1, <1>2, SafeAlone

\* An edit is in no draft.
LEMMA SafeChange ==
  ASSUME BoardAssumption, NoneAssumption, TypeOK, BoundInv, HeldInv, NEW t \in Tab, Change(t)
  PROVE  /\ Open(t)' /\ NeedsUnloadWarning(t)' /\ session'[t].content = session[t].content \cup {edits + 1}
         /\ \A u \in Tab \ {t} : session'[u] = session[u]
<1>1. Edits(t)  BY ChangeEdits
<1>2. /\ Open(t) /\ Open(t)' /\ session[t] \in Session /\ session'[t] \in Session
      /\ session'[t].gen = session[t].gen + 1 /\ session'[t].localGen = session[t].localGen
      /\ session'[t].content = session[t].content \cup {edits + 1}
      /\ \A u \in Tab \ {t} : session'[u] = session[u]
  BY <1>1 DEF Edits, EditOf
<1>3. session'[t].status # "saved"  BY <1>1 DEF Edits
<1>4. session'[t].localGen # session'[t].gen
  <2>1. /\ session[t].gen \in 0..MaxEdits /\ session'[t].gen \in 0..MaxEdits
        /\ session[t].localGen \in 0..MaxEdits \cup {None}
    BY <1>2, Fields
  <2>2. CASE session[t].localGen = None
    BY <1>2, <2>1, <2>2 DEF NoneAssumption
  <2>3. CASE session[t].localGen # None
    <3>1. session[t].localGen <= session[t].gen  BY <1>2, <2>3 DEF HeldInv, SaveHeld
    <3>2. session[t].localGen \in Nat  BY <2>1, <2>3
    <3> QED  BY <1>2, <2>1, <3>1, <3>2
  <2> QED  BY <2>2, <2>3
<1> QED  BY <1>2, <1>3, <1>4 DEF NeedsUnloadWarning

\* A draft that makes a session safe says what the session says.
LEMMA SafeLocalEnds ==
  ASSUME BoardAssumption, NoneAssumption, TypeOK, ClaimInv, StoreInv, NEW t \in Tab, LocalEnds(t),
         NEW u \in Tab, Warns(u)
  PROVE  Safe(u)
<1>a. /\ SessionType /\ local \in [Tab -> Seq(Operation)] /\ local[t] \in Seq(Operation)
      /\ drafts \in [Tab -> Draft \cup {None}]
  BY DEF TypeOK, SessionType
<1>1. CASE UNCHANGED session  BY <1>1 DEF Warns, Safe, Open, NeedsUnloadWarning
<1>2. ASSUME Head(local[t]).op = "put", Open(t), session[t].id = Head(local[t]).draft.token[1],
             Goes(t, session[t].rev, Head(local[t]).draft.token[2], session[t].status,
                  session[t].life, session[t].pending, session[t].recovered)
      PROVE  Safe(u)
  <2>1. PICK op : op = Head(local[t])  OBVIOUS
  <2>2. local[t] # <<>> /\ drafts' = Stored(op)  BY <2>1 DEF LocalEnds
  <2>3. 1 \in DOMAIN local[t] /\ op = local[t][1] /\ op \in Operation
    BY <1>a, <2>1, <2>2, Operations
  <2>4. op.key = t
    <3>1. Chain(t, local[t], drafts[t], Level(t), Known)  BY DEF StoreInv, Stores
    <3> QED  BY <1>2, <2>1, <2>3, <3>1 DEF Chain
  <2>5. drafts'[t] = op.draft  BY <1>a, <1>2, <2>1, <2>2, <2>4 DEF Stored
  <2>6. op.draft \in Drafts /\ op.draft \in Draft  BY <1>2, <2>1, <2>3, InDrafts DEF PutsOf
  <2>7. op.draft # None  BY <2>6 DEF NoneAssumption
  <2>8. session'[t].gen = op.draft.token[2] => session[t].content = op.draft.content
    <3>1. ASSUME session'[t].gen = op.draft.token[2] PROVE session[t].content = op.draft.content
      <4>1. session[t].gen = op.draft.token[2]  BY <1>2, <3>1 DEF Goes, Is, Same
      <4>2. PICK c : c = SessionClaim(t)  OBVIOUS
      <4>3. PICK d : d = DraftClaim(op.draft)  OBVIOUS
      <4>4. c \in Claims /\ d \in Claims  BY <1>2, <2>6, <4>2, <4>3, InClaims
      <4>5. /\ c.id = session[t].id /\ c.gen = session[t].gen /\ c.content = session[t].content
            /\ d.id = op.draft.token[1] /\ d.gen = op.draft.token[2] /\ d.content = op.draft.content
        BY <4>2, <4>3, ClaimFields DEF SessionClaim, DraftClaim
      <4>6. c.id = d.id /\ c.gen = d.gen  BY <1>2, <2>1, <4>1, <4>5
      <4>7. c.content = d.content  BY <4>4, <4>6, SaidOnce
      <4> QED  BY <4>5, <4>7
    <3> QED  BY <3>1
  <2>9. Warns(t) => Safe(t)
    <3>1. CASE session'[t].gen = op.draft.token[2]
      BY <2>5, <2>7, <2>8, <3>1 DEF Safe
    <3>2. CASE session'[t].gen # op.draft.token[2]
      BY <1>2, <2>1, <3>2 DEF Warns, Safe, NeedsUnloadWarning, Goes, Is, Same
    <3> QED  BY <3>1, <3>2
  <2>10. \A w \in Tab \ {t} : session'[w] = session[w]  BY <1>2 DEF Goes
  <2> QED  BY <2>9, <2>10, SafeAlone
<1> QED  BY <1>a, <1>1, <1>2, LocalEndsGoes

\* What a session does that warns.
LEMMA SafeSteps ==
  ASSUME BoardAssumption, NoneAssumption, TypeOK, BoundInv, OwnInv, ClaimInv, ScheduleInv, HeldInv,
         StoreInv, [Next]_vars, NEW u \in Tab, Warns(u)
  PROVE  Safe(u)
<1>a. /\ SessionType /\ local \in [Tab -> Seq(Operation)] /\ net \in NetType
  BY DEF TypeOK, SessionType, NetType
<1>b. \A t \in Tab : Own(t) /\ Scheduled(t)  BY DEF OwnInv, ScheduleInv
<1>k. held' \subseteq Known' /\ held \subseteq held'  BY KnownSteps DEF HeldInv, Known, Learns
<1>u. session' = session => Safe(u)  BY DEF Safe, Warns, Open, NeedsUnloadWarning
<1>1. ASSUME NEW t \in Tab, Change(t) PROVE Safe(u)
  <2>1. /\ Open(t)' /\ NeedsUnloadWarning(t)' /\ session'[t].content = session[t].content \cup {edits + 1}
        /\ \A w \in Tab \ {t} : session'[w] = session[w]
    BY <1>1, SafeChange
  <2>2. Safe(t)  BY <2>1 DEF Safe
  <2> QED  BY <2>1, <2>2, SafeAlone
<1>2. ASSUME NEW t \in Tab, Aside(t) PROVE Safe(u)
  <2>1. Goes(t, session[t].rev, session[t].localGen, session[t].status, session[t].life,
             session[t].pending, session[t].recovered)
    BY <1>2, <1>a, AsideGoes
  <2> QED  BY <2>1, SafeGoes
<1>3. ASSUME NEW t \in Tab, LocalEnds(t) PROVE Safe(u)
  BY <1>3, SafeLocalEnds
<1>4. ASSUME NEW t \in Tab, SaveTimer(t) \/ SaveNow(t) \/ Trash(t) PROVE Safe(u)
  <2>1. PICK l \in {"active", "trashing"} : Open(t) /\ Flush(t, l)
    BY <1>4, <1>a, OpenSession, Fields DEF SaveTimer, SaveNow, Trash, Active
  <2>2. PICK v \in Statuses :
          /\ v = IF CanSave(t) THEN "saving" ELSE session[t].status
          /\ Goes(t, session[t].rev, session[t].localGen, v, l, session[t].pending, session[t].recovered)
    BY <1>a, <2>1, FlushGoes
  <2>3. v = "saved" => session[t].status = "saved"  BY <2>2
  <2> QED  BY <2>2, <2>3, SafeGoes
<1>5. ASSUME NEW t \in Tab, Send(t) PROVE Safe(u)
  <2>1. Open(t)  BY <1>5, <1>b DEF Send, Own
  <2>2. Goes(t, session[t].rev, session[t].localGen, session[t].status,
              session[t].life, ToSend(t), session[t].recovered)
    BY <1>5, <1>a, <2>1, SendGoes
  <2> QED  BY <2>2, SafeGoes
<1>6. ASSUME NEW t \in Tab, UploadFails(t) PROVE Safe(u)
  <2>1. Open(t) /\ "error" \in Statuses  BY <1>6, <1>b DEF UploadFails, Own, Statuses
  <2>2. PICK v : /\ v = "error"
                 /\ Goes(t, session[t].rev, session[t].localGen, v,
                         session[t].life, session[t].pending, session[t].recovered)
    BY <1>6, <1>a, <2>1, StatusGoes DEF UploadFails
  <2>3. v = "saved" => session[t].status = "saved"  BY <2>2
  <2> QED  BY <2>2, <2>3, SafeGoes
<1>7. ASSUME NEW t \in Tab, SaveOk(t) PROVE Safe(u)
  <2>1. Open(t) /\ net[t].rev \in Nat  BY <1>7, <1>a, <1>b DEF SaveOk, Answered, Own, NetType
  <2>2. Goes(t, net[t].rev, session[t].localGen, session[t].status,
              session[t].life, session[t].pending, None)
    BY <1>7, <1>a, <2>1, SaveOkGoes
  <2> QED  BY <2>2, SafeGoes
<1>8. ASSUME NEW t \in Tab, Settle(t) PROVE Safe(u)
  <2>1. Open(t) /\ saving[t] = "settle"  BY <1>8, <1>b DEF Settle, Own
  <2>2. PICK v : /\ v = IF session[t].gen = session[t].pending.gen THEN "saved" ELSE "dirty"
                 /\ Goes(t, session[t].rev, session[t].localGen, v, session[t].life, None,
                         session[t].recovered)
    BY <1>8, <1>a, <2>1, SettleGoes
  <2>3. v = "saved" => session[t].content \subseteq Known'
    BY <1>k, <2>1, <2>2, SettledIsHeld
  <2> QED  BY <2>2, <2>3, SafeGoes
<1>9. ASSUME NEW t \in Tab, EndSave(t) PROVE Safe(u)
  <2>1. Open(t)  BY <1>9, <1>b DEF EndSave, Own
  <2>2. Goes(t, session[t].rev, session[t].localGen,
              session[t].status, session[t].life, session[t].pending, session[t].recovered)
    BY <1>9, <1>a, <2>1, EndSaveGoes
  <2> QED  BY <2>2, SafeGoes
<1>10. ASSUME NEW t \in Tab, SaveFails(t) PROVE Safe(u)
  <2>1. Open(t) /\ "conflict" \in Statuses  BY <1>10, <1>b DEF SaveFails, Answered, Own, Statuses
  <2>2. CASE session' = [session EXCEPT ![t].status = "conflict"]
    <3>1. PICK v : /\ v = "conflict"
                   /\ Goes(t, session[t].rev, session[t].localGen, v,
                           session[t].life, session[t].pending, session[t].recovered)
      BY <1>a, <2>1, <2>2, StatusGoes
    <3>2. v = "saved" => session[t].status = "saved"  BY <3>1
    <3> QED  BY <3>1, <3>2, SafeGoes
  <2>3. CASE net[t].answer # "conflict"
    <3>1. PICK v : /\ v # "saved"
                   /\ Goes(t, session[t].rev, session[t].localGen, v, session[t].life, None,
                           session[t].recovered)
      <4>1. PICK cured \in BOOLEAN :
              Goes(t, session[t].rev, session[t].localGen,
                   IF cured THEN "dirty" ELSE "error", session[t].life, None, session[t].recovered)
        BY <1>10, <1>a, <2>1, <2>3, RefusedGoes
      <4>2. CASE cured = TRUE  BY <4>1, <4>2
      <4>3. CASE cured = FALSE  BY <4>1, <4>3
      <4> QED  BY <4>1, <4>2, <4>3
    <3>2. v = "saved" => session[t].status = "saved" \/ session[t].content \subseteq Known'  BY <3>1
    <3>3. Goes(t, session[t].rev, session[t].localGen, v, session[t].life, None, session[t].recovered)
      BY <3>1
    <3> QED  BY <3>2, <3>3, SafeGoes
  <2> QED  BY <1>10, <2>2, <2>3 DEF SaveFails, Answered
<1>11. ASSUME NEW t \in Tab, Lose(t) PROVE Safe(u)
  <2>1. Open(t)  BY <1>11, <1>b DEF Lose, Own
  <2>2. PICK v, l :
          /\ v = (IF saving[t] = "sent" THEN "error" ELSE session[t].status)
          /\ Goes(t, session[t].rev, session[t].localGen, v, l, session[t].pending, session[t].recovered)
    BY <1>11, <1>a, <2>1, LoseGoes
  <2>3. v = "saved" => session[t].status = "saved"  BY <2>2
  <2> QED  BY <2>2, <2>3, SafeGoes
<1>12. ASSUME NEW t \in Tab, TrashFlushed(t) \/ TrashFails(t) PROVE Safe(u)
  <2>1. Open(t) /\ (session' = session \/ session' = [session EXCEPT ![t].life = "active"])
    BY <1>12, <1>b DEF TrashFlushed, TrashFails, Answered, Own
  <2>2. CASE session' = [session EXCEPT ![t].life = "active"]
    <3>1. Goes(t, session[t].rev, session[t].localGen, session[t].status, "active",
               session[t].pending, session[t].recovered)
      BY <1>a, <2>1, <2>2, LifeGoes
    <3> QED  BY <3>1, SafeGoes
  <2> QED  BY <1>u, <2>1, <2>2
<1>13. ASSUME NEW t \in Tab, TrashOk(t) PROVE Safe(u)
  <2>1. Open(t) /\ net[t].rev \in Nat  BY <1>13, <1>a, <1>b DEF TrashOk, Answered, Own, NetType
  <2>2. Goes(t, net[t].rev, session[t].localGen, session[t].status,
              session[t].life, session[t].pending, session[t].recovered)
    BY <1>13, <1>a, <2>1, TrashOkGoes
  <2> QED  BY <2>2, SafeGoes
<1>14. ASSUME NEW t \in Tab, Retire(t) \/ CopyMade(t) \/ Close(t) PROVE Safe(u)
  <2>1. session'[t] = None /\ \A w \in Tab \ {t} : session'[w] = session[w]
    BY <1>14, <1>a DEF Retire, CopyMade, Close, SessionType
  <2>2. ASSUME Warns(t), Retire(t) PROVE Safe(t)
    <3>1. session[t].status # "saved" /\ Open(t)  BY <2>2 DEF Warns, NeedsUnloadWarning
    <3>2. saving[t] = "retire"  BY <2>2 DEF Retire
    <3> QED  BY <1>b, <3>1, <3>2 DEF Scheduled
  <2>3. ASSUME Warns(t), CopyMade(t) PROVE Safe(t)
    <3>1. session[t].content \subseteq Known'  BY <2>3, CopyMadeKnows
    <3> QED  BY <3>1 DEF Safe
  <2>4. ASSUME Warns(t), Close(t) PROVE Safe(t)
    <3>1. session[t].content \subseteq Known'  BY <2>4 DEF Close, Known, Warns
    <3> QED  BY <3>1 DEF Safe
  <2>5. Warns(t) => Safe(t)  BY <1>14, <2>2, <2>3, <2>4
  <2> QED  BY <2>1, <2>5, SafeAlone
<1>15. ASSUME NEW t \in Tab, Build(t) PROVE Safe(u)
  <2>1. ASSUME NEW w \in Tab \cup {None}, NEW z, Starts(t, w, z) PROVE Safe(u)
    <3>1. \A x \in Tab \ {t} : session'[x] = session[x]  BY <2>1 DEF Starts, BeginsWith
    <3>2. ~ Warns(t)  BY <2>1 DEF Starts, Warns, NeedsUnloadWarning
    <3> QED  BY <3>1, <3>2, SafeAlone
  <2> QED  BY <1>15, <1>u, <2>1, BuildBegins
<1>16. ASSUME NEW t \in Tab, LocalFails(t) \/ Serve(t) \/ Fetch(t) PROVE session' = session
  BY <1>16 DEF LocalFails, Serve, Fetch
<1>17. ASSUME NEW r \in stray, ServeStray(r) PROVE session' = session  BY <1>17 DEF ServeStray
<1>18. UNCHANGED vars => session' = session  BY DEF vars
<1> QED
  BY <1>u, <1>1, <1>2, <1>3, <1>4, <1>5, <1>6, <1>7, <1>8, <1>9, <1>10, <1>11, <1>12, <1>13,
     <1>14, <1>15, <1>16, <1>17, <1>18 DEF Next, Online, Unmount, Aside

\* A draft is replaced by more, or cleared when what it says is known.
LEMMA DraftStays ==
  ASSUME BoardAssumption, NoneAssumption, TypeOK, ClaimInv, HeldInv, TokenInv, StoreInv, [Next]_vars,
         NEW u \in Tab, drafts[u] # None
  PROVE  \/ drafts[u].content \subseteq Known'
         \/ drafts'[u] # None /\ drafts[u].content \subseteq drafts'[u].content \cup Known'
<1>a. local \in [Tab -> Seq(Operation)] /\ drafts \in [Tab -> Draft \cup {None}]  BY DEF TypeOK
<1>k. Known \subseteq Known'  BY KnownSteps DEF HeldInv, Learns
<1>1. CASE drafts'[u] = drafts[u]  BY <1>1
<1>2. ASSUME NEW t \in Tab, LocalEnds(t)
      PROVE  \/ drafts[u].content \subseteq Known'
             \/ drafts'[u] # None /\ drafts[u].content \subseteq drafts'[u].content \cup Known'
  <2>1. PICK op : op = Head(local[t])  OBVIOUS
  <2>2. local[t] \in Seq(Operation) /\ local[t] # <<>> /\ drafts' = Stored(op)
    BY <1>a, <1>2, <2>1 DEF LocalEnds
  <2>3. op \in Operation /\ 1 \in DOMAIN local[t] /\ op = local[t][1]  BY <2>1, <2>2, Operations
  <2>4. Chain(t, local[t], drafts[t], Level(t), Known)  BY DEF StoreInv, Stores
  <2>5. /\ op.op \in {"put", "wipe"} => op.key = t
        /\ drafts[t] # None => drafts[t].content \subseteq Leaves(op) \cup Known
    BY <2>3, <2>4 DEF Chain
  <2>6. CASE op.op = "put"
    <3>1. drafts' = [drafts EXCEPT ![t] = op.draft]  BY <2>2, <2>5, <2>6 DEF Stored
    <3>2. CASE u = t
      <4>1. drafts'[u] = op.draft  BY <1>a, <3>1, <3>2
      <4>2. op.draft \in Draft  BY <2>1, <2>2, <2>6, Operations
      <4>3. op.draft # None  BY <4>2 DEF NoneAssumption
      <4>4. drafts[u].content \subseteq op.draft.content \cup Known
        BY <2>5, <2>6, <3>2, WhatIsLeft
      <4> QED  BY <1>k, <4>1, <4>3, <4>4
    <3>3. CASE u # t  BY <1>a, <1>1, <3>1, <3>3
    <3> QED  BY <3>2, <3>3
  <2>7. CASE op.op = "wipe"
    <3>1. drafts' = [drafts EXCEPT ![t] = None]  BY <2>2, <2>5, <2>7 DEF Stored
    <3>2. CASE u = t
      <4>1. drafts[u].content \subseteq Known  BY <2>5, <2>7, <3>2, WhatIsLeft
      <4> QED  BY <1>k, <4>1
    <3>3. CASE u # t  BY <1>a, <1>1, <3>1, <3>3
    <3> QED  BY <3>2, <3>3
  <2>8. CASE op.op = "clear"
    <3>1. CASE drafts[u].token = op.token
      <4>1. PICK c : c = DraftClaim(drafts[u])  OBVIOUS
      <4>2. c \in Claims  BY <4>1, InDrafts, InClaims
      <4>3. c.id = drafts[u].token[1] /\ c.gen = drafts[u].token[2] /\ c.content = drafts[u].content
        BY <4>1, ClaimFields DEF DraftClaim
      <4>4. \A d \in Claims : d.id = op.token[1] /\ d.gen = op.token[2] => d.content \subseteq Known
        BY <2>3, <2>8 DEF TokenInv, ClearsInv
      <4>5. drafts[u].content \subseteq Known  BY <3>1, <4>2, <4>3, <4>4
      <4> QED  BY <1>k, <4>5
    <3>2. CASE drafts[u].token # op.token
      <4>1. drafts'[u] = drafts[u]  BY <1>a, <2>2, <2>8, <3>2 DEF Stored
      <4> QED  BY <1>1, <4>1
    <3> QED  BY <3>1, <3>2
  <2> QED  BY <2>3, <2>6, <2>7, <2>8 DEF Operation
<1> QED  BY <1>1, <1>2, DraftSteps

\* Where an edit is.
InDraft(e, t) == drafts[t] # None /\ e \in drafts[t].content
Shown(e, t) == Open(t) /\ NeedsUnloadWarning(t) /\ e \in session[t].content
IsKept(e) == e \in Known \/ (\E t \in Tab : InDraft(e, t)) \/ (\E t \in Tab : Shown(e, t))

LEMMA EditsStay ==
  ASSUME BoardAssumption, NoneAssumption, TypeOK, BoundInv, OwnInv, ClaimInv, ScheduleInv, HeldInv,
         TokenInv, StoreInv, [Next]_vars, NEW e, IsKept(e)
  PROVE  IsKept(e)'
<1>k. Known \subseteq Known'  BY KnownSteps DEF HeldInv, Learns
<1>1. CASE e \in Known  BY <1>k, <1>1 DEF IsKept
<1>2. ASSUME NEW t \in Tab, InDraft(e, t) PROVE IsKept(e)'
  <2>1. \/ drafts[t].content \subseteq Known'
        \/ drafts'[t] # None /\ drafts[t].content \subseteq drafts'[t].content \cup Known'
    BY <1>2, DraftStays DEF InDraft
  <2> QED  BY <1>2, <2>1 DEF IsKept, InDraft
<1>3. ASSUME NEW t \in Tab, Shown(e, t) PROVE IsKept(e)'
  <2>1. Warns(t) /\ e \in session[t].content  BY <1>3 DEF Shown, Warns
  <2>2. Safe(t)  BY <2>1, SafeSteps
  <2> QED  BY <2>1, <2>2 DEF Safe, IsKept, InDraft, Shown
<1> QED  BY <1>1, <1>2, <1>3 DEF IsKept

\* An edit is made in a session whose page asks.
LEMMA EditsStep ==
  ASSUME BoardAssumption, NoneAssumption, TypeOK, BoundInv, OwnInv, ClaimInv, ScheduleInv, HeldInv,
         TokenInv, StoreInv, [Next]_vars, EveryEditIsKept
  PROVE  EveryEditIsKept'
<1>0. edits \in Nat /\ RestType  BY DEF TypeOK, RestType
<1>1. \A e \in 1..edits : IsKept(e)  BY DEF EveryEditIsKept, IsKept, Known, InDraft, Shown
<1>2. \A e \in 1..edits : IsKept(e)'  BY <1>1, EditsStay
<1>3. ASSUME NEW t \in Tab, Change(t), NEW e \in 1..edits' PROVE IsKept(e)'
  <2>1. edits' = edits + 1  BY <1>3 DEF Change
  <2>2. e \in 1..edits \/ e = edits + 1  BY <1>0, <2>1
  <2>3. CASE e = edits + 1
    <3>1. Open(t)' /\ NeedsUnloadWarning(t)' /\ session'[t].content = session[t].content \cup {edits + 1}
      BY <1>3, SafeChange
    <3> QED  BY <2>3, <3>1 DEF IsKept, Shown
  <2> QED  BY <1>2, <2>2, <2>3
<1>4. \A e \in 1..edits' : IsKept(e)'  BY <1>0, <1>2, <1>3, CounterSteps
<1> QED  BY <1>4 DEF EveryEditIsKept, IsKept, Known, InDraft, Shown

-----------------------------------------------------------------------------
(* The theorem *)

EditsInv == ScheduleInv /\ HeldInv /\ TokenInv /\ StoreInv /\ EveryEditIsKept

LEMMA InitEdits ==
  ASSUME BoardAssumption, NoneAssumption, Init
  PROVE  EditsInv
<1>1. \A t \in Tab : ~Open(t) /\ net[t] = None /\ drafts[t] = None /\ opening[t] = None
                     /\ local[t] = <<>> /\ saving[t] = "no"
  BY DEF Init, Open
<1>2. ScheduleInv  BY <1>1 DEF ScheduleInv, Scheduled
<1>3. HeldInv
  <2>1. Requests = {}  BY <1>1 DEF Requests, Init
  <2>2. server.content = {}  BY DEF Init
  <2> QED  BY <1>1, <2>1, <2>2 DEF HeldInv, ReadsHeld, AnswersHeld, SaveHeld
<1>4. TokenInv
  <2>1. ASSUME NEW t \in Tab PROVE DOMAIN local[t] = {}  BY <1>1
  <2> QED  BY <1>1, <2>1 DEF TokenInv, ClearsInv, Recovers
<1>5. StoreInv
  <2>1. ASSUME NEW t \in Tab PROVE Stores(t)
    <3>1. Chain(t, local[t], drafts[t], Level(t), Known)  BY <1>1, ChainEmpty
    <3> QED  BY <1>1, <3>1 DEF Stores, Surpassed
  <2> QED  BY <2>1 DEF StoreInv
<1>6. EveryEditIsKept  BY DEF Init, EveryEditIsKept
<1> QED  BY <1>2, <1>3, <1>4, <1>5, <1>6 DEF EditsInv

LEMMA StepEdits ==
  ASSUME BoardAssumption, NoneAssumption, IInv, EditsInv, [Next]_vars
  PROVE  EditsInv'
<1>1. TypeOK /\ BoundInv /\ OwnInv /\ ClaimInv  BY DEF IInv, SaveInv
<1>2. ScheduleInv /\ HeldInv /\ TokenInv /\ StoreInv /\ EveryEditIsKept  BY DEF EditsInv
<1>3. TypeOK'  BY StepInv DEF IInv
<1>4. ScheduleInv'  BY <1>1, <1>2, ScheduleStep
<1>5. HeldInv'  BY <1>1, <1>2, HeldStep
<1>6. TokenInv'  BY <1>1, <1>2, <1>3, TokenStep
<1>7. StoreInv'  BY <1>1, <1>2, StoreStep
<1>8. EveryEditIsKept'  BY <1>1, <1>2, EditsStep
<1> QED  BY <1>4, <1>5, <1>6, <1>7, <1>8 DEF EditsInv

\* Whatever fails, is lost or is repeated, and however many tabs edit, leave and recover
\* the board, no edit is lost without a word and what is dirty is being tried
\* (needsUnloadWarning and clearDraft's token, session.ts:162, 175, drafts.ts:77).
THEOREM EditsAreKept == Spec => []EditsAreSafe
<1>1. Init => IInv /\ EditsInv  BY InitInv, InitEdits, BoardAssumption, NoneAssumption
<1>2. IInv /\ EditsInv /\ [Next]_vars => IInv' /\ EditsInv'
  BY StepInv, StepEdits, BoardAssumption, NoneAssumption
<1>3. EditsInv => EditsAreSafe
  BY DEF EditsInv, EditsAreSafe, DirtyIsScheduled, ScheduleInv, Scheduled
<1> QED  BY <1>1, <1>2, <1>3, PTL DEF Spec

-----------------------------------------------------------------------------
(* Conflicts: while nobody moves the board to the trash, a session that     *)
(* wrote last knows it or has the request, and so is never in conflict.     *)

\* The last write of the server was of the session of t.
WroteLast(t) == server.last[1] = session[t].id

\* A session has one request of its revision, but for those that are refused.
RequestsInTurn(t) ==
  \A r \in Requests : r.id[1] = session[t].id =>
    /\ r.rev <= session[t].rev
    /\ r.rev = session[t].rev => r = session[t].pending \/ r.content \in server.unfit

\* The request under way has the revision of its session until it is answered.
PendingInTurn(t) ==
  session[t].pending # None =>
    /\ saving[t] = "settle" => session[t].pending.rev < session[t].rev
    /\ saving[t] # "settle" => session[t].pending.rev = session[t].rev

\* A session that wrote last knows, unless its request is the one that was written.
WriterKnows(t) ==
  WroteLast(t) =>
    /\ session[t].status # "conflict"
    /\ session[t].pending = None =>
         server.rev = session[t].rev /\ (server.last[2] < session[t].gen \/ session[t].status = "saved")
    /\ session[t].pending # None /\ saving[t] # "settle" =>
         \/ server.last = session[t].pending.id /\ server.rev > session[t].rev
         \/ server.rev = session[t].rev /\ server.last[2] < session[t].pending.gen
    /\ saving[t] = "settle" => server.last = session[t].pending.id /\ server.rev = session[t].rev

\* An answer is of the server as it is, if the session wrote last.
AnswerInTurn(t) ==
  net[t] # None =>
    /\ net[t].answer = "ok" =>
         /\ net[t].rev > session[t].rev
         /\ WroteLast(t) => net[t].rev = server.rev /\ server.last = net[t].req.id
    /\ net[t].answer = "refused" => net[t].req.content \in server.unfit
    /\ net[t].answer = "conflict" => session[t].rev < server.rev /\ ~WroteLast(t)

\* A request that met a conflict can do nothing more.
ConflictInTurn(t) ==
  session[t].status = "conflict" => session[t].pending = None \/ session[t].rev < server.rev

InTurn(t) ==
  Open(t) =>
    /\ session[t].life = "active"
    /\ RequestsInTurn(t) /\ PendingInTurn(t) /\ WriterKnows(t) /\ AnswerInTurn(t) /\ ConflictInTurn(t)

ServerFits == server.content \notin server.unfit
TurnInv == ServerFits /\ (trashes = 0 => \A t \in Tab : InTurn(t))

\* The requests of a session come from its own tab.
LEMMA OwnRequests ==
  ASSUME RestType, OwnInv', [Next]_vars, NEW u \in Tab, Open(u)',
         NEW r \in Requests', r.id[1] = session'[u].id
  PROVE  \/ r \in Requests
         \/ session'[u].pending # None /\ r = session'[u].pending
         \/ net'[u] # None /\ r = net'[u].req
<1>1. session'[u].id[1] = u  BY DEF OwnInv, Own
<1>2. CASE r \in stray'  BY <1>2, StraySteps
<1>3. ASSUME NEW w \in Tab, net'[w] # None, r = net'[w].req
      PROVE  w = u
  <2>1. Open(w)' /\ r.id[1] = session'[w].id  BY <1>3 DEF OwnInv, Own
  <2>2. session'[w].id[1] = w  BY <2>1 DEF OwnInv, Own
  <2> QED  BY <1>1, <2>1, <2>2
<1>4. ASSUME NEW w \in Tab, Open(w)', session'[w].pending # None, r = session'[w].pending
      PROVE  w = u
  <2>1. r.id[1] = session'[w].id  BY <1>4 DEF OwnInv, Own
  <2>2. session'[w].id[1] = w  BY <1>4 DEF OwnInv, Own
  <2> QED  BY <1>1, <2>1, <2>2
<1>5. \/ r \in stray'
      \/ \E w \in Tab : net'[w] # None /\ r = net'[w].req
      \/ \E w \in Tab : Open(w)' /\ session'[w].pending # None /\ r = session'[w].pending
  BY DEF Requests
<1> QED  BY <1>2, <1>3, <1>4, <1>5

\* Without a trash, the request of a tab that is under way is that of its save.
Saves(t) == net[t] # None => saving[t] = "sent" /\ net[t].req = session[t].pending

LEMMA NetIsSave ==
  ASSUME OwnInv, ScheduleInv, HeldInv, NEW t \in Tab, Open(t) => session[t].life = "active"
  PROVE  /\ saving[t] \notin {"trash", "retire"} /\ Saves(t)
         /\ net[t] # None => Open(t) /\ session[t].status # "conflict"
<1>1. Own(t) /\ Scheduled(t) /\ SaveHeld(t)  BY DEF OwnInv, ScheduleInv, HeldInv
<1>2. saving[t] \notin {"trash", "retire"}
  <2>1. CASE Open(t)  BY <1>1, <2>1 DEF Scheduled
  <2>2. CASE ~Open(t)  BY <1>1, <2>2 DEF Own
  <2> QED  BY <2>1, <2>2
<1>3. Saves(t)  BY <1>1, <1>2 DEF Own, SaveHeld, Saves
<1>4. net[t] # None => Open(t)  BY <1>1 DEF Own
<1>5. net[t] # None => session[t].status # "conflict"  BY <1>1, <1>3, <1>4 DEF Own, Saves
<1> QED  BY <1>2, <1>3, <1>4, <1>5

\* A request is given up when it is of an older revision or is refused.
Yields(u) ==
  /\ Open(u) /\ session'[u].id = session[u].id /\ session[u].rev <= session'[u].rev
  /\ server'.unfit = server.unfit
  /\ \/ session'[u].pending = session[u].pending
     \/ session[u].pending = None /\ session'[u].pending.rev = session'[u].rev
     \/ session'[u].pending = None
        /\ (session[u].pending.rev < session[u].rev \/ session[u].pending.content \in server.unfit)

LEMMA RequestsStayInTurn ==
  ASSUME NoneAssumption, TypeOK, TypeOK', OwnInv', [Next]_vars, NEW u \in Tab, Saves(u)', Open(u)', Yields(u),
         RequestsInTurn(u)
  PROVE  RequestsInTurn(u)'
<1> SUFFICES ASSUME NEW r \in Requests', r.id[1] = session'[u].id
             PROVE  /\ r.rev <= session'[u].rev
                    /\ r.rev = session'[u].rev => r = session'[u].pending \/ r.content \in server'.unfit
  BY DEF RequestsInTurn
<1>1. session[u].rev \in Nat /\ session'[u].rev \in Nat
  <2>1. session[u] \in Session  BY DEF TypeOK, Yields, Open
  <2>2. session'[u] \in Session  BY DEF TypeOK, Open
  <2> QED  BY <2>1, <2>2, Fields
<1>2. CASE r \in Requests
  <2>1. /\ r.rev <= session[u].rev
        /\ r.rev = session[u].rev => r = session[u].pending \/ r.content \in server.unfit
    BY <1>2 DEF RequestsInTurn, Yields
  <2>2. r \in Request /\ r.rev \in Nat  BY <1>2, RequestTypes
  <2>3. r # None  BY <2>2 DEF NoneAssumption
  <2> QED  BY <1>1, <2>1, <2>2, <2>3 DEF Yields
<1>3. CASE r \notin Requests
  <2>0. RestType  BY DEF TypeOK, RestType
  <2>1. \/ session'[u].pending # None /\ r = session'[u].pending
        \/ net'[u] # None /\ r = net'[u].req
    BY <1>3, <2>0, OwnRequests
  <2>2. session'[u].pending # None /\ r = session'[u].pending
    <3>1. CASE net'[u] # None /\ r = net'[u].req
      <4>1. r \in Request  BY <3>1 DEF TypeOK
      <4>2. r # None  BY <4>1 DEF NoneAssumption
      <4> QED  BY <3>1, <4>2 DEF Saves
    <3> QED  BY <2>1, <3>1
  <2>3. session'[u].pending # session[u].pending
    BY <1>3, <2>2, PendingRequests DEF Yields
  <2>4. r.rev = session'[u].rev  BY <2>2, <2>3 DEF Yields
  <2> QED  BY <1>1, <2>2, <2>4
<1> QED  BY <1>2, <1>3

\* The session of u goes on as far as conflicts are concerned.
GoesOn(u) ==
  /\ Open(u) /\ session'[u].id = session[u].id /\ session'[u].rev = session[u].rev
  /\ session'[u].life = session[u].life /\ session'[u].pending = session[u].pending
  /\ session'[u].status = "conflict" => session[u].status = "conflict"
  /\ (saving'[u] = "settle" <=> saving[u] = "settle")
  /\ net'[u] = net[u] \/ net'[u] = None
  /\ \/ session'[u].gen = session[u].gen /\ session'[u].status = session[u].status
     \/ session'[u].gen = session[u].gen /\ session[u].status # "saved"
     \/ session'[u].gen = session[u].gen /\ session[u].pending # None
     \/ session'[u].gen = session[u].gen + 1

LEMMA GoesOnInTurn ==
  ASSUME BoardAssumption, NoneAssumption, TypeOK, TypeOK', OwnInv', ClaimInv, [Next]_vars, UNCHANGED server,
         NEW u \in Tab, Saves(u)', Open(u)', GoesOn(u), InTurn(u)
  PROVE  InTurn(u)'
<1>0. /\ RequestsInTurn(u) /\ PendingInTurn(u) /\ WriterKnows(u) /\ AnswerInTurn(u)
      /\ ConflictInTurn(u) /\ session[u].life = "active"
  BY DEF InTurn, GoesOn
<1>1. Open(u) /\ session[u] \in Session  BY DEF GoesOn, TypeOK, Open
<1>2. session[u].gen \in Nat /\ session[u].rev \in Nat  BY <1>1, Fields DEF BoardAssumption
<1>3. Yields(u)  BY <1>1, <1>2 DEF Yields, GoesOn
<1>4. RequestsInTurn(u)'  BY <1>0, <1>3, RequestsStayInTurn
<1>5. PendingInTurn(u)'  BY <1>0 DEF PendingInTurn, GoesOn
<1>6. WriterKnows(u)'
  <2> SUFFICES ASSUME WroteLast(u)' PROVE WriterKnows(u)'  BY DEF WriterKnows
  <2>1. WroteLast(u)  BY DEF WroteLast, GoesOn
  <2>2. server.last[2] <= session[u].gen
    <3>1. Bounded(ServerClaim)  BY InClaims DEF ClaimInv
    <3>2. ServerClaim.id = session[u].id /\ ServerClaim.gen = server.last[2]
      BY <2>1, ClaimFields DEF ServerClaim, WroteLast
    <3>3. session[u].id # None  BY <1>1, Fields DEF NoneAssumption
    <3> QED  BY <1>1, <3>1, <3>2, <3>3 DEF Bounded
  <2>3. server.last[2] \in Nat
    BY DEF TypeOK, Mutation, BoardAssumption
  <2>4. /\ session[u].status # "conflict"
        /\ session[u].pending = None =>
             server.rev = session[u].rev /\ (server.last[2] < session[u].gen \/ session[u].status = "saved")
        /\ session[u].pending # None /\ saving[u] # "settle" =>
             \/ server.last = session[u].pending.id /\ server.rev > session[u].rev
             \/ server.rev = session[u].rev /\ server.last[2] < session[u].pending.gen
        /\ saving[u] = "settle" => server.last = session[u].pending.id /\ server.rev = session[u].rev
    BY <1>0, <2>1 DEF WriterKnows
  <2>5. session[u].pending = None =>
          server.rev = session[u].rev /\ (server.last[2] < session'[u].gen \/ session'[u].status = "saved")
    BY <1>2, <2>2, <2>3, <2>4 DEF GoesOn
  <2> QED  BY <2>4, <2>5 DEF WriterKnows, GoesOn
<1>7. AnswerInTurn(u)'
  <2>1. WroteLast(u)' <=> WroteLast(u)  BY DEF WroteLast, GoesOn
  <2> QED  BY <1>0, <2>1 DEF AnswerInTurn, GoesOn
<1>8. ConflictInTurn(u)'  BY <1>0 DEF ConflictInTurn, GoesOn
<1> QED  BY <1>0, <1>4, <1>5, <1>6, <1>7, <1>8 DEF InTurn, GoesOn

\* A tab whose session, save and request stay goes on.
LEMMA StaysInTurn ==
  ASSUME BoardAssumption, NoneAssumption, TypeOK, TypeOK', OwnInv', ClaimInv, [Next]_vars, UNCHANGED server,
         NEW u \in Tab, Saves(u), Open(u)', session'[u] = session[u], saving'[u] = saving[u], net'[u] = net[u],
         InTurn(u)
  PROVE  InTurn(u)'
<1>1. GoesOn(u)  BY DEF GoesOn, Open
<1>2. Saves(u)'  BY DEF Saves
<1> QED  BY <1>1, <1>2, GoesOnInTurn

\* What a tab sends has the revision of its session, and is newer than what it wrote.
LEMMA SendInTurn ==
  ASSUME BoardAssumption, NoneAssumption, TypeOK, TypeOK', OwnInv, OwnInv', ScheduleInv, [Next]_vars,
         NEW t \in Tab, Send(t), Open(t)', Saves(t)', InTurn(t)
  PROVE  InTurn(t)'
<1>a. SessionType  BY DEF TypeOK, SessionType
<1>b. Open(t) /\ Own(t) /\ Scheduled(t)  BY DEF OwnInv, Own, Send, ScheduleInv
<1>0. /\ RequestsInTurn(t) /\ PendingInTurn(t) /\ WriterKnows(t)
      /\ ConflictInTurn(t) /\ session[t].life = "active"
  BY <1>b DEF InTurn
<1>1. Goes(t, session[t].rev, session[t].localGen, session[t].status,
           session[t].life, ToSend(t), session[t].recovered)
  BY <1>a, <1>b, SendGoes
<1>2. /\ saving[t] = "draft" /\ saving'[t] = "sent" /\ net'[t].answer = "none" /\ UNCHANGED server
  <2>1. net' = Sent(t, ToSend(t))  BY DEF Send, ToSend
  <2>2. net'[t].answer = "none"  BY <2>1 DEF Sent, TypeOK
  <2> QED  BY <2>2 DEF Send, TypeOK
<1>3. session[t].status \notin {"saved", "conflict"}  BY <1>b, <1>2 DEF Scheduled, Own
<1>4. session[t] \in Session /\ session[t].rev \in Nat /\ session[t].gen \in Nat
  BY <1>a, <1>b, OpenSession, Fields DEF BoardAssumption
<1>5. /\ ToSend(t) \in Request /\ ToSend(t) # None
      /\ session[t].pending # None => ToSend(t) = session[t].pending
      /\ session[t].pending = None => ToSend(t).rev = session[t].rev /\ ToSend(t).gen = session[t].gen
  BY <1>a, <1>b, SendTurns DEF ToSend, RequestOf, NoneAssumption
<1>6. /\ session'[t].pending = ToSend(t) /\ session'[t].id = session[t].id
      /\ session'[t].rev = session[t].rev /\ session'[t].gen = session[t].gen
      /\ session'[t].status = session[t].status /\ session'[t].life = session[t].life
  BY <1>1 DEF Goes, Is, Same
<1>7. RequestsInTurn(t)'
  <2>1. Yields(t)  BY <1>b, <1>2, <1>4, <1>5, <1>6 DEF Yields
  <2> QED  BY <1>0, <2>1, RequestsStayInTurn
<1>8. PendingInTurn(t)'  BY <1>0, <1>2, <1>5, <1>6 DEF PendingInTurn
<1>9. WriterKnows(t)'
  <2> SUFFICES ASSUME WroteLast(t)' PROVE WriterKnows(t)'  BY DEF WriterKnows
  <2>1. WroteLast(t)  BY <1>2, <1>6 DEF WroteLast
  <2>2. \/ server.last = ToSend(t).id /\ server.rev > session[t].rev
        \/ server.rev = session[t].rev /\ server.last[2] < ToSend(t).gen
    <3>1. CASE session[t].pending = None  BY <1>0, <1>3, <1>5, <2>1, <3>1 DEF WriterKnows
    <3>2. CASE session[t].pending # None  BY <1>0, <1>2, <1>5, <2>1, <3>2 DEF WriterKnows
    <3> QED  BY <3>1, <3>2
  <2> QED  BY <1>2, <1>3, <1>5, <1>6, <2>2 DEF WriterKnows
<1>10. AnswerInTurn(t)' /\ ConflictInTurn(t)'
  BY <1>2, <1>3, <1>6 DEF AnswerInTurn, ConflictInTurn
<1> QED  BY <1>0, <1>6, <1>7, <1>8, <1>9, <1>10 DEF InTurn

\* A saved answer makes the session newer than its request.
LEMMA SaveOkInTurn ==
  ASSUME BoardAssumption, NoneAssumption, TypeOK, TypeOK', OwnInv, OwnInv', [Next]_vars,
         NEW t \in Tab, SaveOk(t), Open(t)', Saves(t), Saves(t)', InTurn(t)
  PROVE  InTurn(t)'
<1>a. SessionType  BY DEF TypeOK, SessionType
<1>b. Open(t) /\ Own(t)  BY DEF OwnInv, Own, SaveOk, Answered
<1>0. /\ RequestsInTurn(t) /\ PendingInTurn(t) /\ WriterKnows(t) /\ AnswerInTurn(t)
      /\ session[t].life = "active"
  BY <1>b DEF InTurn
<1>1. /\ net[t] # None /\ net[t].answer = "ok" /\ saving[t] = "sent" /\ saving'[t] = "settle"
      /\ net'[t] = None /\ UNCHANGED server
  BY DEF SaveOk, Answered, TypeOK
<1>2. net[t].rev \in Nat /\ net[t].req \in Request  BY <1>1 DEF TypeOK
<1>3. net[t].req = session[t].pending /\ session[t].pending # None
  BY <1>1, <1>2 DEF Saves, NoneAssumption
<1>4. Goes(t, net[t].rev, session[t].localGen, session[t].status,
              session[t].life, session[t].pending, None)
  BY <1>a, <1>b, <1>2, SaveOkGoes
<1>5. /\ session'[t].pending = session[t].pending /\ session'[t].id = session[t].id
      /\ session'[t].rev = net[t].rev /\ session'[t].gen = session[t].gen
      /\ session'[t].status = session[t].status /\ session'[t].life = session[t].life
  BY <1>4 DEF Goes, Is, Same
<1>6. session[t] \in Session /\ session[t].rev \in Nat
  BY <1>a, <1>b, OpenSession, Fields
<1>7. net[t].rev > session[t].rev  BY <1>0, <1>1 DEF AnswerInTurn
<1>8. RequestsInTurn(t)'
  <2>1. Yields(t)  BY <1>b, <1>1, <1>2, <1>5, <1>6, <1>7 DEF Yields
  <2> QED  BY <1>0, <2>1, RequestsStayInTurn
<1>9. PendingInTurn(t)'
  <2>1. session[t].pending.rev = session[t].rev  BY <1>0, <1>1, <1>3 DEF PendingInTurn
  <2> QED  BY <1>1, <1>2, <1>5, <1>6, <1>7, <2>1 DEF PendingInTurn
<1>10. session[t].status # "conflict"  BY <1>b, <1>1 DEF Own
<1>11. WriterKnows(t)'
  <2> SUFFICES ASSUME WroteLast(t)' PROVE WriterKnows(t)'  BY DEF WriterKnows
  <2>1. WroteLast(t)  BY <1>1, <1>5 DEF WroteLast
  <2>2. net[t].rev = server.rev /\ server.last = session[t].pending.id
    BY <1>0, <1>1, <1>3, <2>1 DEF AnswerInTurn
  <2> QED  BY <1>1, <1>3, <1>5, <1>10, <2>2 DEF WriterKnows
<1>12. AnswerInTurn(t)' /\ ConflictInTurn(t)'
  BY <1>1, <1>5, <1>10 DEF AnswerInTurn, ConflictInTurn
<1> QED  BY <1>0, <1>5, <1>8, <1>9, <1>11, <1>12 DEF InTurn

\* What a session wrote is of no later generation than its own.
LEMMA WriterIsAhead ==
  ASSUME BoardAssumption, NoneAssumption, TypeOK, ClaimInv, NEW t \in Tab, Open(t), WroteLast(t)
  PROVE  server.last[2] \in Nat /\ session[t].gen \in Nat /\ server.last[2] <= session[t].gen
<1>1. session[t] \in Session  BY DEF TypeOK, Open
<1>2. Bounded(ServerClaim)  BY InClaims DEF ClaimInv
<1>3. ServerClaim.id = session[t].id /\ ServerClaim.gen = server.last[2]
  BY ClaimFields DEF ServerClaim, WroteLast
<1>4. session[t].id # None  BY <1>1, Fields DEF NoneAssumption
<1>5. server.last[2] \in Nat  BY DEF TypeOK, Mutation, BoardAssumption
<1>6. session[t].gen \in Nat  BY <1>1, Fields DEF BoardAssumption
<1> QED  BY <1>2, <1>3, <1>4, <1>5, <1>6 DEF Bounded

\* After a save the session knows that it wrote, and edits made since are of a later generation.
LEMMA SettleInTurn ==
  ASSUME BoardAssumption, NoneAssumption, TypeOK, TypeOK', OwnInv, OwnInv', ClaimInv, HeldInv, [Next]_vars,
         NEW t \in Tab, Settle(t), Open(t)', Saves(t), Saves(t)', InTurn(t)
  PROVE  InTurn(t)'
<1>a. SessionType  BY DEF TypeOK, SessionType
<1>b. Open(t) /\ Own(t) /\ SaveHeld(t)  BY DEF OwnInv, Own, Settle, HeldInv
<1>0. /\ RequestsInTurn(t) /\ PendingInTurn(t) /\ WriterKnows(t)
      /\ session[t].life = "active"
  BY <1>b DEF InTurn
<1>1. /\ saving[t] = "settle" /\ saving'[t] = "end" /\ UNCHANGED <<server, net>>
  BY DEF Settle, TypeOK
<1>2. net'[t] = None /\ session[t].pending # None  BY <1>b, <1>1 DEF Own, SaveHeld
<1>3. PICK v : /\ v = IF session[t].gen = session[t].pending.gen THEN "saved" ELSE "dirty"
               /\ Goes(t, session[t].rev, session[t].localGen, v, session[t].life, None,
                       session[t].recovered)
  BY <1>a, <1>b, SettleGoes
<1>4. /\ session'[t].pending = None /\ session'[t].id = session[t].id
      /\ session'[t].rev = session[t].rev /\ session'[t].gen = session[t].gen
      /\ session'[t].status = v /\ session'[t].life = session[t].life
  BY <1>3 DEF Goes, Is, Same
<1>5. session[t] \in Session /\ session[t].rev \in Nat
  BY <1>a, <1>b, OpenSession, Fields
<1>6. session[t].pending.rev < session[t].rev  BY <1>0, <1>1, <1>2 DEF PendingInTurn
<1>7. RequestsInTurn(t)'
  <2>1. Yields(t)  BY <1>b, <1>1, <1>4, <1>5, <1>6 DEF Yields
  <2> QED  BY <1>0, <2>1, RequestsStayInTurn
<1>8. PendingInTurn(t)'  BY <1>4 DEF PendingInTurn
<1>9. v \in {"saved", "dirty"}  BY <1>3
<1>10. WriterKnows(t)'
  <2> SUFFICES ASSUME WroteLast(t)' PROVE WriterKnows(t)'  BY DEF WriterKnows
  <2>1. WroteLast(t)  BY <1>1, <1>4 DEF WroteLast
  <2>2. server.last = session[t].pending.id /\ server.rev = session[t].rev
    BY <1>0, <1>1, <2>1 DEF WriterKnows
  <2>3. server.last[2] = session[t].pending.gen
    BY <1>b, <1>2, <2>2, PendingRequests DEF HeldInv
  <2>4. server.last[2] < session[t].gen \/ v = "saved"
    <3>1. server.last[2] <= session[t].gen /\ server.last[2] \in Nat /\ session[t].gen \in Nat
      BY <1>b, <2>1, WriterIsAhead
    <3> QED  BY <1>3, <2>3, <3>1
  <2> QED  BY <1>1, <1>4, <1>9, <2>2, <2>4 DEF WriterKnows
<1>11. AnswerInTurn(t)' /\ ConflictInTurn(t)'  BY <1>2, <1>4 DEF AnswerInTurn, ConflictInTurn
<1> QED  BY <1>0, <1>4, <1>7, <1>8, <1>10, <1>11 DEF InTurn

\* What was refused is not what the server has.
LEMMA RefusedIsNotWritten ==
  ASSUME BoardAssumption, NoneAssumption, TypeOK, ClaimInv, HeldInv, ServerFits, NEW r \in Requests,
         r.content \in server.unfit
  PROVE  server.last # r.id
<1>1. SUFFICES ASSUME server.last = r.id PROVE FALSE  OBVIOUS
<1>2. RequestClaim(r) \in Claims /\ ServerClaim \in Claims  BY InClaims
<1>3. /\ RequestClaim(r).id = r.id[1] /\ RequestClaim(r).gen = r.id[2] /\ RequestClaim(r).content = r.content
      /\ ServerClaim.id = server.last[1] /\ ServerClaim.gen = server.last[2] /\ ServerClaim.content = server.content
  BY ClaimFields DEF RequestClaim, ServerClaim
<1>4. server.content = r.content  BY <1>1, <1>2, <1>3, SaidOnce
<1> QED  BY <1>4 DEF ServerFits

\* A conflict is real: the session did not write last, and its request can do nothing more.
LEMMA ConflictAnswered ==
  ASSUME BoardAssumption, NoneAssumption, TypeOK, TypeOK', OwnInv, OwnInv', [Next]_vars,
         NEW t \in Tab, SaveFails(t), net[t].answer = "conflict", Open(t)', Saves(t), Saves(t)', InTurn(t)
  PROVE  InTurn(t)'
<1>a. SessionType /\ "conflict" \in Statuses  BY DEF TypeOK, SessionType, Statuses
<1>b. Open(t) /\ Own(t)  BY DEF OwnInv, Own, SaveFails, Answered
<1>0. /\ RequestsInTurn(t) /\ PendingInTurn(t) /\ AnswerInTurn(t) /\ session[t].life = "active"
  BY <1>b DEF InTurn
<1>1. /\ saving[t] = "sent" /\ saving'[t] = "no" /\ net[t] # None /\ net'[t] = None /\ UNCHANGED server
      /\ session' = [session EXCEPT ![t].status = "conflict"]
  BY DEF SaveFails, Answered, TypeOK
<1>2. Goes(t, session[t].rev, session[t].localGen, "conflict",
           session[t].life, session[t].pending, session[t].recovered)
  BY <1>a, <1>b, <1>1, StatusGoes
<1>3. /\ session'[t].pending = session[t].pending /\ session'[t].id = session[t].id
      /\ session'[t].rev = session[t].rev /\ session'[t].gen = session[t].gen
      /\ session'[t].life = session[t].life
  BY <1>2 DEF Goes, Is, Same
<1>4. session[t] \in Session /\ session[t].rev \in Nat  BY <1>a, <1>b, OpenSession, Fields
<1>5. session[t].rev < server.rev /\ ~WroteLast(t)  BY <1>0, <1>1 DEF AnswerInTurn
<1>6. RequestsInTurn(t)'
  <2>1. Yields(t)  BY <1>b, <1>1, <1>3, <1>4 DEF Yields
  <2> QED  BY <1>0, <2>1, RequestsStayInTurn
<1>7. PendingInTurn(t)'  BY <1>0, <1>1, <1>3 DEF PendingInTurn
<1>8. WriterKnows(t)'  BY <1>1, <1>3, <1>5 DEF WriterKnows, WroteLast
<1>9. AnswerInTurn(t)' /\ ConflictInTurn(t)'  BY <1>1, <1>3, <1>5 DEF AnswerInTurn, ConflictInTurn
<1> QED  BY <1>0, <1>3, <1>6, <1>7, <1>8, <1>9 DEF InTurn

\* A refused request was not written, and it is given up.
LEMMA RefusalAnswered ==
  ASSUME BoardAssumption, NoneAssumption, TypeOK, TypeOK', OwnInv, OwnInv', ClaimInv, HeldInv, ServerFits, [Next]_vars,
         NEW t \in Tab, SaveFails(t), net[t].answer # "conflict", Open(t)', Saves(t), Saves(t)', InTurn(t)
  PROVE  InTurn(t)'
<1>a. SessionType  BY DEF TypeOK, SessionType
<1>b. Open(t) /\ Own(t)  BY DEF OwnInv, Own, SaveFails, Answered
<1>0. /\ RequestsInTurn(t) /\ PendingInTurn(t) /\ WriterKnows(t) /\ AnswerInTurn(t)
      /\ session[t].life = "active"
  BY <1>b DEF InTurn
<1>1. /\ saving[t] = "sent" /\ saving'[t] = "no" /\ net[t] # None /\ net'[t] = None /\ UNCHANGED server
      /\ net[t].answer = "refused"
  BY DEF SaveFails, Answered, TypeOK
<1>2. net[t].req \in Request  BY <1>1 DEF TypeOK
<1>3. net[t].req = session[t].pending /\ session[t].pending # None
  BY <1>1, <1>2 DEF Saves, NoneAssumption
<1>4. PICK cured \in BOOLEAN :
        Goes(t, session[t].rev, session[t].localGen,
             IF cured THEN "dirty" ELSE "error", session[t].life, None, session[t].recovered)
  BY <1>a, <1>b, RefusedGoes
<1>5. /\ session'[t].pending = None /\ session'[t].id = session[t].id
      /\ session'[t].rev = session[t].rev /\ session'[t].gen = session[t].gen
      /\ session'[t].life = session[t].life /\ session'[t].status # "conflict"
  BY <1>4 DEF Goes, Is, Same
<1>6. session[t] \in Session /\ session[t].rev \in Nat  BY <1>a, <1>b, OpenSession, Fields
<1>7. session[t].pending.content \in server.unfit  BY <1>0, <1>1, <1>3 DEF AnswerInTurn
<1>8. RequestsInTurn(t)'
  <2>1. Yields(t)  BY <1>b, <1>1, <1>5, <1>6, <1>7 DEF Yields
  <2> QED  BY <1>0, <2>1, RequestsStayInTurn
<1>9. PendingInTurn(t)'  BY <1>5 DEF PendingInTurn
<1>10. WriterKnows(t)'
  <2> SUFFICES ASSUME WroteLast(t)' PROVE WriterKnows(t)'  BY DEF WriterKnows
  <2>1. WroteLast(t)  BY <1>1, <1>5 DEF WroteLast
  <2>2. session[t].pending \in Requests  BY <1>b, <1>3, PendingRequests
  <2>3. server.last # session[t].pending.id  BY <1>7, <2>2, RefusedIsNotWritten
  <2>4. server.rev = session[t].rev /\ server.last[2] < session[t].pending.gen
    BY <1>0, <1>1, <1>3, <2>1, <2>3 DEF WriterKnows
  <2>5. session[t].pending.gen <= session[t].gen
    <3>1. Bounded(RequestClaim(session[t].pending))  BY <2>2, InClaims DEF ClaimInv
    <3>2. /\ RequestClaim(session[t].pending).id = session[t].id
          /\ RequestClaim(session[t].pending).gen = session[t].pending.gen
      BY <1>b, <1>3, <2>2, ClaimFields DEF RequestClaim, HeldInv, Own
    <3>3. session[t].id # None  BY <1>6, Fields DEF NoneAssumption
    <3> QED  BY <1>b, <3>1, <3>2, <3>3 DEF Bounded
  <2>6. session[t].pending.gen \in Nat  BY <1>2, <1>3 DEF Request, BoardAssumption
  <2>7. server.last[2] < session[t].gen
    <3>1. server.last[2] \in Nat /\ session[t].gen \in Nat  BY <1>b, <2>1, WriterIsAhead
    <3> QED  BY <2>4, <2>5, <2>6, <3>1
  <2> QED  BY <1>1, <1>5, <2>4, <2>7 DEF WriterKnows
<1>11. AnswerInTurn(t)' /\ ConflictInTurn(t)'  BY <1>1, <1>5 DEF AnswerInTurn, ConflictInTurn
<1> QED  BY <1>0, <1>5, <1>8, <1>9, <1>10, <1>11 DEF InTurn

\* A new session has no requests, and the server knows nothing of it.
LEMMA StartInTurn ==
  ASSUME BoardAssumption, NoneAssumption, TypeOK, TypeOK', BoundInv, OwnInv, OwnInv', ClaimInv, [Next]_vars,
         UNCHANGED <<server, saving, net>>,
         NEW t \in Tab, opening[t] # None, saving[t] = "no", NEW u \in Tab \cup {None}, NEW z, Starts(t, u, z), Open(t)'
  PROVE  InTurn(t)'
<1>1. /\ session'[t] = z /\ z.id = <<t, opens>> /\ z.pending = None /\ z.life = "active"
  <2>1. z = NewSession(t, u) /\ BeginsWith(t, u, z)  BY DEF Starts
  <2>2. z.life = "active"  BY <2>1, BeginsFields
  <2> QED  BY <2>1, <2>2 DEF BeginsWith, Begins
<1>2. net'[t] = None /\ saving'[t] = "no"  BY DEF OwnInv, Own
<1>3. z.id \in SessionId
  <2>1. z \in Session  BY DEF Starts, BeginsWith
  <2> QED  BY <2>1, Fields
<1>4. ~WroteLast(t)'
  <2>1. Bounded(ServerClaim) /\ ServerClaim.id = server.last[1]  BY InClaims, ClaimFields DEF ClaimInv, ServerClaim
  <2>2. server.last[1] # <<t, opens>>
    <3>1. CASE server.last[1] \in SessionId  BY <2>1, <3>1, StartIsNew
    <3>2. CASE server.last[1] \notin SessionId  BY <1>1, <1>3, <3>2
    <3> QED  BY <3>1, <3>2
  <2> QED  BY <1>1, <2>2 DEF WroteLast
<1>5. ASSUME NEW r \in Requests', r.id[1] = session'[t].id PROVE FALSE
  <2>0. RestType  BY DEF TypeOK, RestType
  <2>1. r \in Requests  BY <1>1, <1>2, <1>5, <2>0, OwnRequests
  <2>2. Bounded(RequestClaim(r)) /\ RequestClaim(r).id = r.id[1]
    BY <2>1, InClaims, ClaimFields DEF ClaimInv, RequestClaim
  <2> QED  BY <1>1, <1>3, <1>5, <2>2, StartIsNew
<1>6. RequestsInTurn(t)'  BY <1>5 DEF RequestsInTurn
<1> QED
  BY <1>1, <1>2, <1>4, <1>6 DEF InTurn, PendingInTurn, WriterKnows, AnswerInTurn, ConflictInTurn

\* A write changes the revision, the content and the last mutation, and was not refused.
WritesFit(r) ==
  Writes(r) /\ server.last # r.id /\ server'.unfit = server.unfit /\ r.content \notin server.unfit

LEMMA WrittenFits ==
  ASSUME TypeOK, NEW r \in Request, server' = Written(r)
  PROVE  UNCHANGED server \/ WritesFit(r)
<1>1. CASE ~(Verdict(r) = "ok" /\ server.last # r.id)  BY <1>1 DEF Written
<1>2. CASE Verdict(r) = "ok" /\ server.last # r.id
  <2>1. server.rev = r.rev /\ r.content \notin server.unfit  BY <1>2 DEF Verdict
  <2>2. server' = [server EXCEPT !.rev = @ + 1, !.content = r.content, !.last = r.id]
    BY <1>2 DEF Written
  <2>3. server \in [rev : Nat, content : SUBSET Edit, last : Mutation, unfit : Unfit]  BY DEF TypeOK
  <2>4. /\ server'.rev = server.rev + 1 /\ server'.content = r.content /\ server'.last = r.id
        /\ server'.unfit = server.unfit
    BY <2>2, <2>3
  <2> QED  BY <1>2, <2>1, <2>4 DEF WritesFit, Writes
<1> QED  BY <1>1, <1>2

LEMMA FitSteps ==
  ASSUME TypeOK, [Next]_vars
  PROVE  UNCHANGED server \/ \E r \in Requests : WritesFit(r)
<1>1. ASSUME NEW t \in Tab, Serve(t) PROVE UNCHANGED server \/ \E r \in Requests : WritesFit(r)
  <2>1. net[t] # None /\ server' = Written(net[t].req) /\ net[t].req \in Request  BY <1>1 DEF Serve, TypeOK
  <2> QED  BY <2>1, WrittenFits, NetRequests
<1>2. ASSUME NEW r \in stray, ServeStray(r) PROVE UNCHANGED server \/ \E q \in Requests : WritesFit(q)
  <2>1. server' = Written(r) /\ r \in Request /\ r \in Requests  BY <1>2 DEF ServeStray, TypeOK, Requests
  <2> QED  BY <2>1, WrittenFits
<1>3. ASSUME NEW t \in Tab,
             \/ Change(t) \/ DraftTimer(t) \/ LocalEnds(t) \/ LocalFails(t)
             \/ SaveTimer(t) \/ SaveNow(t) \/ KeepDraft(t) \/ Send(t) \/ UploadFails(t)
             \/ SaveOk(t) \/ Settle(t) \/ EndSave(t) \/ SaveFails(t) \/ Lose(t)
             \/ Trash(t) \/ TrashFlushed(t) \/ TrashOk(t) \/ TrashFails(t) \/ Retire(t)
             \/ Fetch(t) \/ Build(t) \/ Copy(t) \/ CopyMade(t) \/ CopyFails(t) \/ Close(t)
      PROVE  UNCHANGED server
  BY <1>3 DEF Change, DraftTimer, LocalEnds, LocalFails, SaveTimer, SaveNow, KeepDraft, Send, UploadFails, SaveOk,
     Settle, EndSave, SaveFails, Lose, Trash, TrashFlushed, TrashOk, TrashFails, Retire, Fetch, Build,
     Copy, CopyMade, CopyFails, Close
<1>4. UNCHANGED vars => UNCHANGED server  BY DEF vars
<1> QED  BY <1>1, <1>2, <1>3, <1>4 DEF Next, Online, Unmount

LEMMA FitsStep ==
  ASSUME TypeOK, ServerFits, [Next]_vars
  PROVE  ServerFits'
BY FitSteps DEF ServerFits, WritesFit, Writes

\* The request that was written, if it is of the session of u, is the one under way.
LEMMA WriteIsPending ==
  ASSUME BoardAssumption, NoneAssumption, TypeOK, FreshSessions, NEW u \in Tab, Open(u), InTurn(u),
         NEW r \in Requests, WritesFit(r), r.id[1] = session[u].id
  PROVE  /\ r = session[u].pending /\ session[u].pending # None
         /\ session[u].rev = server.rev /\ saving[u] # "settle" /\ session[u].status # "conflict"
<1>1. r \in Request /\ r.rev \in Nat  BY RequestTypes
<1>2. r # None  BY <1>1 DEF NoneAssumption
<1>3. session[u].rev \in Nat
  <2>1. session[u] \in Session  BY DEF TypeOK, Open
  <2> QED  BY <2>1, Fields
<1>4. r.rev = server.rev /\ r.content \notin server.unfit  BY DEF WritesFit, Writes
<1>5. session[u].rev <= server.rev  BY DEF FreshSessions, FreshSession
<1>6. RequestsInTurn(u) /\ PendingInTurn(u) /\ ConflictInTurn(u)  BY DEF InTurn
<1>7. r.rev <= session[u].rev  BY <1>6 DEF RequestsInTurn
<1>8. r.rev = session[u].rev  BY <1>1, <1>3, <1>4, <1>5, <1>7
<1>9. r = session[u].pending  BY <1>4, <1>6, <1>8 DEF RequestsInTurn
<1>10. saving[u] # "settle"  BY <1>1, <1>2, <1>6, <1>8, <1>9 DEF PendingInTurn
<1>11. session[u].status # "conflict"
  BY <1>2, <1>3, <1>4, <1>6, <1>8, <1>9 DEF ConflictInTurn
<1> QED  BY <1>2, <1>4, <1>8, <1>9, <1>10, <1>11

\* All of a tab but its answer stays in turn when the server is written.
LEMMA WriteInTurn ==
  ASSUME BoardAssumption, NoneAssumption, TypeOK, TypeOK', OwnInv', FreshSessions, [Next]_vars,
         UNCHANGED <<session, saving>>, NEW u \in Tab, Open(u), Saves(u)', InTurn(u),
         NEW r \in Requests, WritesFit(r)
  PROVE  RequestsInTurn(u)' /\ PendingInTurn(u)' /\ WriterKnows(u)' /\ ConflictInTurn(u)'
<1>0. RequestsInTurn(u) /\ PendingInTurn(u) /\ ConflictInTurn(u)  BY DEF InTurn
<1>1. session[u].rev \in Nat /\ server.rev \in Nat
  <2>1. session[u] \in Session  BY DEF TypeOK, Open
  <2> QED  BY <2>1, Fields DEF TypeOK
<1>2. /\ server'.rev = server.rev + 1 /\ server'.last = r.id /\ server'.unfit = server.unfit
  BY DEF WritesFit, Writes
<1>3. RequestsInTurn(u)'
  <2>1. Yields(u)  BY <1>1, <1>2 DEF Yields
  <2>2. Open(u)'  BY DEF Open
  <2> QED  BY <1>0, <2>1, <2>2, RequestsStayInTurn
<1>4. PendingInTurn(u)'  BY <1>0 DEF PendingInTurn
<1>5. ConflictInTurn(u)'  BY <1>0, <1>1, <1>2 DEF ConflictInTurn
<1>6. WriterKnows(u)'
  <2> SUFFICES ASSUME WroteLast(u)' PROVE WriterKnows(u)'  BY DEF WriterKnows
  <2>1. r.id[1] = session[u].id  BY <1>2 DEF WroteLast
  <2>2. /\ r = session[u].pending /\ session[u].pending # None
        /\ session[u].rev = server.rev /\ saving[u] # "settle" /\ session[u].status # "conflict"
    BY <2>1, WriteIsPending
  <2> QED  BY <1>1, <1>2, <2>2 DEF WriterKnows
<1> QED  BY <1>3, <1>4, <1>5, <1>6

\* An answer that was given before is not of a session that could write now.
LEMMA AnswersAreOld ==
  ASSUME BoardAssumption, NoneAssumption, TypeOK, FreshSessions, FreshAnswers,
         UNCHANGED session, NEW u \in Tab, net'[u] = net[u], Open(u), InTurn(u),
         NEW r \in Requests, WritesFit(r)
  PROVE  AnswerInTurn(u)'
<1>0. AnswerInTurn(u)  BY DEF InTurn
<1>1. session[u].rev \in Nat /\ server.rev \in Nat
  <2>1. session[u] \in Session  BY DEF TypeOK, Open
  <2> QED  BY <2>1, Fields DEF TypeOK
<1>2. /\ server'.rev = server.rev + 1 /\ server'.last = r.id /\ server'.unfit = server.unfit
  BY DEF WritesFit, Writes
<1>3. WroteLast(u)' => session[u].rev = server.rev
  <2>1. WroteLast(u)' => r.id[1] = session[u].id  BY <1>2 DEF WroteLast
  <2> QED  BY <2>1, WriteIsPending
<1>4. net[u] # None => net[u].rev \in Nat  BY DEF TypeOK
<1>5. ASSUME net[u] # None, net[u].answer = "ok"
      PROVE  net[u].rev > session[u].rev /\ ~WroteLast(u)'
  <2>1. net[u].rev > session[u].rev  BY <1>0, <1>5 DEF AnswerInTurn
  <2>2. net[u].rev <= server.rev  BY <1>5 DEF FreshAnswers
  <2> QED  BY <1>1, <1>3, <1>4, <1>5, <2>1, <2>2
<1>6. ASSUME net[u] # None, net[u].answer = "refused"
      PROVE  net[u].req.content \in server.unfit
  BY <1>0, <1>6 DEF AnswerInTurn
<1>7. ASSUME net[u] # None, net[u].answer = "conflict"
      PROVE  session[u].rev < server'.rev /\ ~WroteLast(u)'
  <2>1. session[u].rev < server.rev  BY <1>0, <1>7 DEF AnswerInTurn
  <2> QED  BY <1>1, <1>2, <1>3, <2>1
<1> QED  BY <1>2, <1>5, <1>6, <1>7 DEF AnswerInTurn

\* The answer to a request is of the server as it is then.
LEMMA ServeInTurn ==
  ASSUME BoardAssumption, NoneAssumption, TypeOK, OwnInv, HeldInv, FreshSessions,
         NEW t \in Tab, Serve(t), Open(t), Saves(t), InTurn(t)
  PROVE  AnswerInTurn(t)'
<1> DEFINE r == net[t].req
<1>0. PendingInTurn(t) /\ WriterKnows(t)  BY DEF InTurn
<1>1. /\ net[t] # None /\ UNCHANGED session /\ server' = Written(r)
      /\ net[t] \in [req : Request, answer : {"none", "ok", "conflict", "refused"}, rev : Nat]
  BY DEF Serve, TypeOK
<1>2. net'[t].req = r /\ net'[t].answer = Verdict(r) /\ net'[t].rev = server'.rev
  <2> DEFINE a == Verdict(r)
             n == server'.rev
             x == [net[t] EXCEPT !.answer = a, !.rev = n]
  <2>1. net' = [net EXCEPT ![t] = x]  BY DEF Serve, TypeOK
  <2> HIDE DEF a, n
  <2>2. x.req = net[t].req /\ x.answer = a /\ x.rev = n  BY <1>1
  <2> HIDE DEF x
  <2>3. net'[t] = x  BY <2>1 DEF TypeOK
  <2> QED  BY <2>2, <2>3 DEF a, n
<1>3. r \in Request /\ r = session[t].pending /\ session[t].pending # None /\ saving[t] = "sent"
  BY <1>1 DEF Saves, NoneAssumption
<1>4. session[t].rev \in Nat /\ server.rev \in Nat
  <2>1. session[t] \in Session  BY DEF TypeOK, Open
  <2> QED  BY <2>1, Fields DEF TypeOK
<1>5. session[t].rev <= server.rev  BY DEF FreshSessions, FreshSession
<1>6. r.rev = session[t].rev  BY <1>0, <1>3 DEF PendingInTurn
<1>7. r.id[2] = r.gen /\ r.gen \in Nat
  BY <1>1, <1>3, NetRequests DEF HeldInv, Request, BoardAssumption
<1>8. WroteLast(t) =>
        \/ server.last = r.id /\ server.rev > session[t].rev
        \/ server.rev = session[t].rev /\ server.last[2] < r.id[2]
  BY <1>0, <1>3, <1>7 DEF WriterKnows
<1>9. server.last[2] \in Nat  BY DEF TypeOK, Mutation, BoardAssumption
<1>10. UNCHANGED server \/ WritesFit(r)  BY <1>1, <1>3, WrittenFits
<1> HIDE DEF r
<1>11. CASE WritesFit(r)
  <2>1. /\ server'.rev = server.rev + 1 /\ server'.last = r.id /\ Verdict(r) = "ok"
    <3>1. server.rev = r.rev /\ server.last # r.id /\ r.content \notin server.unfit
      BY <1>11 DEF WritesFit, Writes
    <3> QED  BY <1>11, <3>1 DEF WritesFit, Writes, Verdict
  <2>2. net'[t].rev > session'[t].rev  BY <1>1, <1>2, <1>4, <1>5, <2>1
  <2> QED  BY <1>2, <2>1, <2>2 DEF AnswerInTurn
<1>12. CASE UNCHANGED server
  <2>1. CASE Verdict(r) = "ok"
    <3>1. server.last = r.id
      <4>1. SUFFICES ASSUME server.last # r.id PROVE FALSE  OBVIOUS
      <4>2. server'.last = r.id
        <5>1. server' = [server EXCEPT !.rev = @ + 1, !.content = r.content, !.last = r.id]
          BY <1>1, <2>1, <4>1 DEF Written, r
        <5>2. server \in [rev : Nat, content : SUBSET Edit, last : Mutation, unfit : Unfit]  BY DEF TypeOK
        <5> QED  BY <5>1, <5>2
      <4> QED  BY <1>12, <4>1, <4>2
    <3>2. WroteLast(t)
      <4>1. r.id[1] = session[t].id  BY <1>3 DEF OwnInv, Own
      <4> QED  BY <3>1, <4>1 DEF WroteLast
    <3>3. server.rev > session[t].rev  BY <1>8, <1>9, <3>1, <3>2
    <3> QED  BY <1>1, <1>2, <1>12, <2>1, <3>1, <3>3 DEF AnswerInTurn
  <2>2. CASE Verdict(r) = "refused"
    <3>1. r.content \in server.unfit  BY <2>2 DEF Verdict
    <3> QED  BY <1>2, <1>12, <2>2, <3>1 DEF AnswerInTurn
  <2>3. CASE Verdict(r) = "conflict"
    <3>1. server.last # r.id /\ server.rev # r.rev  BY <2>3 DEF Verdict
    <3>2. session[t].rev < server.rev  BY <1>4, <1>5, <1>6, <3>1
    <3>3. ~WroteLast(t)  BY <1>4, <1>8, <3>1, <3>2
    <3>4. ~WroteLast(t)'  BY <1>1, <1>12, <3>3 DEF WroteLast
    <3> QED  BY <1>1, <1>2, <1>12, <2>3, <3>2, <3>4 DEF AnswerInTurn
  <2>4. Verdict(r) \in {"ok", "refused", "conflict"}  BY DEF Verdict
  <2> QED  BY <2>1, <2>2, <2>3, <2>4
<1> QED  BY <1>10, <1>11, <1>12

\* No trash is begun while there has been none.
LEMMA NoTrashBegins ==
  ASSUME NoneAssumption, TypeOK, OwnInv, ScheduleInv, HeldInv, OwnInv', HeldInv', [Next]_vars,
         \A t \in Tab : InTurn(t), NEW u \in Tab
  PROVE  Saves(u)'
<1>1. saving[u] # "trash"  BY NetIsSave DEF InTurn
<1>2. ~TrashFlushed(u)
  <2>1. Open(u) => session[u].life = "active"  BY DEF InTurn
  <2> QED  BY <2>1 DEF TrashFlushed
<1>3. saving'[u] # "trash"
  <2>0. saving \in [Tab -> {"no", "draft", "sent", "settle", "end", "trash", "retire"}]  BY DEF TypeOK
  <2>1. ASSUME NEW t \in Tab, SaveTimer(t) \/ SaveNow(t) \/ Trash(t) PROVE saving'[u] \in {saving[u], "draft"}
    BY <2>0, <2>1 DEF SaveTimer, SaveNow, Trash, Flush
  <2>2. ASSUME NEW t \in Tab,
               \/ Send(t) \/ UploadFails(t) \/ SaveOk(t) \/ Settle(t) \/ EndSave(t) \/ SaveFails(t) \/ Lose(t)
               \/ TrashOk(t) \/ TrashFails(t) \/ Retire(t) \/ Close(t)
        PROVE  saving'[u] \in {saving[u], "no", "sent", "settle", "end", "retire"}
    BY <2>0, <2>2 DEF Send, UploadFails, SaveOk, Settle, EndSave, SaveFails, Lose, TrashOk, TrashFails,
       Retire, Close
  <2>3. ASSUME NEW t \in Tab,
               \/ Change(t) \/ DraftTimer(t) \/ KeepDraft(t) \/ LocalEnds(t) \/ LocalFails(t) \/ Serve(t)
               \/ Fetch(t) \/ Build(t) \/ Copy(t) \/ CopyMade(t) \/ CopyFails(t)
        PROVE  saving' = saving
    BY <2>3 DEF Change, DraftTimer, KeepDraft, LocalEnds, LocalFails, Serve, Fetch, Build, Copy, CopyMade, CopyFails
  <2>4. ASSUME NEW t \in Tab, TrashFlushed(t) PROVE saving'[u] = saving[u]
    BY <1>2, <2>0, <2>4 DEF TrashFlushed
  <2>5. ASSUME NEW r \in stray, ServeStray(r) PROVE saving' = saving  BY <2>5 DEF ServeStray
  <2>6. UNCHANGED vars => saving' = saving  BY DEF vars
  <2> QED  BY <1>1, <2>1, <2>2, <2>3, <2>4, <2>5, <2>6 DEF Next, Online, Unmount
<1> QED  BY <1>3 DEF OwnInv, Own, HeldInv, SaveHeld, Saves

LEMMA GoesGoesOn ==
  ASSUME NEW t \in Tab, NEW g, NEW v, NEW o,
         Goes(t, session[t].rev, g, v, session[t].life, session[t].pending, o),
         v = "conflict" => session[t].status = "conflict",
         v = session[t].status \/ session[t].status # "saved" \/ session[t].pending # None,
         saving'[t] = "settle" <=> saving[t] = "settle", net'[t] = net[t] \/ net'[t] = None
  PROVE  GoesOn(t)
BY DEF Goes, GoesOn, Is, Same

\* What holds before a step, and what is known to hold after it.
TurnBefore ==
  TypeOK /\ SaveInv /\ ScheduleInv /\ HeldInv /\ ServerFits /\ \A t \in Tab : InTurn(t)
TurnAfter == TypeOK /\ OwnInv /\ \A t \in Tab : Saves(t)

LEMMA BeforeUses ==
  ASSUME TurnBefore
  PROVE  /\ TypeOK /\ BoundInv /\ OwnInv /\ ClaimInv /\ FreshSessions /\ FreshAnswers /\ ScheduleInv
         /\ HeldInv /\ ServerFits
         /\ \A t \in Tab : InTurn(t) /\ Saves(t) /\ saving[t] \notin {"trash", "retire"}
         /\ \A t \in Tab : net[t] # None => Open(t) /\ session[t].status # "conflict"
<1>1. /\ TypeOK /\ BoundInv /\ OwnInv /\ ClaimInv /\ FreshSessions /\ FreshAnswers /\ ScheduleInv
      /\ HeldInv /\ ServerFits /\ \A t \in Tab : InTurn(t)
  BY DEF TurnBefore, SaveInv, FreshInv
<1>2. \A t \in Tab : Open(t) => session[t].life = "active"  BY <1>1 DEF InTurn
<1>3. ASSUME NEW t \in Tab
      PROVE  /\ Saves(t) /\ saving[t] \notin {"trash", "retire"}
             /\ net[t] # None => Open(t) /\ session[t].status # "conflict"
  BY <1>1, <1>2, NetIsSave
<1> QED  BY <1>1, <1>3

LEMMA TurnAlone ==
  ASSUME BoardAssumption, NoneAssumption, TurnBefore, TurnAfter', [Next]_vars, UNCHANGED server,
         NEW t \in Tab, Alone(t), Open(t)' => InTurn(t)', NEW u \in Tab
  PROVE  InTurn(u)'
<1>0. /\ TypeOK /\ ClaimInv /\ InTurn(u) /\ Saves(u) /\ TypeOK' /\ OwnInv'
  BY BeforeUses DEF TurnAfter
<1>1. CASE ~Open(u)'  BY <1>1 DEF InTurn
<1>2. CASE Open(u)' /\ u = t  BY <1>2
<1>3. CASE Open(u)' /\ u # t
  <2>1. session'[u] = session[u] /\ saving'[u] = saving[u] /\ net'[u] = net[u]  BY <1>3 DEF Alone
  <2> QED  BY <1>0, <1>3, <2>1, StaysInTurn
<1> QED  BY <1>1, <1>2, <1>3

LEMMA GoesOnAlone ==
  ASSUME BoardAssumption, NoneAssumption, TurnBefore, TurnAfter', [Next]_vars, UNCHANGED server,
         NEW t \in Tab, Alone(t), GoesOn(t), NEW u \in Tab
  PROVE  InTurn(u)'
<1>0. /\ TypeOK /\ ClaimInv /\ InTurn(t) /\ TypeOK' /\ OwnInv' /\ Saves(t)'
  BY BeforeUses DEF TurnAfter
<1>1. Open(t)' => InTurn(t)'  BY <1>0, GoesOnInTurn
<1> QED  BY <1>1, TurnAlone

LEMMA ServerTurns ==
  ASSUME BoardAssumption, NoneAssumption, TurnBefore, TurnAfter', [Next]_vars, UNCHANGED <<session, saving>>,
         NEW u \in Tab, net'[u] = net[u] \/ Serve(u), Open(u)
  PROVE  InTurn(u)'
<1>0. /\ TypeOK /\ OwnInv /\ ClaimInv /\ HeldInv /\ FreshSessions /\ FreshAnswers /\ InTurn(u) /\ Saves(u)
      /\ TypeOK' /\ OwnInv' /\ Saves(u)' /\ Open(u)'
  BY BeforeUses DEF TurnAfter, Open
<1>1. session[u].life = "active"  BY <1>0 DEF InTurn
<1>2. CASE UNCHANGED server
  <2>1. CASE net'[u] = net[u]  BY <1>0, <1>2, <2>1, StaysInTurn
  <2>2. CASE Serve(u)
    <3>1. AnswerInTurn(u)'  BY <1>0, <2>2, ServeInTurn
    <3>2. Yields(u)
      <4>1. session[u] \in Session  BY <1>0 DEF TypeOK, Open
      <4> QED  BY <1>2, <4>1, Fields DEF Yields
    <3>3. RequestsInTurn(u) /\ PendingInTurn(u) /\ WriterKnows(u) /\ ConflictInTurn(u)  BY <1>0 DEF InTurn
    <3>4. RequestsInTurn(u)'  BY <1>0, <3>2, <3>3, RequestsStayInTurn
    <3>5. PendingInTurn(u)' /\ WriterKnows(u)' /\ ConflictInTurn(u)'
      BY <1>2, <3>3 DEF PendingInTurn, WriterKnows, ConflictInTurn, WroteLast
    <3> QED  BY <1>1, <3>1, <3>4, <3>5 DEF InTurn
  <2> QED  BY <2>1, <2>2
<1>3. ASSUME NEW r \in Requests, WritesFit(r) PROVE InTurn(u)'
  <2>1. RequestsInTurn(u)' /\ PendingInTurn(u)' /\ WriterKnows(u)' /\ ConflictInTurn(u)'
    BY <1>0, <1>3, WriteInTurn
  <2>2. CASE net'[u] = net[u]
    <3>1. AnswerInTurn(u)'  BY <1>0, <1>3, <2>2, AnswersAreOld
    <3> QED  BY <1>1, <2>1, <3>1 DEF InTurn
  <2>3. CASE Serve(u)
    <3>1. AnswerInTurn(u)'  BY <1>0, <2>3, ServeInTurn
    <3> QED  BY <1>1, <2>1, <3>1 DEF InTurn
  <2> QED  BY <2>2, <2>3
<1> QED  BY <1>0, <1>2, <1>3, FitSteps

LEMMA TurnSteps ==
  ASSUME BoardAssumption, NoneAssumption, TurnBefore, TurnAfter', [Next]_vars, trashes' = 0, NEW u \in Tab
  PROVE  InTurn(u)'
<1>0. /\ TypeOK /\ BoundInv /\ OwnInv /\ ClaimInv /\ FreshSessions /\ FreshAnswers /\ ScheduleInv
      /\ HeldInv /\ ServerFits
      /\ \A t \in Tab : InTurn(t) /\ Saves(t) /\ saving[t] \notin {"trash", "retire"}
      /\ \A t \in Tab : net[t] # None => Open(t) /\ session[t].status # "conflict"
  BY BeforeUses
<1>x. TypeOK' /\ OwnInv' /\ \A t \in Tab : Saves(t)'  BY DEF TurnAfter
<1>a. /\ SessionType /\ local \in [Tab -> Seq(Operation)] /\ net \in NetType
      /\ saving \in [Tab -> {"no", "draft", "sent", "settle", "end", "trash", "retire"}]
  BY <1>0 DEF TypeOK, SessionType, NetType
<1>n. net \in [Tab -> [req : Request, answer : {"none", "ok", "conflict", "refused"}, rev : Nat] \cup {None}]
  BY <1>a DEF NetType
<1>b. \A t \in Tab : Own(t) /\ Scheduled(t)  BY <1>0 DEF OwnInv, ScheduleInv
<1>l. \A t \in Tab : Open(t) => session[t].life = "active"  BY <1>0 DEF InTurn
<1>1. ASSUME NEW t \in Tab, Change(t) PROVE InTurn(u)'
  <2>1. Edits(t) /\ UNCHANGED <<server, saving, net>>  BY <1>0, <1>1, ChangeEdits DEF Change
  <2>2. GoesOn(t)  BY <2>1 DEF GoesOn, Edits, EditOf
  <2>3. Alone(t)  BY <2>1 DEF Alone, Edits, EditOf
  <2> QED  BY <2>1, <2>2, <2>3, GoesOnAlone
<1>2. ASSUME NEW t \in Tab, Aside(t) PROVE InTurn(u)'
  <2>1. UNCHANGED <<server, saving, net>>  BY <1>2, <1>a, AsideGoes
  <2>2. Goes(t, session[t].rev, session[t].localGen, session[t].status, session[t].life,
             session[t].pending, session[t].recovered)
    BY <1>2, <1>a, AsideGoes
  <2>3. GoesOn(t) /\ Alone(t)  BY <2>1, <2>2, GoesGoesOn DEF Alone, Goes
  <2> QED  BY <2>1, <2>3, GoesOnAlone
<1>3. ASSUME NEW t \in Tab, LocalEnds(t) PROVE InTurn(u)'
  <2>1. UNCHANGED <<server, saving, net>>  BY <1>3 DEF LocalEnds
  <2>2. CASE UNCHANGED session
    <3>1. Open(u)' => InTurn(u)'  BY <1>0, <1>x, <2>1, <2>2, StaysInTurn
    <3> QED  BY <3>1 DEF InTurn
  <2>3. CASE Goes(t, session[t].rev, Head(local[t]).draft.token[2], session[t].status,
                  session[t].life, session[t].pending, session[t].recovered)
    <3>1. GoesOn(t) /\ Alone(t)  BY <2>1, <2>3, GoesGoesOn DEF Alone, Goes
    <3> QED  BY <2>1, <3>1, GoesOnAlone
  <2> QED  BY <1>3, <1>a, <2>2, <2>3, LocalEndsGoes
<1>4. ASSUME NEW t \in Tab, SaveTimer(t) \/ SaveNow(t) PROVE InTurn(u)'
  <2>1. Open(t) /\ Flush(t, session[t].life) /\ session[t].life \in {"active", "trashing"}
    BY <1>4, <1>a, OpenSession, Fields DEF SaveTimer, SaveNow
  <2>2. UNCHANGED <<server, net>>  BY <1>4 DEF SaveTimer, SaveNow
  <2>3. PICK v \in Statuses :
          /\ v = IF CanSave(t) THEN "saving" ELSE session[t].status
          /\ Goes(t, session[t].rev, session[t].localGen, v, session[t].life, session[t].pending,
                  session[t].recovered)
    BY <1>a, <2>1, FlushGoes
  <2>4. /\ saving'[t] = saving[t] \/ (saving'[t] = "draft" /\ saving[t] = "no")
        /\ \A w \in Tab \ {t} : saving'[w] = saving[w]
    BY <1>a, <2>1 DEF Flush, CanSave
  <2>5. v = session[t].status \/ (v = "saving" /\ session[t].status # "saved")  BY <2>3 DEF CanSave
  <2>6. GoesOn(t)  BY <2>2, <2>3, <2>4, <2>5, GoesGoesOn
  <2>7. Alone(t)  BY <2>2, <2>3, <2>4 DEF Alone, Goes
  <2> QED  BY <2>2, <2>6, <2>7, GoesOnAlone
<1>5. ASSUME NEW t \in Tab, Send(t) PROVE InTurn(u)'
  <2>1. Open(t) /\ UNCHANGED server  BY <1>5, <1>b DEF Send, Own
  <2>2. Goes(t, session[t].rev, session[t].localGen, session[t].status,
              session[t].life, ToSend(t), session[t].recovered)
    BY <1>5, <1>a, <2>1, SendGoes
  <2>3. \A w \in Tab \ {t} : saving'[w] = saving[w] /\ net'[w] = net[w]
    BY <1>5, <1>a, <1>n DEF Send, Sent
  <2>4. Alone(t)  BY <2>2, <2>3 DEF Alone, Goes
  <2>5. Open(t)' => InTurn(t)'  BY <1>0, <1>x, <1>5, SendInTurn
  <2> QED  BY <2>1, <2>4, <2>5, TurnAlone
<1>6. ASSUME NEW t \in Tab, UploadFails(t) PROVE InTurn(u)'
  <2>1. Open(t) /\ "error" \in Statuses /\ UNCHANGED <<server, net>>
    BY <1>6, <1>b DEF UploadFails, Own, Statuses
  <2>2. /\ saving[t] = "draft" /\ saving'[t] = "no"
        /\ \A w \in Tab \ {t} : saving'[w] = saving[w]
    BY <1>6, <1>a DEF UploadFails
  <2>3. Goes(t, session[t].rev, session[t].localGen, "error",
              session[t].life, session[t].pending, session[t].recovered)
    BY <1>6, <1>a, <2>1, StatusGoes DEF UploadFails
  <2>4. session[t].status # "saved"  BY <1>b, <2>1, <2>2 DEF Scheduled
  <2>5. GoesOn(t)  BY <2>1, <2>2, <2>3, <2>4 DEF GoesOn, Goes, Is, Same
  <2>6. Alone(t)  BY <2>1, <2>2, <2>3 DEF Alone, Goes
  <2> QED  BY <2>1, <2>5, <2>6, GoesOnAlone
<1>7. ASSUME NEW t \in Tab, Serve(t) PROVE InTurn(u)'
  <2>1. UNCHANGED <<session, saving>> /\ \A w \in Tab \ {t} : net'[w] = net[w]
    BY <1>n, <1>7 DEF Serve
  <2>2. Open(u) => InTurn(u)'  BY <1>7, <2>1, ServerTurns
  <2>3. Open(u)' => Open(u)  BY <2>1 DEF Open
  <2> QED  BY <2>2, <2>3 DEF InTurn
<1>8. ASSUME NEW r \in stray, ServeStray(r) PROVE InTurn(u)'
  <2>1. UNCHANGED <<session, saving, net>>  BY <1>8 DEF ServeStray
  <2>2. Open(u) => InTurn(u)'  BY <2>1, ServerTurns
  <2>3. Open(u)' => Open(u)  BY <2>1 DEF Open
  <2> QED  BY <2>2, <2>3 DEF InTurn
<1>9. ASSUME NEW t \in Tab, SaveOk(t) \/ Settle(t) \/ SaveFails(t) PROVE InTurn(u)'
  <2>1. Open(t) /\ UNCHANGED server
    BY <1>9, <1>b DEF SaveOk, Settle, SaveFails, Answered, Own
  <2>2. \A w \in Tab \ {t} : session'[w] = session[w] /\ saving'[w] = saving[w] /\ net'[w] = net[w]
    <3>1. CASE SaveOk(t)  BY <1>a, <1>n, <3>1 DEF SaveOk, SessionType
    <3>2. CASE Settle(t)
      <4>1. \A w \in Tab \ {t} : saving'[w] = saving[w] /\ net'[w] = net[w]
        BY <1>a, <3>2 DEF Settle
      <4>2. \A w \in Tab \ {t} : session'[w] = session[w]
        BY <1>a, <2>1, <3>2, SettleGoes DEF Goes
      <4> QED  BY <4>1, <4>2
    <3>3. CASE SaveFails(t)
      <4>1. \A w \in Tab \ {t} : saving'[w] = saving[w] /\ net'[w] = net[w]
        BY <1>a, <1>n, <3>3 DEF SaveFails
      <4>2. \A w \in Tab \ {t} : session'[w] = session[w]  BY <1>a, <3>3 DEF SaveFails, SessionType
      <4> QED  BY <4>1, <4>2
    <3> QED  BY <1>9, <3>1, <3>2, <3>3
  <2>3. Alone(t)  BY <2>2 DEF Alone
  <2>4. ASSUME Open(t)' PROVE InTurn(t)'
    <3>1. CASE SaveOk(t)  BY <1>0, <1>x, <2>4, <3>1, SaveOkInTurn
    <3>2. CASE Settle(t)  BY <1>0, <1>x, <2>4, <3>2, SettleInTurn
    <3>3. CASE SaveFails(t) /\ net[t].answer = "conflict"
      BY <1>0, <1>x, <2>4, <3>3, ConflictAnswered
    <3>4. CASE SaveFails(t) /\ net[t].answer # "conflict"
      BY <1>0, <1>x, <2>4, <3>4, RefusalAnswered
    <3> QED  BY <1>9, <3>1, <3>2, <3>3, <3>4
  <2> QED  BY <2>1, <2>3, <2>4, TurnAlone
<1>10. ASSUME NEW t \in Tab, EndSave(t) PROVE InTurn(u)'
  <2>1. Open(t) /\ UNCHANGED <<server, net>>  BY <1>10, <1>b DEF EndSave, Own
  <2>2. saving[t] = "end" /\ saving'[t] = "no" /\ \A w \in Tab \ {t} : saving'[w] = saving[w]
    BY <1>10, <1>a DEF EndSave
  <2>3. Goes(t, session[t].rev, session[t].localGen,
              session[t].status, session[t].life, session[t].pending, session[t].recovered)
    BY <1>10, <1>a, <2>1, EndSaveGoes
  <2>4. GoesOn(t)  BY <2>1, <2>2, <2>3, GoesGoesOn
  <2>5. Alone(t)  BY <2>1, <2>2, <2>3 DEF Alone, Goes
  <2> QED  BY <2>1, <2>4, <2>5, GoesOnAlone
<1>11. ASSUME NEW t \in Tab, Lose(t) PROVE InTurn(u)'
  <2>1. Open(t) /\ net[t] # None /\ UNCHANGED server  BY <1>11, <1>b DEF Lose, Own
  <2>2. /\ saving'[t] = "no" /\ net'[t] = None
        /\ \A w \in Tab \ {t} : saving'[w] = saving[w] /\ net'[w] = net[w]
    BY <1>11, <1>a, <1>n DEF Lose
  <2>3. saving[t] = "sent" /\ session[t].pending # None
    <3>1. saving[t] = "sent" /\ net[t].req = session[t].pending  BY <1>0, <2>1 DEF Saves
    <3>2. net[t].req \in Request  BY <1>n, <2>1
    <3> QED  BY <3>1, <3>2 DEF NoneAssumption
  <2>4. PICK v, l : /\ v = IF saving[t] = "sent" THEN "error" ELSE session[t].status
                    /\ l = IF saving[t] = "trash" THEN "active" ELSE session[t].life
                    /\ Goes(t, session[t].rev, session[t].localGen, v, l,
                            session[t].pending, session[t].recovered)
    BY <1>11, <1>a, <2>1, LoseGoes
  <2>5. v = "error" /\ l = session[t].life  BY <2>3, <2>4
  <2>6. GoesOn(t)  BY <2>2, <2>3, <2>4, <2>5 DEF GoesOn, Goes, Is, Same
  <2>7. Alone(t)  BY <2>2, <2>4 DEF Alone, Goes
  <2> QED  BY <2>1, <2>6, <2>7, GoesOnAlone
<1>12. ASSUME NEW t \in Tab, Trash(t) \/ TrashFlushed(t) \/ TrashOk(t) \/ TrashFails(t) \/ Retire(t)
       PROVE  FALSE
  <2>1. trashes \in Nat  BY <1>0 DEF TypeOK
  <2>2. ~Trash(t)  BY <2>1 DEF Trash
  <2>3. ~TrashFlushed(t)  BY <1>l DEF TrashFlushed
  <2>4. ~(TrashOk(t) \/ TrashFails(t) \/ Retire(t))  BY <1>0 DEF TrashOk, TrashFails, Retire, Answered
  <2> QED  BY <1>12, <2>2, <2>3, <2>4
<1>13. ASSUME NEW t \in Tab, CopyMade(t) \/ Close(t) PROVE InTurn(u)'
  <2>1. /\ session'[t] = None /\ UNCHANGED server
        /\ \A w \in Tab \ {t} : session'[w] = session[w] /\ saving'[w] = saving[w] /\ net'[w] = net[w]
    BY <1>13, <1>a, <1>n DEF CopyMade, Close, SessionType
  <2>2. ~Open(t)' /\ Alone(t)  BY <2>1 DEF Alone, Open
  <2> QED  BY <2>1, <2>2, TurnAlone
<1>14. ASSUME NEW t \in Tab, Build(t) PROVE InTurn(u)'
  <2>1. opening[t] # None /\ UNCHANGED <<server, saving, net>>  BY <1>14 DEF Build
  <2>2. saving[t] = "no"  BY <1>14, <1>b DEF Build, Own
  <2>3. CASE UNCHANGED session
    <3>1. Open(u)' => InTurn(u)'  BY <1>0, <1>x, <2>1, <2>3, StaysInTurn
    <3> QED  BY <3>1 DEF InTurn
  <2>4. ASSUME NEW d \in Tab \cup {None}, NEW z, Starts(t, d, z) PROVE InTurn(u)'
    <3>1. Open(t)' => InTurn(t)'  BY <1>0, <1>x, <2>1, <2>2, <2>4, StartInTurn
    <3>2. \A w \in Tab \ {t} : session'[w] = session[w]  BY <2>4 DEF Starts, BeginsWith
    <3>3. Alone(t)  BY <2>1, <3>2 DEF Alone
    <3> QED  BY <2>1, <3>1, <3>3, TurnAlone
  <2> QED  BY <1>0, <1>14, <2>3, <2>4, BuildBegins
<1>15. ASSUME UNCHANGED <<server, session, saving, net>> PROVE InTurn(u)'
  <2>1. Open(u)' => InTurn(u)'  BY <1>0, <1>x, <1>15, StaysInTurn
  <2> QED  BY <2>1 DEF InTurn
<1>16. ASSUME NEW t \in Tab, LocalFails(t) \/ Fetch(t) PROVE UNCHANGED <<server, session, saving, net>>
  BY <1>16 DEF LocalFails, Fetch
<1>17. UNCHANGED vars => UNCHANGED <<server, session, saving, net>>  BY DEF vars
<1> QED
  BY <1>1, <1>2, <1>3, <1>4, <1>5, <1>6, <1>7, <1>8, <1>9, <1>10, <1>11, <1>12, <1>13, <1>14,
     <1>15, <1>16, <1>17 DEF Next, Online, Unmount, Aside

LEMMA TrashesGrow ==
  ASSUME TypeOK, [Next]_vars, trashes' = 0
  PROVE  trashes = 0
<1>0. trashes \in Nat  BY DEF TypeOK
<1>1. ASSUME NEW t \in Tab, Trash(t) PROVE trashes' = trashes + 1  BY <1>1 DEF Trash
<1>2. trashes' = trashes \/ \E t \in Tab : Trash(t)
  <2>1. ASSUME NEW t \in Tab,
             \/ Change(t) \/ DraftTimer(t) \/ LocalEnds(t) \/ LocalFails(t)
             \/ SaveTimer(t) \/ SaveNow(t) \/ KeepDraft(t) \/ Send(t) \/ UploadFails(t)
             \/ Serve(t) \/ SaveOk(t) \/ Settle(t) \/ EndSave(t) \/ SaveFails(t) \/ Lose(t)
             \/ TrashFlushed(t) \/ TrashOk(t) \/ TrashFails(t) \/ Retire(t)
             \/ Fetch(t) \/ Build(t) \/ Copy(t) \/ CopyMade(t) \/ CopyFails(t) \/ Close(t)
        PROVE  trashes' = trashes
    BY <2>1 DEF Change, DraftTimer, LocalEnds, LocalFails, SaveTimer, SaveNow, KeepDraft, Send, UploadFails, Serve,
       SaveOk, Settle, EndSave, SaveFails, Lose, TrashFlushed, TrashOk, TrashFails, Retire, Fetch,
       Build, Copy, CopyMade, CopyFails, Close, counters
  <2>2. ASSUME NEW r \in stray, ServeStray(r) PROVE trashes' = trashes  BY <2>2 DEF ServeStray, counters
  <2>3. UNCHANGED vars => trashes' = trashes  BY DEF vars
  <2> QED  BY <2>1, <2>2, <2>3 DEF Next, Online, Unmount
<1> QED  BY <1>0, <1>1, <1>2

LEMMA StepTurn ==
  ASSUME BoardAssumption, NoneAssumption, IInv, EditsInv, TurnInv, IInv', EditsInv', [Next]_vars
  PROVE  TurnInv'
<1>1. ServerFits'  BY FitsStep DEF IInv, TurnInv
<1>2. ASSUME trashes' = 0, NEW u \in Tab PROVE InTurn(u)'
  <2>1. trashes = 0  BY <1>2, TrashesGrow DEF IInv
  <2>2. TurnBefore  BY <2>1 DEF TurnBefore, IInv, EditsInv, TurnInv
  <2>3. TypeOK /\ OwnInv /\ ScheduleInv /\ HeldInv /\ OwnInv' /\ HeldInv' /\ TypeOK'
    BY DEF IInv, SaveInv, EditsInv
  <2>4. \A t \in Tab : Saves(t)'  BY <2>2, <2>3, NoTrashBegins DEF TurnBefore
  <2>5. TurnAfter'  BY <2>3, <2>4 DEF TurnAfter
  <2> QED  BY <1>2, <2>2, <2>5, TurnSteps
<1> QED  BY <1>1, <1>2 DEF TurnInv

LEMMA InitTurn ==
  ASSUME BoardAssumption, NoneAssumption, Init
  PROVE  TurnInv
<1>1. ServerFits
  <2>1. server.content = {} /\ server.unfit \in Unfit  BY DEF Init
  <2>2. server.unfit \subseteq (SUBSET (1..MaxEdits)) \ {{}}  BY <2>1 DEF BoardAssumption
  <2> QED  BY <2>1, <2>2 DEF ServerFits
<1>2. \A t \in Tab : InTurn(t)  BY DEF Init, InTurn, Open
<1> QED  BY <1>1, <1>2 DEF TurnInv

\* A session that wrote last is never told of a conflict: a save whose answer was lost is
\* repeated under its own id and does not meet itself (session.ts:181, 222).
THEOREM ConflictsAreReal == Spec => []ConflictIsReal
<1> USE BoardAssumption, NoneAssumption
<1>1. Init => IInv /\ EditsInv /\ TurnInv  BY InitInv, InitEdits, InitTurn
<1>2. IInv /\ EditsInv /\ TurnInv /\ [Next]_vars => (IInv /\ EditsInv /\ TurnInv)'
  <2> SUFFICES ASSUME IInv, EditsInv, TurnInv, [Next]_vars PROVE (IInv /\ EditsInv /\ TurnInv)'  OBVIOUS
  <2>1. IInv'  BY StepInv
  <2>2. EditsInv'  BY StepEdits
  <2>3. TurnInv'  BY <2>1, <2>2, StepTurn
  <2> QED  BY <2>1, <2>2, <2>3
<1>3. TurnInv => ConflictIsReal
  BY DEF TurnInv, ConflictIsReal, InTurn, WriterKnows, WroteLast
<1> QED  BY <1>1, <1>2, <1>3, PTL DEF Spec

=============================================================================
