---------------------------- MODULE TagAuditProofs ----------------------------
(***************************************************************************)
(* What the audit trail of TagService tells its readers, and what callers  *)
(* and observers can conclude, for every value of the constants.           *)
(***************************************************************************)
EXTENDS TagAudit, TagServiceProofs, FiniteSetTheorems

-------------------------------------------------------------------------------
(* Replays *)

IsReplay(first, trail, h) ==
  h = [n \in 0..Len(trail) |-> IF n = 0 THEN first ELSE Replayed(h[n - 1], trail[n])]

\* The recursion of Replay has one solution.  This grows with the trail, so that
\* it is shown along the steps of the service and not by an induction of its own.
Determined(first, trail) ==
  \E h : IsReplay(first, trail, h) /\ \A g : IsReplay(first, trail, g) => g = h

\* Replay is that solution.
LEMMA ReplayDefined ==
  ASSUME NEW first, NEW trail, Determined(first, trail)
  PROVE  IsReplay(first, trail, Replay(first, trail))
  <1>1. Replay(first, trail) = CHOOSE h : IsReplay(first, trail, h)
    BY DEF Replay, IsReplay
  <1>2. QED
    BY <1>1 DEF Determined

\* The empty trail describes what was there before it.
LEMMA ReplayEmpty ==
  ASSUME NEW first
  PROVE  Determined(first, <<>>) /\ Replay(first, <<>>)[0] = first
  <1> DEFINE h == [n \in 0..0 |-> first]
  <1>1. Len(<<>>) = 0 /\ \A n \in 0..0 : n = 0
    OBVIOUS
  <1>2. \A g : IsReplay(first, <<>>, g) <=> g = h
    <2>1. ASSUME NEW g
          PROVE  [n \in 0..Len(<<>>) |-> IF n = 0 THEN first ELSE Replayed(g[n - 1], <<>>[n])] = h
      BY <1>1
    <2>2. QED
      BY <2>1 DEF IsReplay
  <1>3. Determined(first, <<>>)
    <2> HIDE DEF h
    <2>1. IsReplay(first, <<>>, h)
      BY <1>2
    <2>2. QED
      BY <1>2, <2>1 DEF Determined
  <1>4. QED
    BY <1>1, <1>2, <1>3, ReplayDefined

\* One more entry adds one more row, and leaves the rows before it alone.
LEMMA ReplayAppend ==
  ASSUME NEW S, NEW trail \in Seq(S), NEW e, NEW first, Determined(first, trail)
  PROVE  LET before == Replay(first, trail)
             after == Replay(first, Append(trail, e)) IN
         /\ Determined(first, Append(trail, e))
         /\ \A n \in 0..Len(trail) : after[n] = before[n]
         /\ after[Len(trail) + 1] = Replayed(before[Len(trail)], e)
  <1> DEFINE h == Replay(first, trail)
             l == Len(trail)
             longer == Append(trail, e)
             k == [n \in 0..(l + 1) |-> IF n = l + 1 THEN Replayed(h[l], e) ELSE h[n]]
  <1>1. /\ l \in Nat /\ Len(longer) = l + 1 /\ longer[l + 1] = e
        /\ \A n \in 1..l : longer[n] = trail[n]
    OBVIOUS
  <1>2. IsReplay(first, trail, h) /\ \A g : IsReplay(first, trail, g) => g = h
    BY ReplayDefined DEF Determined
  <1>3. /\ h[0] = first
        /\ \A n \in 1..l : h[n] = Replayed(h[n - 1], trail[n])
    <2> HIDE DEF h
    <2>1. h = [n \in 0..l |-> IF n = 0 THEN first ELSE Replayed(h[n - 1], trail[n])]
      BY <1>2 DEF IsReplay
    <2>2. QED
      BY <1>1, <2>1
  <1> HIDE DEF h, l, longer
  <1>4. IsReplay(first, longer, k)
    <2>1. ASSUME NEW n \in 0..(l + 1)
          PROVE  k[n] = IF n = 0 THEN first ELSE Replayed(k[n - 1], longer[n])
      <3>1. CASE n = 0
        BY <1>1, <1>3, <3>1
      <3>2. CASE n \in 1..l
        <4>1. k[n] = h[n] /\ k[n - 1] = h[n - 1] /\ longer[n] = trail[n]
          BY <1>1, <3>2
        <4>2. QED
          BY <1>3, <3>2, <4>1
      <3>3. CASE n = l + 1
        <4>1. k[n] = Replayed(h[l], e) /\ k[n - 1] = h[l] /\ longer[n] = e
          BY <1>1, <3>3
        <4>2. QED
          BY <1>1, <3>3, <4>1
      <3>4. QED
        BY <1>1, <3>1, <3>2, <3>3
    <2>2. QED
      BY <1>1, <2>1 DEF IsReplay
  <1>5. ASSUME NEW g, IsReplay(first, longer, g)
        PROVE  g = k
    <2>1. g = [n \in 0..(l + 1) |-> IF n = 0 THEN first ELSE Replayed(g[n - 1], longer[n])]
      BY <1>1, <1>5 DEF IsReplay
    <2>2. /\ g[0] = first
          /\ \A n \in 1..(l + 1) : g[n] = Replayed(g[n - 1], longer[n])
      BY <1>1, <2>1
    <2> DEFINE f == [n \in 0..l |-> g[n]]
    <2>3. f = [n \in 0..l |-> IF n = 0 THEN first ELSE Replayed(f[n - 1], trail[n])]
      <3>1. ASSUME NEW n \in 0..l
            PROVE  f[n] = IF n = 0 THEN first ELSE Replayed(f[n - 1], trail[n])
        <4>1. CASE n = 0
          BY <2>2, <4>1
        <4>2. CASE n # 0
          <5>1. n \in 1..l /\ n - 1 \in 0..l /\ n \in 1..(l + 1)
            BY <1>1, <4>2
          <5>2. f[n] = g[n] /\ f[n - 1] = g[n - 1] /\ longer[n] = trail[n]
            BY <1>1, <5>1
          <5>3. QED
            BY <2>2, <4>2, <5>1, <5>2
        <4>3. QED
          BY <4>1, <4>2
      <3>2. QED
        BY <3>1
    <2>4. f = h
      <3>1. IsReplay(first, trail, f)
        BY <2>3 DEF IsReplay, l
      <3>2. QED
        BY <1>2, <3>1
    <2>5. \A n \in 0..l : g[n] = h[n]
      BY <2>4
    <2>6. g[l + 1] = Replayed(h[l], e)
      BY <1>1, <2>2, <2>5
    <2>7. DOMAIN g = 0..(l + 1) /\ g = [n \in DOMAIN g |-> g[n]]
      BY <2>1
    <2>8. \A n \in 0..(l + 1) : g[n] = k[n]
      BY <1>1, <2>5, <2>6
    <2>9. QED
      BY <2>7, <2>8
  <1>6. Determined(first, longer) /\ Replay(first, longer) = k
    <2>1. Determined(first, longer)
      BY <1>4, <1>5 DEF Determined
    <2>2. QED
      BY <1>5, <2>1, ReplayDefined
  <1>7. QED
    BY <1>1, <1>6 DEF h, l, longer
-------------------------------------------------------------------------------
(* The trail *)

EntryFor(r) ==
  [op |-> call[r].op, request |-> r, by |-> call[r].actor,
   before |-> Before(call[r], tx[r]), after |-> After(call[r], tx[r])]

\* A commit adds one entry to the trail of one tag, and moves that tag only.
LEMMA TrailGrows ==
  ASSUME Typed, NEW r \in Requests, pc[r] = "written", Persist(r)
  PROVE  /\ tx[r].id \in TagIds /\ audit[tx[r].id] \in Seq(Entry)
         /\ audit'[tx[r].id] = Append(audit[tx[r].id], EntryFor(r))
         /\ tags'[tx[r].id] = tx[r].row
         /\ \A t \in TagIds \ {tx[r].id} : audit'[t] = audit[t] /\ tags'[t] = tags[t]
  <1>1. tx[r].id \in TagIds
    BY TxType DEF InTx
  <1>2. QED
    BY <1>1 DEF Persist, EntryFor, Typed, TypeOK

\* The tag was once like this.
Been(t, row) == \E n \in 0..Len(audit[t]) : History(t)[n] = row

Replayable ==
  \A t \in TagIds : Determined(First(t), audit[t]) /\ History(t)[Len(audit[t])] = tags[t]

\* A trail begins when its entity does.
Begun == \A t \in TagIds : owner[t] = NoOwner <=> audit[t] = <<>> /\ t \notin SeedTags

\* What transactions and observers have of a tag was committed once.
Fetched ==
  \A r \in Requests : InTx(r) =>
    /\ Been(tx[r].id, tx[r].seen)
    /\ call[r].op = "create" <=> tx[r].seen = NoTag
Written == \A r \in Requests : pc[r] = "committed" => Been(tx[r].id, tx[r].row)
Heard == \A t \in TagIds : Been(t, cache[t])

\* A trail that holds a deletion is that of a tag that is gone.
Final ==
  \A t \in TagIds : (\E i \in DOMAIN audit[t] : audit[t][i].op = "delete") => tags[t] = NoTag

TrailInv ==
  Replayable /\ Begun /\ Fetched /\ Written /\ Heard /\ Final /\ GenuineBefore /\ OneLife

\* A commit leaves the history of every tag as it was and adds to that of its own.
LEMMA HistoryGrows ==
  ASSUME Typed, Replayable, NEW r \in Requests, pc[r] = "written", Persist(r), NEW t \in TagIds
  PROVE  /\ Determined(First(t), audit'[t])
         /\ Len(audit'[t]) >= Len(audit[t])
         /\ \A n \in 0..Len(audit[t]) : History(t)'[n] = History(t)[n]
         /\ t = tx[r].id => /\ Len(audit'[t]) = Len(audit[t]) + 1
                            /\ History(t)'[Len(audit[t]) + 1] = Replayed(tags[t], EntryFor(r))
  <1> DEFINE e == EntryFor(r)
  <1>1. /\ audit[t] \in Seq(Entry)
        /\ audit'[t] = IF t = tx[r].id THEN Append(audit[t], e) ELSE audit[t]
    BY TrailGrows DEF Typed, TypeOK
  <1>2. History(t)' = Replay(First(t), audit'[t]) /\ History(t) = Replay(First(t), audit[t])
    BY DEF History, First
  <1>3. Determined(First(t), audit[t]) /\ History(t)[Len(audit[t])] = tags[t]
    BY DEF Replayable
  <1>4. CASE t # tx[r].id
    BY <1>1, <1>2, <1>3, <1>4
  <1>5. CASE t = tx[r].id
    <2>1. /\ Determined(First(t), Append(audit[t], e))
          /\ \A n \in 0..Len(audit[t]) :
               Replay(First(t), Append(audit[t], e))[n] = Replay(First(t), audit[t])[n]
          /\ Replay(First(t), Append(audit[t], e))[Len(audit[t]) + 1]
               = Replayed(Replay(First(t), audit[t])[Len(audit[t])], e)
      BY <1>1, <1>3, ReplayAppend
    <2>2. Len(audit'[t]) = Len(audit[t]) + 1 /\ Len(audit[t]) \in Nat
      BY <1>1, <1>5
    <2>3. QED
      BY <1>1, <1>2, <1>3, <1>5, <2>1, <2>2
  <1>6. QED
    BY <1>4, <1>5

\* What a tag has been it will always have been.
LEMMA BeenLasts ==
  ASSUME Typed, Replayable, NEW r \in Requests, pc[r] = "written", Persist(r),
         NEW t \in TagIds, NEW row, Been(t, row)
  PROVE  Been(t, row)'
  <1>1. PICK n \in 0..Len(audit[t]) : History(t)[n] = row
    BY DEF Been
  <1>2. Len(audit'[t]) >= Len(audit[t]) /\ History(t)'[n] = History(t)[n]
    BY HistoryGrows
  <1>3. Len(audit[t]) \in Nat /\ Len(audit'[t]) \in Nat
    BY PersistTyped DEF Typed, TypeOK
  <1>4. QED
    BY <1>1, <1>2, <1>3 DEF Been

\* Replaying an entry over the committed row gives the row that is committed.
LEMMA EntryReplays ==
  ASSUME IInv, NEW r \in Requests, pc[r] = "written"
  PROVE  Replayed(tags[tx[r].id], EntryFor(r)) = tx[r].row
  <1>1. call[r].op \in {"create", "value", "color", "delete"}
    BY DEF IInv, Typed, TxShape
  <1>2. CASE call[r].op \in {"create", "delete"}
    BY <1>2 DEF EntryFor, Replayed, After, IsUpdate
  <1>3. CASE call[r].op \in {"value", "color"}
    <2>1. tags[tx[r].id] \in Row /\ tx[r].row = Updated(call[r], tags[tx[r].id])
      BY <1>3 DEF IInv, Safe, RowsLocked
    <2>2. CASE call[r].op = "value"
      BY <2>1, <2>2 DEF EntryFor, Replayed, After, IsUpdate, Updated, Row
    <2>3. CASE call[r].op = "color"
      BY <2>1, <2>3 DEF EntryFor, Replayed, After, IsUpdate, Updated, Row
    <2>4. QED
      BY <1>3, <2>2, <2>3
  <1>4. QED
    BY <1>1, <1>2, <1>3

\* What a commit has to do with the life of its tag.
LEMMA PersistMeets ==
  ASSUME IInv, TrailInv, NEW r \in Requests, pc[r] = "written", Persist(r)
  PROVE  LET t == tx[r].id IN
         /\ call[r].op = "create" <=> audit[t] = <<>> /\ t \notin SeedTags
         /\ (\E i \in DOMAIN audit[t] : audit[t][i].op = "delete") => call[r].op = "delete"
         /\ call[r].op = "delete" => tx[r].row = NoTag
         /\ owner' \in [TagIds -> Actors \cup {NoOwner}] /\ owner'[t] # NoOwner
         /\ \A u \in TagIds \ {t} : owner'[u] = owner[u]
  <1> DEFINE t == tx[r].id
  <1>1. t \in TagIds /\ InTx(r) /\ call[r] \in Calls /\ call[r].actor \in Actors
    BY TxType, CallFields DEF IInv, InTx
  <1>2. call[r].op = "create" <=> owner[t] = NoOwner
    BY <1>1 DEF IInv, Safe, IdsOwned
  <1>3. call[r].op = "create" <=> audit[t] = <<>> /\ t \notin SeedTags
    BY <1>1, <1>2 DEF TrailInv, Begun
  <1>4. call[r].op \in {"value", "color"} => tags[t] # NoTag
    BY NullAssumption DEF IInv, Safe, RowsLocked
  <1>5. call[r].op \in {"create", "value", "color", "delete"}
    BY DEF IInv, Typed, TxShape
  <1>6. (\E i \in DOMAIN audit[t] : audit[t][i].op = "delete") => call[r].op = "delete"
    BY <1>1, <1>3, <1>4, <1>5 DEF TrailInv, Final
  <1>7. call[r].op = "delete" => tx[r].row = NoTag
    BY DEF IInv, Typed, TxShape
  <1>8. /\ owner' \in [TagIds -> Actors \cup {NoOwner}] /\ owner'[t] # NoOwner
        /\ \A u \in TagIds \ {t} : owner'[u] = owner[u]
    BY <1>1, <1>2, NullAssumption, PersistTyped DEF Persist, IInv, Typed, TypeOK
  <1>9. QED
    BY <1>3, <1>6, <1>7, <1>8

LEMMA PersistReplayable ==
  ASSUME IInv, TrailInv, NEW r \in Requests, pc[r] = "written", Persist(r)
  PROVE  Replayable' /\ Begun' /\ Final'
  <1> USE DEF TrailInv
  <1>1. Typed /\ tx[r].id \in TagIds
    BY TrailGrows DEF IInv
  <1>2. ASSUME NEW t \in TagIds
        PROVE  /\ Determined(First(t), audit'[t])
               /\ History(t)'[Len(audit'[t])] = tags'[t]
    <2>1. CASE t = tx[r].id
      <3>1. History(t)'[Len(audit'[t])] = Replayed(tags[t], EntryFor(r))
        BY <1>1, <2>1, HistoryGrows
      <3>2. QED
        BY <1>1, <2>1, <3>1, HistoryGrows, EntryReplays, TrailGrows
    <2>2. CASE t # tx[r].id
      <3>1. audit'[t] = audit[t] /\ tags'[t] = tags[t] /\ History(t)' = History(t)
        BY <1>1, <2>2, TrailGrows DEF History, First
      <3>2. QED
        BY <3>1 DEF Replayable
    <2>3. QED
      BY <2>1, <2>2
  <1>3. Replayable'
    BY <1>2 DEF Replayable, First
  <1>4. ASSUME NEW t \in TagIds
        PROVE  /\ owner'[t] = NoOwner <=> audit'[t] = <<>> /\ t \notin SeedTags
               /\ (\E i \in DOMAIN audit'[t] : audit'[t][i].op = "delete") => tags'[t] = NoTag
    <2>1. CASE t = tx[r].id
      <3>1. /\ audit[t] \in Seq(Entry) /\ audit'[t] = Append(audit[t], EntryFor(r))
            /\ tags'[t] = tx[r].row
        BY <1>1, <2>1, TrailGrows
      <3>2. audit'[t] # <<>> /\ owner'[t] # NoOwner
        BY <2>1, <3>1, PersistMeets
      <3>3. ASSUME NEW i \in DOMAIN audit'[t], audit'[t][i].op = "delete"
            PROVE  tags'[t] = NoTag
        <4>1. (i \in DOMAIN audit[t] /\ audit'[t][i] = audit[t][i]) \/ audit'[t][i] = EntryFor(r)
          BY <3>1
        <4>2. call[r].op = "delete"
          BY <2>1, <3>3, <4>1, PersistMeets DEF EntryFor
        <4>3. QED
          BY <3>1, <4>2, PersistMeets
      <3>4. QED
        BY <3>2, <3>3
    <2>2. CASE t # tx[r].id
      <3>1. audit'[t] = audit[t] /\ tags'[t] = tags[t] /\ owner'[t] = owner[t]
        BY <1>1, <2>2, TrailGrows, PersistMeets
      <3>2. QED
        BY <3>1 DEF Begun, Final
    <2>3. QED
      BY <2>1, <2>2
  <1>5. QED
    BY <1>3, <1>4 DEF Begun, Final

\* The new entry tells of a state its tag was in.
LEMMA PersistGenuine ==
  ASSUME IInv, TrailInv, NEW r \in Requests, pc[r] = "written", Persist(r)
  PROVE  GenuineBefore'
  <1> USE DEF TrailInv
  <1> SUFFICES ASSUME NEW t \in TagIds, NEW i \in DOMAIN audit'[t]
               PROVE  \E n \in 0..(i - 1) :
                        /\ audit'[t][i].op = "create" <=> History(t)'[n] = NoTag
                        /\ audit'[t][i].before = Part(audit'[t][i].op, History(t)'[n])
    BY DEF GenuineBefore
  <1>1. Typed /\ audit[t] \in Seq(Entry)
    BY DEF IInv, Typed, TypeOK
  <1>2. \A n \in 0..Len(audit[t]) : History(t)'[n] = History(t)[n]
    BY <1>1, HistoryGrows
  <1>3. CASE i \in DOMAIN audit[t] /\ audit'[t][i] = audit[t][i]
    <2>1. PICK n \in 0..(i - 1) :
            /\ audit[t][i].op = "create" <=> History(t)[n] = NoTag
            /\ audit[t][i].before = Part(audit[t][i].op, History(t)[n])
      BY <1>3 DEF GenuineBefore
    <2>2. n \in 0..Len(audit[t])
      BY <1>1, <1>3
    <2>3. QED
      BY <1>2, <1>3, <2>1, <2>2
  <1>4. CASE t = tx[r].id /\ i = Len(audit[t]) + 1 /\ audit'[t][i] = EntryFor(r)
    <2>1. PICK n \in 0..Len(audit[t]) : History(t)[n] = tx[r].seen
      BY <1>4 DEF Fetched, Been, InTx
    <2>2. call[r].op = "create" <=> tx[r].seen = NoTag
      BY DEF Fetched, InTx
    <2>3. EntryFor(r).op = call[r].op /\ EntryFor(r).before = Part(call[r].op, tx[r].seen)
      BY DEF EntryFor, Before, IsUpdate, Part
    <2>4. n \in 0..(i - 1)
      BY <1>1, <1>4
    <2>5. QED
      BY <1>2, <1>4, <2>1, <2>2, <2>3, <2>4
  <1>5. audit'[t] = IF t = tx[r].id THEN Append(audit[t], EntryFor(r)) ELSE audit[t]
    BY <1>1, TrailGrows
  <1>6. QED
    BY <1>1, <1>3, <1>4, <1>5

\* The new entry is a creation if it is the first, and nothing but a deletion
\* follows a deletion.
LEMMA PersistOneLife ==
  ASSUME IInv, TrailInv, NEW r \in Requests, pc[r] = "written", Persist(r)
  PROVE  OneLife'
  <1> USE DEF TrailInv
  <1> SUFFICES ASSUME NEW t \in TagIds, NEW i \in DOMAIN audit'[t]
               PROVE  /\ audit'[t][i].op = "create" <=> i = 1 /\ t \notin SeedTags
                      /\ \A j \in 1..(i - 1) :
                           audit'[t][j].op = "delete" => audit'[t][i].op = "delete"
    BY DEF OneLife
  <1>1. Typed /\ audit[t] \in Seq(Entry)
    BY DEF IInv, Typed, TypeOK
  <1>2. /\ audit'[t] = IF t = tx[r].id THEN Append(audit[t], EntryFor(r)) ELSE audit[t]
        /\ EntryFor(r).op = call[r].op
    BY <1>1, TrailGrows DEF EntryFor
  <1>3. \A j \in DOMAIN audit[t] : audit'[t][j] = audit[t][j]
    BY <1>1, <1>2
  <1>4. CASE i \in DOMAIN audit[t]
    <2>1. \A j \in 1..(i - 1) : j \in DOMAIN audit[t]
      BY <1>1, <1>4
    <2>2. QED
      BY <1>3, <1>4, <2>1 DEF OneLife
  <1>5. CASE t = tx[r].id /\ i = Len(audit[t]) + 1 /\ audit'[t][i] = EntryFor(r)
    <2>1. i = 1 <=> audit[t] = <<>>
      BY <1>1, <1>5
    <2>2. \A j \in 1..(i - 1) : j \in DOMAIN audit[t]
      BY <1>1, <1>5
    <2>3. /\ call[r].op = "create" <=> audit[t] = <<>> /\ t \notin SeedTags
          /\ (\E j \in DOMAIN audit[t] : audit[t][j].op = "delete") => call[r].op = "delete"
      BY <1>5, PersistMeets
    <2>4. audit'[t][i].op = call[r].op
      BY <1>2, <1>5
    <2>5. QED
      BY <1>3, <2>1, <2>2, <2>3, <2>4
  <1>6. QED
    BY <1>1, <1>2, <1>4, <1>5

\* A step that commits nothing.
Uncommitted == UNCHANGED <<tags, owner, audit>>

LEMMA TrailStays ==
  ASSUME TrailInv, Uncommitted
  PROVE  /\ Replayable' /\ Begun' /\ Final' /\ GenuineBefore' /\ OneLife'
         /\ \A t, row : Been(t, row)' <=> Been(t, row)
  BY DEF TrailInv, Uncommitted, Replayable, Begun, Final, GenuineBefore, OneLife, Been, History,
         First, Part

\* What a request that goes on in its transaction has fetched stays what it was.
LEMMA FetchedStays ==
  ASSUME TrailInv, Uncommitted, NEW s \in Requests, InTx(s)' => InTx(s),
         InTx(s) /\ InTx(s)' => /\ tx'[s].id = tx[s].id /\ tx'[s].seen = tx[s].seen
                               /\ call'[s] = call[s]
  PROVE  InTx(s)' => /\ Been(tx[s].id, tx[s].seen)'
                     /\ call'[s].op = "create" <=> tx'[s].seen = NoTag
  <1> SUFFICES ASSUME InTx(s)'
               PROVE  /\ Been(tx[s].id, tx[s].seen)'
                      /\ call'[s].op = "create" <=> tx'[s].seen = NoTag
    OBVIOUS
  <1>1. Been(tx[s].id, tx[s].seen) /\ (call[s].op = "create" <=> tx[s].seen = NoTag)
    BY DEF TrailInv, Fetched
  <1>2. QED
    BY <1>1 DEF Been, History, First, Uncommitted

LEMMA WrittenStays ==
  ASSUME TrailInv, Uncommitted, NEW s \in Requests,
         pc'[s] = "committed" => pc[s] = "committed" /\ tx'[s] = tx[s]
  PROVE  pc'[s] = "committed" => Been(tx[s].id, tx[s].row)'
  BY DEF TrailInv, Written, Been, History, First, Uncommitted

\* A step of the service that touches neither tables nor what it fetched.
LEMMA OtherTrail ==
  ASSUME TrailInv, Uncommitted, UNCHANGED cache,
         \A s \in Requests :
           /\ InTx(s)' => /\ InTx(s) /\ call'[s] = call[s]
                         /\ tx'[s].id = tx[s].id /\ tx'[s].seen = tx[s].seen
           /\ pc'[s] = "committed" => pc[s] = "committed" /\ tx'[s] = tx[s]
  PROVE  TrailInv'
  <1>1. Fetched'
    BY FetchedStays DEF Fetched
  <1>2. Written'
    BY WrittenStays DEF Written
  <1>3. Heard'
    BY DEF TrailInv, Heard, Been, History, First, Uncommitted
  <1>4. QED
    BY <1>1, <1>2, <1>3, TrailStays DEF TrailInv

\* The id of a new tag has no history but that of no tag.
LEMMA BeginCreateTrail ==
  ASSUME IInv, TrailInv, NEW r \in Requests, BeginCreate(r)
  PROVE  TrailInv'
  <1> USE DEF IInv, Typed, TypeOK
  <1>1. PICK t \in Fresh :
          tx' = [tx EXCEPT ![r] = [id |-> t, seen |-> NoTag, row |-> NewRow(call[r]),
                                   checked |-> policy[call[r].purpose]]]
    BY DEF BeginCreate
  <1>2. /\ Uncommitted /\ UNCHANGED <<cache, call>> /\ call[r].op = "create"
        /\ pc'[r] \in {"checking", "written"}
        /\ \A s \in Requests \ {r} : pc'[s] = pc[s]
    BY DEF BeginCreate, Goto, Uncommitted, db
  <1>3. /\ tx'[r].id = t /\ tx'[r].seen = NoTag
        /\ \A s \in Requests \ {r} : tx'[s] = tx[s]
    BY <1>1
  <1>4. Been(t, NoTag)'
    <2>1. t \in TagIds /\ audit[t] = <<>> /\ t \notin SeedTags
      BY <1>1 DEF Fresh, TrailInv, Begun
    <2>2. History(t)[0] = NoTag /\ 0 \in 0..Len(audit[t])
      BY <2>1, ReplayEmpty DEF History, First
    <2>3. Been(t, NoTag)
      BY <2>2 DEF Been
    <2>4. QED
      BY <1>2, <2>3, TrailStays
  <1>5. Fetched'
    <2>1. ASSUME NEW s \in Requests \ {r}
          PROVE  InTx(s)' => /\ Been(tx[s].id, tx[s].seen)'
                             /\ call'[s].op = "create" <=> tx'[s].seen = NoTag
      <3>1. /\ InTx(s)' => InTx(s)
            /\ tx'[s].id = tx[s].id /\ tx'[s].seen = tx[s].seen /\ call'[s] = call[s]
        BY <1>2, <1>3 DEF InTx
      <3>2. QED
        BY <1>2, <3>1, FetchedStays
    <2>2. Been(tx[r].id, tx[r].seen)' /\ (call'[r].op = "create" <=> tx'[r].seen = NoTag)
      BY <1>2, <1>3, <1>4 DEF Been, History, First
    <2>3. QED
      BY <2>1, <2>2 DEF Fetched
  <1>6. Written'
    BY <1>2, <1>3, WrittenStays DEF Written
  <1>7. Heard'
    BY <1>2 DEF TrailInv, Heard, Been, History, First, Uncommitted
  <1>8. QED
    BY <1>2, <1>5, <1>6, <1>7, TrailStays DEF TrailInv

\* What a change fetches is the last row of the tag's history.
LEMMA FetchTrail ==
  ASSUME IInv, TrailInv, NEW r \in Requests, Fetch(r)
  PROVE  TrailInv'
  <1> USE DEF IInv, Typed, TypeOK
  <1>1. Uncommitted /\ UNCHANGED cache /\ call[r].op \in {"value", "color", "delete"}
    BY DEF Fetch, Uncommitted, db
  <1>2. CASE Answer(r, "forbidden")
    BY <1>1, <1>2, OtherTrail DEF Answer, Goto, InTx
  <1>3. CASE ~Answer(r, "forbidden")
    <2>1. PICK t : t = call[r].target
      OBVIOUS
    <2>2. /\ RowOf(t) # NoTag /\ UNCHANGED call
          /\ tx' = [tx EXCEPT ![r] = [id |-> t, seen |-> RowOf(t), row |-> RowOf(t),
                                      checked |-> FALSE]]
          /\ pc' = [pc EXCEPT ![r] = "fetched"]
      BY <1>3, <2>1 DEF Fetch, Goto
    <2>3. t \in TagIds /\ tags[t] # NoTag
      BY <2>2 DEF RowOf
    <2>4. /\ tx'[r].id = t /\ tx'[r].seen = tags[t] /\ pc'[r] = "fetched"
          /\ \A s \in Requests \ {r} : tx'[s] = tx[s] /\ pc'[s] = pc[s]
      BY <2>2, <2>3 DEF RowOf
    <2>5. Fetched'
      <3>1. ASSUME NEW s \in Requests \ {r}
            PROVE  InTx(s)' => /\ Been(tx[s].id, tx[s].seen)'
                               /\ call'[s].op = "create" <=> tx'[s].seen = NoTag
        <4>1. /\ InTx(s)' => InTx(s)
              /\ tx'[s].id = tx[s].id /\ tx'[s].seen = tx[s].seen /\ call'[s] = call[s]
          BY <2>2, <2>4 DEF InTx
        <4>2. QED
          BY <1>1, <4>1, FetchedStays
      <3>2. Been(t, tags[t])
        BY <2>3 DEF TrailInv, Replayable, Been
      <3>3. Been(tx[r].id, tx[r].seen)'
        BY <1>1, <2>4, <3>2 DEF Been, History, First, Uncommitted
      <3>4. call'[r].op = "create" <=> tx'[r].seen = NoTag
        BY <1>1, <2>2, <2>3, <2>4
      <3>5. QED
        BY <3>1, <3>3, <3>4 DEF Fetched
    <2>6. Written'
      BY <1>1, <2>4, WrittenStays DEF Written
    <2>7. Heard'
      BY <1>1 DEF TrailInv, Heard, Been, History, First, Uncommitted
    <2>8. QED
      BY <1>1, <2>5, <2>6, <2>7, TrailStays DEF TrailInv
  <1>4. QED
    BY <1>2, <1>3

\* What an observer hears after a commit is what was committed.
LEMMA NotifyTrail ==
  ASSUME IInv, TrailInv, NEW r \in Requests, Notify(r)
  PROVE  TrailInv'
  <1> USE DEF IInv, Typed, TypeOK
  <1>1. Uncommitted /\ pc[r] = "committed"
    BY DEF Notify, Uncommitted, db
  <1>2. /\ pc' = [pc EXCEPT ![r] = "done"] /\ tx' = [tx EXCEPT ![r] = Nil]
        /\ call' = [call EXCEPT ![r] = Nil]
    BY DEF Notify, Answer, Goto
  <1>3. PICK t, row : t = tx[r].id /\ row = tx[r].row
    OBVIOUS
  <1>4. Heard'
    <2>1. cache' = [cache EXCEPT ![t] = row]
      BY <1>3 DEF Notify
    <2>2. Been(t, row) /\ \A u \in TagIds : Been(u, cache[u])
      BY <1>1, <1>3 DEF TrailInv, Written, Heard
    <2>3. ASSUME NEW u \in TagIds PROVE Been(u, cache[u])'
      <3>1. cache'[u] = IF u = t THEN row ELSE cache[u]
        BY <2>1
      <3>2. QED
        BY <1>1, <2>2, <3>1 DEF Been, History, First, Uncommitted
    <2>4. QED
      BY <2>3 DEF Heard
  <1>5. \A s \in Requests :
          /\ InTx(s)' => /\ InTx(s) /\ call'[s] = call[s] /\ tx'[s].id = tx[s].id
                        /\ tx'[s].seen = tx[s].seen
          /\ pc'[s] = "committed" => pc[s] = "committed" /\ tx'[s] = tx[s]
    BY <1>2 DEF InTx
  <1>6. Fetched'
    BY <1>1, <1>5, FetchedStays DEF Fetched
  <1>7. Written'
    BY <1>1, <1>5, WrittenStays DEF Written
  <1>8. QED
    BY <1>1, <1>4, <1>6, <1>7, TrailStays DEF TrailInv

LEMMA CommitTrail ==
  ASSUME IInv, TrailInv, NEW r \in Requests, Commit(r) \/ LoseCommitReply(r)
  PROVE  TrailInv'
  <1> USE DEF IInv
  <1>1. /\ pc[r] = "written" /\ Persist(r) /\ UNCHANGED cache
        /\ pc'[r] \in {"committed", "done"}
        /\ pc'[r] = "committed" => tx'[r] = tx[r]
        /\ \A s \in Requests \ {r} : pc'[s] = pc[s] /\ tx'[s] = tx[s] /\ call'[s] = call[s]
    BY DEF Commit, LoseCommitReply, Answer, Goto, Typed, TypeOK
  <1>2. Replayable' /\ Begun' /\ Final' /\ GenuineBefore' /\ OneLife'
    BY <1>1, PersistReplayable, PersistGenuine, PersistOneLife
  <1>3. ASSUME NEW t \in TagIds, NEW row, Been(t, row)
        PROVE  Been(t, row)'
    BY <1>1, <1>3, BeenLasts DEF TrailInv
  <1>4. Heard'
    <2>1. ASSUME NEW t \in TagIds PROVE Been(t, cache[t])'
      <3>1. PICK row : row = cache[t]
        OBVIOUS
      <3>2. Been(t, row)'
        BY <1>3, <3>1 DEF TrailInv, Heard
      <3>3. QED
        BY <1>1, <3>1, <3>2 DEF Been
    <2>2. QED
      BY <2>1 DEF Heard
  <1>5. Fetched'
    <2>1. ASSUME NEW s \in Requests, InTx(s)'
          PROVE  /\ Been(tx[s].id, tx[s].seen)'
                 /\ call'[s].op = "create" <=> tx'[s].seen = NoTag
      <3>1. s # r /\ InTx(s)
        BY <1>1, <2>1 DEF InTx
      <3>2. PICK t, row : t = tx[s].id /\ row = tx[s].seen
        OBVIOUS
      <3>3. t \in TagIds /\ Been(t, row) /\ (call[s].op = "create" <=> row = NoTag)
        BY <3>1, <3>2, TxType DEF TrailInv, Fetched
      <3>4. Been(t, row)'
        BY <1>3, <3>3
      <3>5. QED
        BY <1>1, <3>1, <3>2, <3>3, <3>4 DEF Been, History, First
    <2>2. QED
      BY <2>1 DEF Fetched
  <1>6. Written'
    <2>1. ASSUME NEW s \in Requests, pc'[s] = "committed"
          PROVE  Been(tx[s].id, tx[s].row)'
      <3>1. PICK t, row : t = tx[s].id /\ row = tx[s].row
        OBVIOUS
      <3>2. tx'[s] = tx[s]
        BY <1>1, <2>1
      <3>3. Been(t, row)'
        <4>1. CASE s = r
          <5>1. t \in TagIds /\ tags'[t] = row
            BY <1>1, <3>1, <4>1, TrailGrows
          <5>2. Len(audit'[t]) \in Nat
            BY <1>1, <5>1, PersistTyped
          <5>3. QED
            BY <1>2, <5>1, <5>2 DEF Replayable, Been
        <4>2. CASE s # r
          <5>1. t \in TagIds /\ Been(t, row)
            BY <1>1, <2>1, <3>1, <4>2, TxType DEF TrailInv, Written
          <5>2. QED
            BY <1>3, <5>1
        <4>3. QED
          BY <4>1, <4>2
      <3>4. QED
        BY <3>1, <3>2, <3>3 DEF Been, History, First
    <2>2. QED
      BY <2>1 DEF Written
  <1>7. QED
    BY <1>2, <1>4, <1>5, <1>6 DEF TrailInv

LEMMA TrailInit == AuditInit => TrailInv
  <1> SUFFICES ASSUME AuditInit PROVE TrailInv
    OBVIOUS
  <1>1. /\ \A t \in TagIds : tags[t] = First(t) /\ audit[t] = <<>> /\ cache[t] = tags[t]
        /\ \A r \in Requests : pc[r] = "idle"
    BY DEF AuditInit, Init, First
  <1>2. ASSUME NEW t \in TagIds
        PROVE  Determined(First(t), audit[t]) /\ Len(audit[t]) = 0 /\ History(t)[0] = tags[t]
    BY <1>1, ReplayEmpty DEF History
  <1>3. ASSUME NEW t \in TagIds
        PROVE  owner[t] = NoOwner <=> t \notin SeedTags
    <2>1. SeedRow.owner \in Actors
      BY SeedRowAssumption DEF Row
    <2>2. QED
      BY <2>1, NullAssumption, SubsetAssumption DEF AuditInit, Init
  <1>4. Replayable /\ Heard
    BY <1>1, <1>2 DEF Replayable, Heard, Been
  <1>5. Begun
    BY <1>1, <1>3 DEF Begun
  <1>6. Final /\ GenuineBefore /\ OneLife
    BY <1>1 DEF Final, GenuineBefore, OneLife
  <1>7. Fetched /\ Written
    BY <1>1 DEF Fetched, Written, InTx
  <1>8. QED
    BY <1>4, <1>5, <1>6, <1>7 DEF TrailInv

LEMMA TrailNext == IInv /\ TrailInv /\ [Next]_vars => TrailInv'
  <1> SUFFICES ASSUME IInv, TrailInv, [Next]_vars PROVE TrailInv'
    OBVIOUS
  <1> USE DEF IInv, Typed, TypeOK
  <1>1. ASSUME NEW r \in Requests, NEW c \in Calls, Reject(r, c) \/ Admit(r, c)
        PROVE  TrailInv'
    BY <1>1, OtherTrail DEF Reject, Admit, Answer, Goto, InTx, Uncommitted, db
  <1>2. ASSUME NEW r \in Requests, Read(r) \/ Conflict(r) \/ UpdateGone(r) \/ FailTx(r)
        PROVE  TrailInv'
    <2>1. Uncommitted /\ UNCHANGED cache /\ \E answer : Answer(r, answer)
      BY <1>2 DEF Read, Conflict, UpdateGone, FailTx, Uncommitted, db
    <2>2. QED
      BY <2>1, OtherTrail DEF Answer, Goto, InTx
  <1>3. ASSUME NEW r \in Requests, PassCheck(r) PROVE TrailInv'
    BY <1>3, OtherTrail DEF PassCheck, Goto, InTx, Uncommitted, db
  <1>4. ASSUME NEW r \in Requests, Update(r) \/ Delete(r) PROVE TrailInv'
    <2>1. /\ Uncommitted /\ UNCHANGED <<cache, call>> /\ InTx(r)
          /\ pc' = [pc EXCEPT ![r] = "written"]
          /\ \E row : tx' = [tx EXCEPT ![r].row = row]
      BY <1>4 DEF Update, Delete, Goto, InTx, Uncommitted, db
    <2>2. /\ tx'[r].id = tx[r].id /\ tx'[r].seen = tx[r].seen
          /\ \A s \in Requests \ {r} : tx'[s] = tx[s]
      BY <2>1, TxType DEF Tx
    <2>3. QED
      BY <2>1, <2>2, OtherTrail DEF InTx
  <1>5. ASSUME NEW r \in Requests, Crash(r) PROVE TrailInv'
    BY <1>5, OtherTrail DEF Crash, Goto, InTx, Uncommitted, db
  <1>6. ASSUME NEW r \in Requests,
               \/ BeginCreate(r) \/ Fetch(r) \/ Notify(r) \/ Commit(r) \/ LoseCommitReply(r)
        PROVE  TrailInv'
    BY <1>6, BeginCreateTrail, FetchTrail, NotifyTrail, CommitTrail
  <1>7. CASE UNCHANGED <<tags, owner, audit, cache, pc, call, tx>>
    BY <1>7, OtherTrail DEF Uncommitted, InTx
  <1>8. QED
    BY <1>1, <1>2, <1>3, <1>4, <1>5, <1>6, <1>7
       DEF Next, Arrive, Step, Fail, SetPolicy, ChangeGrant, Rest, vars, db

LEMMA AuditIsService == AuditSpec => Spec
  BY PTL DEF AuditSpec, AuditInit, Spec

LEMMA TrailInvariant == AuditSpec => []TrailInv
  BY TrailInit, TrailNext, AuditIsService, Invariance, PTL DEF AuditSpec

\* The audit trail is complete and true: replayed from the start, the entries of
\* a tag give the row that is stored, whoever changed it at the same time.
THEOREM TrailReplays == AuditSpec => []AuditReplay
  <1>1. TrailInv => AuditReplay
    BY DEF TrailInv, Replayable, AuditReplay
  <1>2. QED
    BY <1>1, TrailInvariant, PTL

\* Post-commit observers are told of nothing that was not committed, however
\* late they are told.
THEOREM NoticesAreCommitted == AuditSpec => []CommittedNotices
  <1>1. TrailInv => CommittedNotices
    <2> SUFFICES ASSUME TrailInv, NEW t \in TagIds
                 PROVE  \E n \in 0..Len(audit[t]) : cache[t] = History(t)[n]
      BY DEF CommittedNotices
    <2>1. Been(t, cache[t])
      BY DEF TrailInv, Heard
    <2>2. QED
      BY <2>1 DEF Been
  <1>2. QED
    BY <1>1, TrailInvariant, PTL

\* The snapshot before, which is fetched without a lock, may be out of date but
\* is never one of a state the tag was not in.
THEOREM BeforeIsGenuine == AuditSpec => []GenuineBefore
  <1>1. TrailInv => GenuineBefore
    BY DEF TrailInv
  <1>2. QED
    BY <1>1, TrailInvariant, PTL

\* A tag is created once, first, and never comes back from its deletion.
THEOREM LivesAreOrderly == AuditSpec => []OneLife
  <1>1. TrailInv => OneLife
    BY DEF TrailInv
  <1>2. QED
    BY <1>1, TrailInvariant, PTL

-------------------------------------------------------------------------------
(* Answers *)

\* A request leaves its entry when it commits, and answers after that.
RecordedOf(r) ==
  /\ pc[r] \in {"idle", "admitted", "checking", "fetched", "written"} => EntriesOf(r) = {}
  /\ pc[r] = "committed" => EntriesOf(r) # {}
  /\ \A p, q \in EntriesOf(r) : p = q
  /\ reply[r] # "none" => pc[r] = "done"
  /\ reply[r] \in {"invalid", "forbidden", "notfound", "conflict"} => EntriesOf(r) = {}
  /\ reply[r] = "ok" => EntriesOf(r) # {}

Recorded == \A r \in Requests : RecordedOf(r)

LEMMA RecordedIsTruthful == Recorded => AnswerIsTruthful
  <1> SUFFICES ASSUME Recorded, NEW r \in Requests PROVE Cardinality(EntriesOf(r)) <= 1
    BY DEF Recorded, RecordedOf, AnswerIsTruthful
  <1>1. CASE EntriesOf(r) = {}
    BY <1>1, FS_EmptySet
  <1>2. CASE EntriesOf(r) # {}
    <2>1. PICK p : p \in EntriesOf(r)
      BY <1>2
    <2>2. EntriesOf(r) = {p}
      BY <2>1 DEF Recorded, RecordedOf
    <2>3. Cardinality({p}) = 1
      BY FS_Singleton
    <2>4. QED
      BY <2>2, <2>3
  <1>3. QED
    BY <1>1, <1>2

\* The entries of a request, one by one.
LEMMA EntryOf ==
  ASSUME NEW r, NEW p
  PROVE  p \in EntriesOf(r) <=>
           \E t \in TagIds : \E i \in DOMAIN audit[t] : audit[t][i].request = r /\ p = <<t, i>>
  BY DEF EntriesOf

\* A commit adds one entry, and it is the committing request's.
LEMMA PersistRecords ==
  ASSUME Typed, NEW r \in Requests, pc[r] = "written", Persist(r)
  PROVE  /\ \E p : EntriesOf(r)' = EntriesOf(r) \cup {p}
         /\ \A s \in Requests \ {r} : EntriesOf(s)' = EntriesOf(s)
  <1> DEFINE x == tx[r]
             c == call[r]
             e == [op |-> c.op, request |-> r, by |-> c.actor,
                   before |-> Before(c, x), after |-> After(c, x)]
             n == Len(audit[x.id]) + 1
             Has(s, t, i) == t \in TagIds /\ i \in DOMAIN audit[t] /\ audit[t][i].request = s
             HasThen(s, t, i) ==
               t \in TagIds /\ i \in DOMAIN audit'[t] /\ audit'[t][i].request = s
  <1>1. x.id \in TagIds /\ audit[x.id] \in Seq(Entry) /\ audit \in [TagIds -> Seq(Entry)]
    BY TxType DEF InTx, Typed, TypeOK
  <1>2. /\ audit'[x.id] = Append(audit[x.id], e)
        /\ \A t \in TagIds \ {x.id} : audit'[t] = audit[t]
    BY <1>1 DEF Persist
  <1>3. /\ DOMAIN audit'[x.id] = DOMAIN audit[x.id] \cup {n} /\ n \notin DOMAIN audit[x.id]
        /\ \A i \in DOMAIN audit[x.id] : audit'[x.id][i] = audit[x.id][i]
        /\ audit'[x.id][n] = e
    BY <1>1, <1>2
  <1>4. e.request = r
    OBVIOUS
  <1>5. \A s, t, i : HasThen(s, t, i) <=> Has(s, t, i) \/ (s = r /\ t = x.id /\ i = n)
    <2> SUFFICES ASSUME NEW s, NEW t, NEW i
                 PROVE  HasThen(s, t, i) <=> Has(s, t, i) \/ (s = r /\ t = x.id /\ i = n)
      OBVIOUS
    <2>1. CASE t = x.id
      BY <1>1, <1>3, <1>4, <2>1
    <2>2. CASE t # x.id
      BY <1>2, <2>2
    <2>3. QED
      BY <2>1, <2>2
  <1>6. \A s, p : p \in EntriesOf(s) <=> \E t, i : Has(s, t, i) /\ p = <<t, i>>
    BY EntryOf
  <1>7. \A s, p : p \in EntriesOf(s)' <=> \E t, i : HasThen(s, t, i) /\ p = <<t, i>>
    BY DEF EntriesOf
  <1> HIDE DEF Has, HasThen
  <1>8. EntriesOf(r)' = EntriesOf(r) \cup {<<x.id, n>>}
    BY <1>5, <1>6, <1>7
  <1>9. \A s \in Requests \ {r} : EntriesOf(s)' = EntriesOf(s)
    <2> SUFFICES ASSUME NEW s \in Requests \ {r} PROVE EntriesOf(s)' = EntriesOf(s)
      OBVIOUS
    <2>1. \A t, i : HasThen(s, t, i) <=> Has(s, t, i)
      BY <1>5
    <2>2. \A p : p \in EntriesOf(s)' <=> p \in EntriesOf(s)
      BY <1>6, <1>7, <2>1
    <2>3. QED
      BY <2>2
  <1>10. QED
    BY <1>8, <1>9

\* A step that leaves the trail alone leaves everybody's entries alone.
LEMMA TrailKept ==
  ASSUME UNCHANGED audit
  PROVE  \A s \in Requests : EntriesOf(s)' = EntriesOf(s)
  BY DEF EntriesOf

\* A request that nothing happens to is as well recorded as before.
LEMMA OthersRecorded ==
  ASSUME NEW s \in Requests, RecordedOf(s), EntriesOf(s)' = EntriesOf(s),
         pc'[s] = pc[s], reply'[s] = reply[s]
  PROVE  RecordedOf(s)'
  BY DEF RecordedOf

\* A request whose step is no commit moves on without an entry, or answers what
\* its entries say.
LEMMA StepRecorded ==
  ASSUME Recorded, NEW r \in Requests, pc[r] \in Labels, UNCHANGED audit,
         \A s \in Requests \ {r} : pc'[s] = pc[s] /\ reply'[s] = reply[s],
         \/ /\ pc[r] \notin {"committed", "done", "crashed"}
            /\ reply'[r] = reply[r] /\ pc'[r] \in {"admitted", "checking", "fetched", "written"}
         \/ /\ pc[r] \notin {"committed", "done", "crashed"}
            /\ pc'[r] = "done" /\ reply'[r] # "ok"
         \/ pc[r] = "committed" /\ pc'[r] = "done" /\ reply'[r] = "ok"
         \/ /\ pc[r] \notin {"idle", "done", "crashed"}
            /\ pc'[r] = "crashed" /\ reply'[r] = reply[r]
  PROVE  Recorded'
  <1>1. \A s \in Requests : EntriesOf(s)' = EntriesOf(s)
    BY TrailKept
  <1>2. ASSUME NEW s \in Requests \ {r} PROVE RecordedOf(s)'
    BY <1>1, <1>2, OthersRecorded DEF Recorded
  <1>3. RecordedOf(r)'
    <2>1. EntriesOf(r)' = EntriesOf(r) /\ RecordedOf(r)
      BY <1>1 DEF Recorded
    <2>2. QED
      BY <2>1 DEF RecordedOf, Labels
  <1>4. QED
    BY <1>2, <1>3 DEF Recorded

LEMMA CommitRecorded ==
  ASSUME IInv, Recorded, NEW r \in Requests, Commit(r) \/ LoseCommitReply(r)
  PROVE  Recorded'
  <1> USE DEF IInv, Typed, TypeOK
  <1>1. /\ pc[r] = "written" /\ Persist(r)
        /\ \A s \in Requests \ {r} : pc'[s] = pc[s] /\ reply'[s] = reply[s]
        /\ \/ pc'[r] = "committed" /\ reply'[r] = reply[r]
           \/ pc'[r] = "done" /\ reply'[r] = "internal"
    BY DEF Commit, LoseCommitReply, Answer, Goto
  <1>2. /\ \E p : EntriesOf(r)' = EntriesOf(r) \cup {p}
        /\ \A s \in Requests \ {r} : EntriesOf(s)' = EntriesOf(s)
    BY <1>1, PersistRecords
  <1>3. EntriesOf(r) = {} /\ reply[r] = "none"
    BY <1>1 DEF Recorded, RecordedOf
  <1>4. ASSUME NEW s \in Requests \ {r} PROVE RecordedOf(s)'
    BY <1>1, <1>2, <1>4, OthersRecorded DEF Recorded
  <1>5. RecordedOf(r)'
    <2>1. PICK p : EntriesOf(r)' = {p}
      BY <1>2, <1>3
    <2>2. QED
      BY <1>1, <1>3, <2>1 DEF RecordedOf
  <1>6. QED
    BY <1>4, <1>5 DEF Recorded

LEMMA NextRecorded == IInv /\ Recorded /\ [Next]_vars => Recorded'
  <1> SUFFICES ASSUME IInv, Recorded, [Next]_vars PROVE Recorded'
    OBVIOUS
  <1> USE DEF IInv, Typed, TypeOK
  <1>1. ASSUME NEW r \in Requests, NEW c \in Calls, Reject(r, c) \/ Admit(r, c)
        PROVE  Recorded'
    <2>1. /\ UNCHANGED audit /\ pc[r] = "idle"
          /\ \/ \E answer \in {"invalid", "forbidden"} : Answer(r, answer)
             \/ Goto(r, "admitted") /\ UNCHANGED reply
      BY <1>1 DEF Reject, Admit, db
    <2>2. /\ \/ pc'[r] = "done" /\ reply'[r] # "ok"
             \/ pc'[r] = "admitted" /\ reply'[r] = reply[r]
          /\ \A s \in Requests \ {r} : pc'[s] = pc[s] /\ reply'[s] = reply[s]
      BY <2>1 DEF Answer, Goto
    <2>3. QED
      BY <2>1, <2>2, StepRecorded
  <1>2. ASSUME NEW r \in Requests, Read(r) \/ Conflict(r) \/ UpdateGone(r) PROVE Recorded'
    <2>1. /\ UNCHANGED audit /\ pc[r] \in {"admitted", "checking", "fetched"}
          /\ \E answer \in Answers \ {"ok"} : Answer(r, answer)
      BY <1>2 DEF Read, Conflict, UpdateGone, Answers, db
    <2>2. /\ pc'[r] = "done" /\ reply'[r] # "ok"
          /\ \A s \in Requests \ {r} : pc'[s] = pc[s] /\ reply'[s] = reply[s]
      BY <2>1 DEF Answer, Goto
    <2>3. QED
      BY <2>1, <2>2, StepRecorded
  <1>3. ASSUME NEW r \in Requests, BeginCreate(r) \/ PassCheck(r) PROVE Recorded'
    <2>1. /\ UNCHANGED <<audit, reply>> /\ pc[r] \in {"admitted", "checking"}
          /\ \E label \in {"checking", "written"} : Goto(r, label)
      BY <1>3 DEF BeginCreate, PassCheck, db
    <2>2. /\ pc'[r] \in {"checking", "written"} /\ reply'[r] = reply[r]
          /\ \A s \in Requests \ {r} : pc'[s] = pc[s] /\ reply'[s] = reply[s]
      BY <2>1 DEF Goto
    <2>3. QED
      BY <2>1, <2>2, StepRecorded
  <1>4. ASSUME NEW r \in Requests, Fetch(r) \/ Update(r) \/ Delete(r) PROVE Recorded'
    <2>1. /\ UNCHANGED audit /\ pc[r] \in {"admitted", "fetched"}
          /\ \/ Answer(r, "forbidden")
             \/ \E label \in {"fetched", "written"} : Goto(r, label) /\ UNCHANGED reply
      BY <1>4 DEF Fetch, Update, Delete, db
    <2>2. /\ \/ pc'[r] = "done" /\ reply'[r] # "ok"
             \/ pc'[r] \in {"fetched", "written"} /\ reply'[r] = reply[r]
          /\ \A s \in Requests \ {r} : pc'[s] = pc[s] /\ reply'[s] = reply[s]
      BY <2>1 DEF Answer, Goto
    <2>3. QED
      BY <2>1, <2>2, StepRecorded
  <1>5. ASSUME NEW r \in Requests, Notify(r) \/ FailTx(r) \/ Crash(r) PROVE Recorded'
    BY <1>5, StepRecorded DEF Notify, FailTx, Crash, Answer, Goto, InTx, db
  <1>6. ASSUME NEW r \in Requests, Commit(r) \/ LoseCommitReply(r) PROVE Recorded'
    BY <1>6, CommitRecorded
  <1>7. CASE UNCHANGED <<audit, pc, reply>>
    <2>1. \A s \in Requests : EntriesOf(s)' = EntriesOf(s)
      BY <1>7, TrailKept
    <2>2. QED
      BY <1>7, <2>1, OthersRecorded DEF Recorded
  <1>8. QED
    BY <1>1, <1>2, <1>3, <1>4, <1>5, <1>6, <1>7
       DEF Next, Arrive, Step, Fail, SetPolicy, ChangeGrant, Rest, vars, db

\* Callers can trust their answers: a refusal left no trace, an ok left one entry,
\* and no request leaves two, whatever fails and whoever else is served.
THEOREM AnswersAreTruthful == Spec => []AnswerIsTruthful
  <1>1. Init => Recorded
    BY DEF Init, Recorded, RecordedOf, EntriesOf
  <1>2. QED
    BY <1>1, Invariance, NextRecorded, RecordedIsTruthful, PTL DEF Spec
===============================================================================
