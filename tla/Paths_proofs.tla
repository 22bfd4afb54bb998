------------------------------ MODULE Paths_proofs ------------------------------
(***************************************************************************)
(* Proofs about the parts that read the release mount and its files, for   *)
(* every set of jobs, checks, paths, readers, releases, files and items.   *)
(*                                                                         *)
(*   PathsTyped             PathsSpec => []PathsTypesOK                    *)
(*   ProbesBounded          ProbeSpec => []ProbeBounded                    *)
(*   FreshLinkOnRefusal     DeliverySpec => []OnlyNewLinksRefused          *)
(*   ReplacementsSpared     MissingSpec => ReplacementSpared               *)
(***************************************************************************)
EXTENDS Paths, GatewayMount_proofs, FiniteSetTheorems, SequenceTheorems,
        WellFoundedInduction, TLAPS

--------------------------------------------------------------------------------
(***************************************************************************)
(* Read probes.  What is active is what is read: a path leaves both        *)
(* together, which needs that no path is read twice.                       *)
(***************************************************************************)

ProbeInv ==
  /\ active = {r[2] : r \in reads}
  /\ reads \subseteq Checker \X ProbePath
  /\ \A r, q \in reads : r[2] = q[2] => r = q
  /\ IsFiniteSet(reads) /\ taken \in Nat
  /\ Cardinality(reads) = taken /\ taken <= Slots

LEMMA ProbeStep == ProbeInv /\ [ProbeNext]_probeVars => ProbeInv'
<1> SUFFICES ASSUME ProbeInv, [ProbeNext]_probeVars PROVE ProbeInv'
  OBVIOUS
<1> USE DEF ProbeInv
<1>1. ASSUME NEW c \in Checker, NEW p \in ProbePath, ProbeStarts(c, p)
      PROVE  ProbeInv'
  <2>1. /\ p \notin active /\ taken < Slots
        /\ active' = active \cup {p} /\ taken' = taken + 1
        /\ reads' = reads \cup {<<c, p>>}
    BY <1>1 DEF ProbeStarts, Free
  <2>2. <<c, p>> \notin reads
    BY <2>1
  <2>3. IsFiniteSet(reads') /\ Cardinality(reads') = taken'
    BY <2>1, <2>2, FS_AddElement
  <2>4. taken' \in Nat /\ taken' <= Slots
    BY <2>1, ProbeConstants
  <2>5. \A r, q \in reads' : r[2] = q[2] => r = q
    BY <2>1
  <2>6. active' = {r[2] : r \in reads'}
    <3>1. active = {r[2] : r \in reads} /\ <<c, p>>[2] = p
      OBVIOUS
    <3> HIDE DEF ProbeInv
    <3> QED
      BY <2>1, <3>1
  <2> QED
    BY <2>1, <2>3, <2>4, <2>5, <2>6
<1>2. ASSUME NEW c \in Checker, NEW p \in ProbePath, ReadReturns(c, p)
      PROVE  ProbeInv'
  <2>1. /\ <<c, p>> \in reads
        /\ active' = active \ {p} /\ taken' = taken - 1
        /\ reads' = reads \ {<<c, p>>}
    BY <1>2 DEF ReadReturns, Given
  <2>2. IsFiniteSet(reads') /\ Cardinality(reads') = taken'
    BY <2>1, FS_RemoveElement
  <2>3. taken' \in Nat /\ taken' <= Slots
    BY <2>1, <2>2, FS_CardinalityType, ProbeConstants
  <2>4. active' = {r[2] : r \in reads'}
    BY <2>1
  <2> QED
    BY <2>1, <2>2, <2>3, <2>4
<1>3. ASSUME NEW c \in Checker, CheckTimesOut(c) PROVE ProbeInv'
  BY <1>3 DEF CheckTimesOut
<1>4. CASE UNCHANGED probeVars
  BY <1>4 DEF probeVars
<1> QED
  BY <1>1, <1>2, <1>3, <1>4 DEF ProbeNext

\* However many checks give up on reads that hang, no path is read twice at a
\* time and the reads outstanding are as many as the slots taken.
THEOREM ProbesBounded == ProbeSpec => []ProbeBounded
<1>1. ProbeInit => ProbeInv
  BY ProbeConstants, FS_EmptySet DEF ProbeInit, ProbeInv
<1>2. ProbeInv => ProbeBounded
  BY DEF ProbeInv, ProbeBounded
<1> QED
  BY <1>1, <1>2, ProbeStep, PTL DEF ProbeSpec

--------------------------------------------------------------------------------
(***************************************************************************)
(* Delivery links.  No link in the cache or in hand is newer than the last *)
(* one made, and a second attempt never holds one that is older than its   *)
(* request.                                                                *)
(***************************************************************************)

ReaderStepName == {"idle", "locking", "linking", "asking", "refused"}
ReaderType == [step : ReaderStepName, file : Streamed \cup {NoFile},
               attempt : {0, 1}, link : Nat, since : Nat]

LinkInv ==
  /\ minted \in [Streamed -> Nat] /\ cache \in [Streamed -> Nat]
  /\ reader \in [Reader -> ReaderType]
  /\ \A r \in Reader :
       /\ reader[r].step # "idle" =>
            reader[r].file \in Streamed /\ reader[r].since <= minted[reader[r].file]
       /\ reader[r].step = "asking" /\ reader[r].attempt = 1 =>
            reader[r].link > reader[r].since
       /\ reader[r].step = "refused" => reader[r].link > reader[r].since

\* What a reader may become: any typed request that keeps its part of LinkInv.
ReaderSound(v) ==
  /\ v \in ReaderType
  /\ v.step # "idle" => v.file \in Streamed /\ v.since <= minted'[v.file]
  /\ v.step = "asking" /\ v.attempt = 1 => v.link > v.since
  /\ v.step = "refused" => v.link > v.since

LEMMA ReaderMoves ==
  ASSUME LinkInv, NEW r \in Reader, NEW v, ReaderSound(v),
         reader' = [reader EXCEPT ![r] = v],
         minted' \in [Streamed -> Nat], cache' \in [Streamed -> Nat],
         \A f \in Streamed : minted[f] <= minted'[f]
  PROVE  LinkInv'
<1>1. reader' \in [Reader -> ReaderType]
  BY DEF LinkInv, ReaderSound
<1>2. ASSUME NEW q \in Reader PROVE ReaderSound(reader'[q])
  <2>1. CASE q = r
    BY <2>1 DEF LinkInv
  <2>2. CASE q # r
    <3>1. reader'[q] = reader[q] /\ reader[q] \in ReaderType
      BY <2>2 DEF LinkInv
    <3>2. reader[q].step # "idle" =>
            /\ reader[q].file \in Streamed
            /\ reader[q].since <= minted'[reader[q].file]
      <4> SUFFICES ASSUME reader[q].step # "idle"
                   PROVE  /\ reader[q].file \in Streamed
                          /\ reader[q].since <= minted'[reader[q].file]
        OBVIOUS
      <4> DEFINE f == reader[q].file
      <4>1. f \in Streamed /\ reader[q].since <= minted[f]
        BY DEF LinkInv
      <4>2. reader[q].since \in Nat /\ minted[f] \in Nat /\ minted'[f] \in Nat
        BY <3>1, <4>1 DEF LinkInv, ReaderType
      <4> QED
        BY <4>1, <4>2
    <3> QED
      BY <3>1, <3>2 DEF LinkInv, ReaderSound
  <2> QED
    BY <2>1, <2>2
<1> QED
  BY <1>1, <1>2 DEF LinkInv, ReaderSound

\* The reader of a step that is not idle, and what holds of it.
LEMMA ReaderTyped ==
  ASSUME LinkInv, NEW r \in Reader
  PROVE  /\ reader[r] \in ReaderType
         /\ reader[r].attempt \in {0, 1}
         /\ reader[r].link \in Nat /\ reader[r].since \in Nat
         /\ reader[r].step # "idle" =>
              /\ reader[r].file \in Streamed
              /\ minted[reader[r].file] \in Nat /\ cache[reader[r].file] \in Nat
              /\ reader[r].since <= minted[reader[r].file]
  BY DEF LinkInv, ReaderType

LEMMA IdleReader ==
  ReaderSound(NoRead)
  BY DEF NoRead, ReaderSound, ReaderType, ReaderStepName

LEMMA LinkStep == LinkInv /\ [DeliveryNext]_deliveryVars => LinkInv'
<1> SUFFICES ASSUME LinkInv, [DeliveryNext]_deliveryVars PROVE LinkInv'
  OBVIOUS
<1>1. /\ minted \in [Streamed -> Nat] /\ cache \in [Streamed -> Nat]
      /\ reader \in [Reader -> ReaderType]
      /\ \A f \in Streamed : minted[f] <= minted[f]
  BY DEF LinkInv
<1>2. ASSUME NEW r \in Reader, NEW f \in Streamed, ReadStarts(r, f) PROVE LinkInv'
  <2> DEFINE v == [NoRead EXCEPT !.step = "locking", !.file = f, !.since = minted[f]]
  <2>1. ReaderSound(v)
    BY <1>1, <1>2 DEF ReadStarts, NoRead, ReaderSound, ReaderType, ReaderStepName
  <2>2. reader' = [reader EXCEPT ![r] = v] /\ UNCHANGED <<minted, cache>>
    BY <1>2 DEF ReadStarts
  <2> QED
    BY <1>1, <2>1, <2>2, ReaderMoves
<1>3. ASSUME NEW r \in Reader, TakeLink(r) PROVE LinkInv'
  <2>1. reader[r].step = "locking" /\ UNCHANGED <<minted, cache>>
    BY <1>3 DEF TakeLink
  <2>2. CASE FromCache(r)
    <3> DEFINE v == [reader[r] EXCEPT !.step = "asking",
                                      !.link = cache[reader[r].file]]
    <3>1. ReaderSound(v)
      <4>1. /\ reader[r] \in ReaderType /\ cache[reader[r].file] \in Nat
            /\ reader[r].file \in Streamed
            /\ reader[r].since <= minted[reader[r].file]
        BY <2>1, ReaderTyped
      <4>2. /\ v \in ReaderType /\ v.step = "asking" /\ v.file = reader[r].file
            /\ v.attempt = 0 /\ v.since = reader[r].since
        BY <2>2, <4>1 DEF FromCache, ReaderType, ReaderStepName
      <4> QED
        BY <2>1, <4>1, <4>2 DEF ReaderSound
    <3>2. reader' = [reader EXCEPT ![r] = v]
      BY <1>1, <1>3, <2>2 DEF TakeLink
    <3> QED
      BY <1>1, <2>1, <3>1, <3>2, ReaderMoves
  <2>3. CASE ~FromCache(r)
    <3> DEFINE v == [reader[r] EXCEPT !.step = "linking"]
    <3>1. ReaderSound(v)
      BY <2>1, ReaderTyped DEF ReaderSound, ReaderType, ReaderStepName
    <3>2. reader' = [reader EXCEPT ![r] = v]
      BY <1>1, <1>3, <2>3 DEF TakeLink
    <3> QED
      BY <1>1, <2>1, <3>1, <3>2, ReaderMoves
  <2> QED
    BY <2>2, <2>3
<1>4. ASSUME NEW r \in Reader, LinkMade(r) PROVE LinkInv'
  <2> DEFINE f == reader[r].file
             new == minted[f] + 1
             v == [reader[r] EXCEPT !.step = "asking", !.link = new]
  <2>1. /\ reader[r].step = "linking"
        /\ minted' = [minted EXCEPT ![f] = new]
        /\ cache' = [cache EXCEPT ![f] = new]
        /\ reader' = [reader EXCEPT ![r] = v]
    BY <1>1, <1>4 DEF LinkMade
  <2>2. /\ f \in Streamed /\ minted[f] \in Nat /\ reader[r].since \in Nat
        /\ reader[r].since <= minted[f] /\ reader[r] \in ReaderType
    BY <2>1, ReaderTyped
  <2>3. new \in Nat /\ new > reader[r].since /\ minted'[f] = new
        /\ reader[r].since <= new
    BY <1>1, <2>1, <2>2
  <2>4. \A g \in Streamed : minted[g] <= minted'[g]
    BY <1>1, <2>1, <2>2
  <2>5. /\ v \in ReaderType /\ v.step = "asking" /\ v.link = new
        /\ v.since = reader[r].since /\ v.file = f
    BY <2>2, <2>3 DEF ReaderType, ReaderStepName
  <2>6. ReaderSound(v)
    BY <2>2, <2>3, <2>5 DEF ReaderSound
  <2>7. minted' \in [Streamed -> Nat] /\ cache' \in [Streamed -> Nat]
    BY <1>1, <2>1, <2>3
  <2> QED
    BY <2>1, <2>4, <2>6, <2>7, ReaderMoves
<1>5. ASSUME NEW r \in Reader, LinkFails(r) \/ Delivered(r) \/ DeliveryFails(r)
      PROVE  LinkInv'
  <2>1. reader' = [reader EXCEPT ![r] = NoRead] /\ UNCHANGED <<minted, cache>>
    BY <1>5 DEF LinkFails, Delivered, DeliveryFails
  <2> QED
    BY <1>1, <2>1, IdleReader, ReaderMoves
<1>6. ASSUME NEW r \in Reader, LinkRefused(r) PROVE LinkInv'
  <2>1. reader[r].step = "asking" /\ UNCHANGED <<minted, cache>>
    BY <1>6 DEF LinkRefused
  <2>2. CASE reader[r].attempt = 0
    <3> DEFINE v == [reader[r] EXCEPT !.step = "locking", !.attempt = 1]
    <3>1. ReaderSound(v)
      BY <2>1, ReaderTyped DEF ReaderSound, ReaderType, ReaderStepName
    <3>2. reader' = [reader EXCEPT ![r] = v]
      BY <1>1, <1>6, <2>2 DEF LinkRefused
    <3> QED
      BY <1>1, <2>1, <3>1, <3>2, ReaderMoves
  <2>3. CASE reader[r].attempt # 0
    <3> DEFINE v == [reader[r] EXCEPT !.step = "refused"]
    <3>1. reader[r].attempt = 1
      BY <2>3, ReaderTyped
    <3>2. reader[r].link > reader[r].since
      BY <2>1, <3>1 DEF LinkInv
    <3>3. ReaderSound(v)
      BY <2>1, <3>2, ReaderTyped DEF ReaderSound, ReaderType, ReaderStepName
    <3>4. reader' = [reader EXCEPT ![r] = v]
      BY <1>1, <1>6, <2>3 DEF LinkRefused
    <3> QED
      BY <1>1, <2>1, <3>3, <3>4, ReaderMoves
  <2> QED
    BY <2>2, <2>3
<1>7. CASE GatewayRestarts
  BY <1>1, <1>7, IdleReader
     DEF GatewayRestarts, LinkInv, NoRead, ReaderType, ReaderStepName, NotCached
<1>8. ASSUME NEW f \in Streamed, LinksRevoked(f) \/ LinkAges(f) PROVE LinkInv'
  <2>1. /\ UNCHANGED <<minted, reader>>
        /\ cache' \in [Streamed -> Nat]
    BY <1>1, <1>8 DEF LinksRevoked, LinkAges, NotCached
  <2> QED
    BY <2>1 DEF LinkInv
<1>9. CASE UNCHANGED deliveryVars
  BY <1>9 DEF deliveryVars, LinkInv
<1> QED
  BY <1>2, <1>3, <1>4, <1>5, <1>6, <1>7, <1>8, <1>9 DEF DeliveryNext, ReaderStep

\* A link that was in the cache before a request, or went stale in it, never
\* turns the request away: only one made for it does.
THEOREM FreshLinkOnRefusal == DeliverySpec => []OnlyNewLinksRefused
<1>1. DeliveryInit => LinkInv
  BY DEF DeliveryInit, LinkInv, NoRead, ReaderType, ReaderStepName, NotCached
<1>2. LinkInv => OnlyNewLinksRefused
  BY DEF LinkInv, OnlyNewLinksRefused
<1> QED
  BY <1>1, <1>2, LinkStep, PTL DEF DeliverySpec

--------------------------------------------------------------------------------
(***************************************************************************)
(* Missing files.  A pass that is past the probe has one entry in hand, of *)
(* the rows it listed; the id it is about to delete is not given out again *)
(* and, if Arr still has it, is the one whose link the pass has read.      *)
(***************************************************************************)

\* Steps with an entry in hand.
InHand == {"get", "confirm", "delete", "verify", "event", "flag"}

HandInv ==
  /\ files \in Nat /\ work.id \in Nat
  /\ library \in [Item -> [id : Nat, place : Place]]
  /\ entry \in [Item -> Rows]
  /\ work.todo \subseteq Listed
  /\ work.step \in InHand => \E e \in Listed : work.item = {e}
  /\ \A i \in Item : library[i].id <= files
  /\ work.id <= files
  /\ work.step = "delete" =>
       \A e \in work.item : library[e[1]].id = work.id /\ work.id # 0
                             => work.id \in confirmed

\* A step that takes no file from Arr and goes on with no entry to delete.
LEMMA HandKept ==
  ASSUME HandInv, UNCHANGED <<files, library>>,
         entry' \in [Item -> Rows],
         \/ UNCHANGED <<work, confirmed>>
         \/ /\ work'.todo \subseteq Listed /\ work'.id \in Nat /\ work'.id <= files
            /\ work'.step # "delete"
            /\ work'.step \in InHand => \E e \in Listed : work'.item = {e}
  PROVE  HandInv'
  BY DEF HandInv

LEMMA GotoFields ==
  ASSUME NEW s, NEW t, NEW it, NEW id, WorkGoto(s, t, it, id)
  PROVE  work'.step = s /\ work'.todo = t /\ work'.item = it /\ work'.id = id
  BY DEF WorkGoto

LEMMA ListedRows == \A I \in SUBSET Item : HandInv => Listing(I) \subseteq Listed
  BY DEF HandInv, Listing, Listed, Rows

\* A row stays a row when one column is given a value of its type.
LEMMA RowValues ==
  \A r \in Rows :
    /\ \A p \in Place : [r EXCEPT !.place = p] \in Rows
    /\ \A s \in {"available", "busy", "flagged"} : [r EXCEPT !.state = s] \in Rows
    /\ [r EXCEPT !.saved = TRUE] \in Rows
  BY DEF Rows

\* The entry in hand.
LEMMA HandEntry ==
  ASSUME HandInv, work.step \in InHand
  PROVE  \E e \in Listed : /\ work.item = {e} /\ e[1] \in Item /\ e = <<e[1], e[2]>>
                           /\ library[e[1]].id \in Nat
                           /\ library[e[1]].id <= files
  BY DEF HandInv, Listed

LEMMA WorldHand ==
  ASSUME HandInv,
         \/ \E m \in {"up", "empty", "stuck"} : MountChanges(m)
         \/ \E i \in Item, p \in Place : ArrImportsFile(i, p)
         \/ \E f \in FileId : ReleaseLost(f)
         \/ \E i \in Item : RowFollows(i) \/ SourceSaved(i) \/ Rearmed(i)
  PROVE  HandInv'
<1>1. ASSUME NEW i \in Item, NEW p \in Place, ArrImportsFile(i, p) PROVE HandInv'
  <2>1. /\ files' = files + 1 /\ files \in Nat
        /\ library' = [library EXCEPT ![i] = [id |-> files + 1, place |-> p]]
        /\ UNCHANGED <<entry, work, confirmed>>
    BY <1>1 DEF ArrImportsFile, HandInv
  <2>2. library' \in [Item -> [id : Nat, place : Place]]
    BY <2>1 DEF HandInv
  <2>3. \A k \in Item : library'[k].id <= files'
    BY <2>1 DEF HandInv
  <2>4. work.step = "delete" =>
          \A e \in work.item : library'[e[1]].id = work.id /\ work.id # 0
                                => work.id \in confirmed
    <3> SUFFICES ASSUME work.step = "delete", NEW e \in work.item,
                        library'[e[1]].id = work.id, work.id # 0
                 PROVE  work.id \in confirmed
      OBVIOUS
    <3>1. e[1] \in Item
      BY HandEntry DEF InHand
    <3>2. work.id \in Nat /\ work.id <= files
      BY DEF HandInv
    <3>3. e[1] # i
      BY <2>1, <3>1, <3>2 DEF HandInv
    <3>4. library[e[1]].id = work.id
      BY <2>1, <3>1, <3>3 DEF HandInv
    <3> QED
      BY <3>4 DEF HandInv
  <2> QED
    BY <2>1, <2>2, <2>3, <2>4 DEF HandInv
<1>2. ASSUME NEW m \in {"up", "empty", "stuck"}, MountChanges(m) PROVE HandInv'
  BY <1>2, HandKept DEF MountChanges, HandInv
<1>3. ASSUME NEW f \in FileId, ReleaseLost(f) PROVE HandInv'
  BY <1>3, HandKept DEF ReleaseLost, HandInv
<1>4. ASSUME NEW i \in Item, RowFollows(i) \/ SourceSaved(i) \/ Rearmed(i)
      PROVE  HandInv'
  <2>1. entry[i] \in Rows /\ library[i].place \in Place
    BY DEF HandInv
  <2>2. PICK v \in Rows : entry' = [entry EXCEPT ![i] = v]
    <3>1. CASE RowFollows(i)
      <4>1. entry' = [entry EXCEPT ![i] = [entry[i] EXCEPT !.place = library[i].place]]
        BY <3>1 DEF RowFollows
      <4> QED
        BY <2>1, <4>1, RowValues
    <3>2. CASE SourceSaved(i)
      <4>1. entry' = [entry EXCEPT ![i] = [entry[i] EXCEPT !.saved = TRUE]]
        BY <3>2 DEF SourceSaved
      <4> QED
        BY <2>1, <4>1, RowValues
    <3>3. CASE Rearmed(i)
      <4>1. \E s \in {"available", "busy", "flagged"} :
              entry' = [entry EXCEPT ![i] = [entry[i] EXCEPT !.state = s]]
        BY <3>3 DEF Rearmed
      <4> QED
        BY <2>1, <4>1, RowValues
    <3> QED
      BY <1>4, <3>1, <3>2, <3>3
  <2>3. entry' \in [Item -> Rows]
    BY <2>2 DEF HandInv
  <2> QED
    BY <1>4, <2>3, HandKept DEF RowFollows, SourceSaved, Rearmed, worldVars
<1> QED
  BY <1>1, <1>2, <1>3, <1>4

\* The steps of a pass that take nothing in hand that was not there.
LEMMA WorkHand ==
  ASSUME HandInv, WorkStep \/ WorkFails \/ DeleteFails
  PROVE  HandInv'
<1>1. /\ 0 \in Nat /\ files \in Nat /\ 0 <= files /\ work.id \in Nat /\ work.id <= files
      /\ work.todo \subseteq Listed /\ {} \subseteq Listed
      /\ entry \in [Item -> Rows]
      /\ library \in [Item -> [id : Nat, place : Place]]
  BY DEF HandInv
<1>2. CASE Canary
  BY <1>1, <1>2, HandKept, GotoFields DEF Canary, NextRow, worldVars, InHand
<1>3. CASE ListFlagged
  <2>1. ToReport \in SUBSET Item
    BY DEF ToReport
  <2> QED
    BY <1>1, <1>3, <2>1, ListedRows, HandKept, GotoFields
       DEF ListFlagged, worldVars, InHand
<1>4. CASE ProbeLink
  <2>1. /\ work'.todo \subseteq Listed /\ work'.id = 0
        /\ \/ work'.step \in {"scan", "probe"}
           \/ work'.step = "get" /\ \E e \in Listed : work'.item = {e}
    <3>1. CASE NextRow("scan")
      BY <1>1, <3>1, GotoFields DEF NextRow
    <3>2. ASSUME NEW e \in work.todo,
                 \/ WorkGoto("get", work.todo \ {e}, {e}, 0)
                 \/ WorkGoto("probe", work.todo \ {e}, {}, 0)
          PROVE  /\ work'.todo \subseteq Listed /\ work'.id = 0
                 /\ \/ work'.step = "probe"
                    \/ work'.step = "get" /\ \E d \in Listed : work'.item = {d}
      BY <1>1, <3>2, GotoFields
    <3> QED
      BY <1>4, <3>1, <3>2 DEF ProbeLink
  <2> QED
    BY <1>1, <1>4, <2>1, HandKept DEF ProbeLink, worldVars, InHand
<1>5. CASE GetIdentity
  <2>1. PICK e \in Listed : work.item = {e} /\ e[1] \in Item
    BY <1>5, HandEntry DEF GetIdentity, InHand
  <2>2. library[e[1]].id \in Nat /\ library[e[1]].id <= files
    BY <2>1 DEF HandInv
  <2>3. /\ work'.todo \subseteq Listed
        /\ work'.id \in {0, library[e[1]].id}
        /\ \/ work'.step = "probe"
           \/ work'.step \in {"event", "confirm"} /\ work'.item = {e}
    BY <1>1, <1>5, <2>1, GotoFields DEF GetIdentity, NextRow
  <2> QED
    BY <1>1, <1>5, <2>2, <2>3, HandKept DEF GetIdentity, worldVars, InHand
<1>6. CASE Confirm
  <2>1. PICK e \in Listed : work.item = {e} /\ e[1] \in Item
    BY <1>6, HandEntry DEF Confirm, InHand
  <2>2. CASE SeenMissing(e)
    <3>1. /\ work'.step = "delete" /\ work'.todo = work.todo
          /\ work'.item = {e} /\ work'.id = work.id
          /\ confirmed' = confirmed \cup {library[e[1]].id}
          /\ UNCHANGED <<files, library, entry>>
      BY <1>6, <2>1, <2>2, GotoFields DEF Confirm, worldVars
    <3> QED
      BY <3>1 DEF HandInv
  <2>3. CASE ~SeenMissing(e)
    <3>1. work'.step = "probe" /\ work'.todo = work.todo /\ work'.id = 0
      BY <1>6, <2>1, <2>3, GotoFields DEF Confirm, NextRow
    <3> QED
      BY <1>1, <1>6, <3>1, HandKept DEF Confirm, worldVars, InHand
  <2> QED
    BY <2>2, <2>3
<1>7. CASE DeleteFile \/ DeleteFails
  <2>1. PICK e \in Listed : work.item = {e} /\ e[1] \in Item
    BY <1>7, HandEntry DEF DeleteFile, DeleteFails, InHand
  <2>2. library' = library \/ library' = [library EXCEPT ![e[1]].id = 0]
    BY <1>7, <2>1 DEF DeleteFile, DeleteFails
  <2>3. /\ library' \in [Item -> [id : Nat, place : Place]]
        /\ \A i \in Item : library'[i].id <= files
    BY <1>1, <2>2 DEF HandInv
  <2>4. /\ work'.todo = work.todo /\ work'.id = 0
        /\ \/ work'.step = "verify" /\ work'.item = {e}
           \/ work'.step = "probe"
        /\ UNCHANGED <<files, entry>>
    BY <1>7, <2>1, GotoFields DEF DeleteFile, DeleteFails, NextRow
  <2> QED
    BY <1>1, <2>3, <2>4 DEF HandInv, InHand
<1>8. CASE VerifyDeleted
  <2>1. PICK e \in Listed : work.item = {e}
    BY <1>8, HandEntry DEF VerifyDeleted, InHand
  <2>2. /\ work'.todo = work.todo /\ work'.id = 0
        /\ \/ work'.step = "event" /\ work'.item = {e}
           \/ work'.step = "probe"
    BY <1>8, <2>1, GotoFields DEF VerifyDeleted, NextRow
  <2> QED
    BY <1>1, <1>8, <2>2, HandKept DEF VerifyDeleted, worldVars, InHand
<1>9. CASE ReportMissing
  BY <1>1, <1>9, HandKept, GotoFields DEF ReportMissing, NextRow, worldVars, InHand
<1>10. CASE ScanInventory
  <2>1. PICK U \in SUBSET Item :
          WorkGoto(IF U = {} THEN "idle" ELSE "stat", Listing(U), {}, 0)
    BY <1>10 DEF ScanInventory
  <2>2. /\ work'.todo \subseteq Listed /\ work'.id = 0
        /\ work'.step \in {"idle", "stat"}
    BY <2>1, ListedRows, GotoFields
  <2> QED
    BY <1>1, <1>10, <2>2, HandKept DEF ScanInventory, worldVars, InHand
<1>11. CASE StatPath
  <2>1. /\ work'.todo \subseteq Listed /\ work'.id = 0
        /\ \/ work'.step \in {"idle", "stat"}
           \/ work'.step = "flag" /\ \E e \in Listed : work'.item = {e}
    <3>1. CASE work' = IdleWork
      BY <3>1 DEF IdleWork
    <3>2. ASSUME NEW e \in work.todo,
                 \/ WorkGoto("flag", work.todo \ {e}, {e}, 0)
                 \/ WorkGoto("stat", work.todo \ {e}, {}, 0)
          PROVE  /\ work'.todo \subseteq Listed /\ work'.id = 0
                 /\ \/ work'.step = "stat"
                    \/ work'.step = "flag" /\ \E d \in Listed : work'.item = {d}
      BY <1>1, <3>2, GotoFields
    <3> QED
      BY <1>11, <3>1, <3>2 DEF StatPath
  <2> QED
    BY <1>1, <1>11, <2>1, HandKept DEF StatPath, worldVars, InHand
<1>12. CASE FlagRow
  <2>1. PICK e \in Listed : work.item = {e} /\ e[1] \in Item
    BY <1>12, HandEntry DEF FlagRow, InHand
  <2>2. entry' = entry \/ entry' = [entry EXCEPT ![e[1]].state = "flagged"]
    BY <1>12, <2>1 DEF FlagRow
  <2>3. entry' \in [Item -> Rows]
    BY <1>1, <2>2 DEF Rows
  <2>4. work'.step = "stat" /\ work'.todo = work.todo /\ work'.id = 0
    BY <1>12, GotoFields DEF FlagRow, NextRow
  <2> QED
    BY <1>1, <1>12, <2>3, <2>4, HandKept DEF FlagRow, worldVars, InHand
<1>13. CASE WorkFails
  <2>1. /\ work'.todo \subseteq Listed /\ work'.id = 0
        /\ work'.step \in {"idle", "probe", "stat"}
    BY <1>1, <1>13, GotoFields DEF WorkFails, NextRow, IdleWork
  <2> QED
    BY <1>1, <1>13, <2>1, HandKept DEF WorkFails, worldVars, InHand
<1> QED
  BY <1>2, <1>3, <1>4, <1>5, <1>6, <1>7, <1>8, <1>9, <1>10, <1>11, <1>12, <1>13
     DEF WorkStep

LEMMA HandStep == HandInv /\ [MissingNext]_missingVars => HandInv'
<1>1. ASSUME HandInv, UNCHANGED missingVars PROVE HandInv'
  BY <1>1 DEF missingVars, HandInv
<1> QED
  BY <1>1, WorldHand, WorkHand DEF MissingNext

LEMMA HandInitial == MissingInit => HandInv
  BY MissingConstants DEF MissingInit, HandInv, IdleWork, InHand, Rows, Place

\* Only a deletion takes a file from Arr, and only the one it names.
LEMMA SparedStep ==
  ASSUME HandInv, [MissingNext]_missingVars, NEW i \in Item,
         library[i].id # 0, library'[i].id = 0
  PROVE  library[i].id \in confirmed
<1>1. library \in [Item -> [id : Nat, place : Place]] /\ files \in Nat
  BY DEF HandInv
<1>2. DeleteFile \/ DeleteFails
  <2>1. ASSUME NEW k \in Item, NEW p \in Place, ArrImportsFile(k, p) PROVE FALSE
    BY <1>1, <2>1 DEF ArrImportsFile
  <2>2. ASSUME \/ \E m \in {"up", "empty", "stuck"} : MountChanges(m)
               \/ \E f \in FileId : ReleaseLost(f)
               \/ \E k \in Item : RowFollows(k) \/ SourceSaved(k) \/ Rearmed(k)
               \/ WorkFails \/ (WorkStep /\ ~DeleteFile) \/ UNCHANGED missingVars
        PROVE  library' = library
    BY <2>2 DEF MountChanges, ReleaseLost, RowFollows, SourceSaved, Rearmed,
       WorkFails, WorkStep, Canary, ListFlagged, ProbeLink, GetIdentity, Confirm,
       VerifyDeleted, ReportMissing, ScanInventory, StatPath, FlagRow, worldVars,
       missingVars
  <2> QED
    BY <2>1, <2>2 DEF MissingNext
<1>3. PICK e \in Listed : work.item = {e} /\ e[1] \in Item
  BY <1>2, HandEntry DEF DeleteFile, DeleteFails, InHand
<1>4. library[e[1]].id = work.id /\ i = e[1]
  BY <1>1, <1>2, <1>3 DEF DeleteFile, DeleteFails, Deleted
<1> QED
  BY <1>2, <1>3, <1>4 DEF HandInv, DeleteFile, DeleteFails

\* However Arr replaces files between the lookup, the confirmation and the
\* deletion, only a file whose own link was read as missing is deleted.
THEOREM ReplacementsSpared == MissingSpec => ReplacementSpared
<1>1. HandInv /\ [MissingNext]_missingVars =>
        [\A i \in Item : library[i].id # 0 /\ library'[i].id = 0
                            => library[i].id \in confirmed]_missingVars
  BY SparedStep
<1> QED
  BY <1>1, HandInitial, HandStep, PTL DEF MissingSpec, ReplacementSpared

--------------------------------------------------------------------------------
(***************************************************************************)
(* Types of the parts, for the composition.                                *)
(***************************************************************************)

\* A check waits for a path, or for none.
LEMMA AskedStep ==
  ASSUME asked \in [Checker -> ProbePath \cup {NoPath}], [ProbeNext]_probeVars
  PROVE  asked' \in [Checker -> ProbePath \cup {NoPath}]
<1>1. ASSUME NEW c \in Checker, NEW p \in ProbePath,
             ProbeStarts(c, p) \/ ReadReturns(c, p)
      PROVE  asked' \in [Checker -> ProbePath \cup {NoPath}]
  BY <1>1 DEF ProbeStarts, ReadReturns
<1>2. ASSUME NEW c \in Checker, CheckTimesOut(c)
      PROVE  asked' \in [Checker -> ProbePath \cup {NoPath}]
  BY <1>2 DEF CheckTimesOut
<1>3. CASE UNCHANGED probeVars
  BY <1>3 DEF probeVars
<1> QED
  BY <1>1, <1>2, <1>3 DEF ProbeNext

LEMMA ProbeTyped == ProbeSpec => []ProbeTypeOK
<1> DEFINE I == ProbeInv /\ asked \in [Checker -> ProbePath \cup {NoPath}]
<1>1. ProbeInit => I
  BY ProbeConstants, FS_EmptySet DEF ProbeInit, ProbeInv
<1>2. I /\ [ProbeNext]_probeVars => I'
  BY ProbeStep, AskedStep
<1>3. I => ProbeTypeOK
  BY DEF ProbeInv, ProbeTypeOK
<1> QED
  BY <1>1, <1>2, <1>3, PTL DEF ProbeSpec

\* A request holds links that have been made for its file, if it has one.
Served(v) == v.step \notin Ended => v.file \in Streamed

DeliveryInv == DeliveryTypeOK /\ \A r \in Reader : Served(reader[r])

LEMMA LinkNumbers == MaxLinks \in Nat /\ 0 \in 0 .. MaxLinks
<1>1. MaxLinks \in Nat
  BY DeliveryAssumption
<1> QED
  BY <1>1

\* One reader moves and keeps the mutex as it is, or gives or takes it.
LEMMA ServedMoves ==
  ASSUME DeliveryInv, NEW r \in Reader, NEW v \in Read, Served(v),
         reader' = [reader EXCEPT ![r] = v],
         \/ v.step # "linking" /\ reader[r].step # "linking" /\ holder' = holder
         \/ v.step # "linking" /\ reader[r].step = "linking" /\ holder' = NoReader
         \/ v.step = "linking" /\ holder = NoReader /\ holder' = r
  PROVE  /\ holder' \in Reader \cup {NoReader}
         /\ reader' \in [Reader -> Read]
         /\ \A q \in Reader : /\ reader'[q].step = "linking" <=> holder' = q
                             /\ Served(reader'[q])
<1>1. /\ reader \in [Reader -> Read] /\ holder \in Reader \cup {NoReader}
      /\ \A q \in Reader : reader[q].step = "linking" <=> holder = q
      /\ \A q \in Reader : Served(reader[q])
  BY DEF DeliveryInv, DeliveryTypeOK
<1>2. NoReader \notin Reader
  BY DeliveryAssumption
<1>3. reader' \in [Reader -> Read] /\ holder' \in Reader \cup {NoReader}
  BY <1>1
<1>4. ASSUME NEW q \in Reader
      PROVE  /\ reader'[q].step = "linking" <=> holder' = q
             /\ Served(reader'[q])
  <2>1. CASE q = r
    <3>1. reader'[q] = v
      BY <1>1, <2>1
    <3> QED
      BY <1>1, <1>2, <2>1, <3>1
  <2>2. CASE q # r
    <3>1. reader'[q] = reader[q]
      BY <1>1, <2>2
    <3> QED
      BY <1>1, <1>2, <2>2, <3>1
  <2> QED
    BY <2>1, <2>2
<1> QED
  BY <1>3, <1>4

LEMMA ServedStep == DeliveryInv /\ [DeliveryNext]_deliveryVars => DeliveryInv'
<1> SUFFICES ASSUME DeliveryInv, [DeliveryNext]_deliveryVars PROVE DeliveryInv'
  OBVIOUS
<1>1. /\ minted \in [Streamed -> 0 .. MaxLinks]
      /\ revoked \in [Streamed -> Nat] /\ cache \in [Streamed -> Nat]
      /\ \A f \in Streamed : revoked[f] <= minted[f] /\ cache[f] <= minted[f]
      /\ reader \in [Reader -> Read]
      /\ MaxLinks \in Nat /\ NoReader \notin Reader
  BY DeliveryAssumption DEF DeliveryInv, DeliveryTypeOK
<1>2. /\ NoRead \in Read /\ Served(NoRead) /\ NoRead.step = "idle"
  BY LinkNumbers DEF NoRead, Read, ReadStepName, Served, Ended
<1>3. ASSUME NEW r \in Reader, NEW f \in Streamed, ReadStarts(r, f)
      PROVE  DeliveryInv'
  <2> DEFINE v == [NoRead EXCEPT !.step = "locking", !.file = f, !.since = minted[f]]
  <2>1. v \in Read /\ Served(v) /\ v.step = "locking"
    BY <1>1, LinkNumbers DEF NoRead, Read, ReadStepName, Served
  <2>2. /\ reader' = [reader EXCEPT ![r] = v] /\ reader[r].step # "linking"
        /\ UNCHANGED <<minted, revoked, cache, holder>>
    BY <1>3 DEF ReadStarts, Ended
  <2> QED
    BY <1>1, <2>1, <2>2, ServedMoves DEF DeliveryInv, DeliveryTypeOK
<1>4. ASSUME NEW r \in Reader, TakeLink(r) PROVE DeliveryInv'
  <2>1. /\ reader[r].step = "locking" /\ holder = NoReader
        /\ UNCHANGED <<minted, revoked, cache>>
    BY <1>4 DEF TakeLink
  <2>2. reader[r] \in Read /\ reader[r].file \in Streamed
    BY <1>1, <2>1 DEF DeliveryInv, Served, Ended
  <2>3. CASE FromCache(r)
    <3> DEFINE v == [reader[r] EXCEPT !.step = "asking",
                                      !.link = cache[reader[r].file]]
    <3>1. cache[reader[r].file] \in 0 .. MaxLinks
      BY <1>1, <2>2
    <3>2. v \in Read /\ v.step = "asking" /\ Served(v)
      BY <2>2, <3>1 DEF Read, ReadStepName, Served
    <3>3. reader' = [reader EXCEPT ![r] = v] /\ holder' = holder
      BY <1>1, <1>4, <2>3 DEF TakeLink
    <3> QED
      BY <1>1, <2>1, <3>2, <3>3, ServedMoves DEF DeliveryInv, DeliveryTypeOK
  <2>4. CASE ~FromCache(r)
    <3> DEFINE v == [reader[r] EXCEPT !.step = "linking"]
    <3>1. v \in Read /\ v.step = "linking" /\ Served(v)
      BY <2>2 DEF Read, ReadStepName, Served
    <3>2. reader' = [reader EXCEPT ![r] = v] /\ holder' = r
      BY <1>1, <1>4, <2>4 DEF TakeLink
    <3> QED
      BY <1>1, <2>1, <3>1, <3>2, ServedMoves DEF DeliveryInv, DeliveryTypeOK
  <2> QED
    BY <2>3, <2>4
<1>5. ASSUME NEW r \in Reader, LinkMade(r) PROVE DeliveryInv'
  <2> DEFINE f == reader[r].file
             new == minted[f] + 1
             v == [reader[r] EXCEPT !.step = "asking", !.link = new]
  <2>1. /\ reader[r].step = "linking" /\ minted[f] < MaxLinks
        /\ minted' = [minted EXCEPT ![f] = new]
        /\ cache' = [cache EXCEPT ![f] = new]
        /\ reader' = [reader EXCEPT ![r] = v]
        /\ holder' = NoReader /\ revoked' = revoked
    BY <1>1, <1>5 DEF LinkMade
  <2>2. reader[r] \in Read /\ f \in Streamed
    BY <1>1, <2>1 DEF DeliveryInv, Served, Ended
  <2>3. new \in 0 .. MaxLinks /\ new \in Nat /\ minted[f] < new
    BY <1>1, <2>1, <2>2
  <2>4. v \in Read /\ v.step = "asking" /\ Served(v)
    BY <2>2, <2>3 DEF Read, ReadStepName, Served
  <2>5. minted' \in [Streamed -> 0 .. MaxLinks] /\ cache' \in [Streamed -> Nat]
    BY <1>1, <2>1, <2>3
  <2>6. ASSUME NEW g \in Streamed
        PROVE  revoked'[g] <= minted'[g] /\ cache'[g] <= minted'[g]
    <3>1. CASE g = f
      BY <1>1, <2>1, <2>2, <2>3, <3>1
    <3>2. CASE g # f
      BY <1>1, <2>1, <3>2
    <3> QED
      BY <3>1, <3>2
  <2> QED
    BY <1>1, <2>1, <2>4, <2>5, <2>6, ServedMoves DEF DeliveryInv, DeliveryTypeOK
<1>6. ASSUME NEW r \in Reader, LinkFails(r) \/ Delivered(r) \/ DeliveryFails(r)
      PROVE  DeliveryInv'
  <2>1. /\ reader' = [reader EXCEPT ![r] = NoRead]
        /\ UNCHANGED <<minted, revoked, cache>>
        /\ \/ reader[r].step # "linking" /\ holder' = holder
           \/ reader[r].step = "linking" /\ holder' = NoReader
    BY <1>6 DEF LinkFails, Delivered, DeliveryFails
  <2> QED
    BY <1>1, <1>2, <2>1, ServedMoves DEF DeliveryInv, DeliveryTypeOK
<1>7. ASSUME NEW r \in Reader, LinkRefused(r) PROVE DeliveryInv'
  <2>1. /\ reader[r].step = "asking"
        /\ UNCHANGED <<minted, revoked, cache, holder>>
    BY <1>7 DEF LinkRefused
  <2>2. reader[r] \in Read /\ reader[r].file \in Streamed
    BY <1>1, <2>1 DEF DeliveryInv, Served, Ended
  <2>3. PICK v \in Read : /\ reader' = [reader EXCEPT ![r] = v] /\ Served(v)
                          /\ v.step # "linking"
    <3>1. CASE reader[r].attempt = 0
      <4> DEFINE v == [reader[r] EXCEPT !.step = "locking", !.attempt = 1]
      <4>1. v \in Read /\ v.step = "locking" /\ Served(v)
        BY <2>2 DEF Read, ReadStepName, Served
      <4>2. reader' = [reader EXCEPT ![r] = v]
        BY <1>1, <1>7, <3>1 DEF LinkRefused
      <4> QED
        BY <4>1, <4>2
    <3>2. CASE reader[r].attempt # 0
      <4> DEFINE v == [reader[r] EXCEPT !.step = "refused"]
      <4>1. v \in Read /\ v.step = "refused" /\ Served(v)
        BY <2>2 DEF Read, ReadStepName, Served
      <4>2. reader' = [reader EXCEPT ![r] = v]
        BY <1>1, <1>7, <3>2 DEF LinkRefused
      <4> QED
        BY <4>1, <4>2
    <3> QED
      BY <3>1, <3>2
  <2> QED
    BY <1>1, <2>1, <2>3, ServedMoves DEF DeliveryInv, DeliveryTypeOK
<1>8. CASE GatewayRestarts
  <2>1. /\ cache' \in [Streamed -> Nat]
        /\ \A f \in Streamed : cache'[f] <= minted[f]
        /\ holder' = NoReader /\ UNCHANGED <<minted, revoked>>
        /\ reader' = [r \in Reader |-> NoRead]
    BY <1>1, <1>8 DEF GatewayRestarts, NotCached
  <2> QED
    BY <1>1, <1>2, <2>1 DEF DeliveryInv, DeliveryTypeOK
<1>9. ASSUME NEW f \in Streamed, LinksRevoked(f) \/ LinkAges(f) PROVE DeliveryInv'
  <2>1. /\ revoked' \in [Streamed -> Nat] /\ cache' \in [Streamed -> Nat]
        /\ \A g \in Streamed : revoked'[g] <= minted[g] /\ cache'[g] <= minted[g]
        /\ UNCHANGED <<minted, holder, reader>>
    BY <1>1, <1>9 DEF LinksRevoked, LinkAges, NotCached
  <2> QED
    BY <2>1 DEF DeliveryInv, DeliveryTypeOK
<1>10. CASE UNCHANGED deliveryVars
  BY <1>10 DEF deliveryVars, DeliveryInv, DeliveryTypeOK
<1> QED
  BY <1>3, <1>4, <1>5, <1>6, <1>7, <1>8, <1>9, <1>10 DEF DeliveryNext, ReaderStep

LEMMA DeliveryTyped == DeliverySpec => []DeliveryTypeOK
<1>1. DeliveryInit => DeliveryInv
  BY LinkNumbers, DeliveryAssumption
     DEF DeliveryInit, DeliveryInv, DeliveryTypeOK, NoRead, Read, ReadStepName,
         Served, Ended, NotCached
<1>2. DeliveryInv => DeliveryTypeOK
  BY DEF DeliveryInv
<1> QED
  BY <1>1, <1>2, ServedStep, PTL DEF DeliverySpec

\* What HandInv leaves open of the types.
MissingInv ==
  /\ HandInv /\ MissingTypeOK

LEMMA FileNumbers == MaxFiles \in Nat /\ 0 \in 0 .. MaxFiles
<1>1. MaxFiles \in Nat
  BY MissingConstants
<1> QED
  BY <1>1

\* The world and the rows.
LEMMA MissingWorld ==
  ASSUME MissingInv,
         \/ \E m \in {"up", "empty", "stuck"} : MountChanges(m)
         \/ \E i \in Item, p \in Place : ArrImportsFile(i, p)
         \/ \E f \in FileId : ReleaseLost(f)
         \/ \E i \in Item : RowFollows(i) \/ SourceSaved(i) \/ Rearmed(i)
  PROVE  MissingTypeOK'
<1>0. HandInv' /\ HandInv /\ MissingTypeOK
  BY WorldHand DEF MissingInv
<1>1. ASSUME NEW i \in Item, NEW p \in Place, ArrImportsFile(i, p)
      PROVE  MissingTypeOK'
  <2>1. /\ files' = files + 1 /\ files \in 0 .. MaxFiles /\ files < MaxFiles
        /\ library' = [library EXCEPT ![i] = [id |-> files + 1, place |-> p]]
        /\ UNCHANGED <<mount, gone, entry, reported, work, confirmed>>
    BY <1>0, <1>1 DEF ArrImportsFile, MissingTypeOK
  <2>2. files' \in 0 .. MaxFiles
    BY <2>1, FileNumbers
  <2>3. library' \in [Item -> [id : 0 .. MaxFiles, place : Place]]
    BY <1>0, <2>1, <2>2 DEF MissingTypeOK
  <2> QED
    BY <1>0, <2>1, <2>2, <2>3 DEF MissingTypeOK
<1>2. ASSUME NEW m \in {"up", "empty", "stuck"}, MountChanges(m)
      PROVE  MissingTypeOK'
  BY <1>0, <1>2 DEF MountChanges, MissingTypeOK
<1>3. ASSUME NEW f \in FileId, ReleaseLost(f) PROVE MissingTypeOK'
  BY <1>0, <1>3 DEF ReleaseLost, MissingTypeOK
<1>4. ASSUME NEW i \in Item, RowFollows(i) \/ SourceSaved(i) \/ Rearmed(i)
      PROVE  MissingTypeOK'
  <2>1. entry' \in [Item -> Rows]
    BY <1>0 DEF HandInv
  <2> QED
    BY <1>0, <1>4, <2>1 DEF RowFollows, SourceSaved, Rearmed, worldVars, MissingTypeOK
<1> QED
  BY <1>1, <1>2, <1>3, <1>4

\* What a step of the pass may make of its own state.
WorkTyped(s, t, it, id) ==
  /\ s \in WorkStepName /\ t \subseteq Listed /\ it \subseteq Listed
  /\ id \in 0 .. MaxFiles

LEMMA WorkMoves ==
  ASSUME MissingInv, HandInv', UNCHANGED <<mount, files, gone>>,
         library' \in [Item -> [id : 0 .. MaxFiles, place : Place]],
         confirmed' \subseteq FileId, reported' \subseteq Item,
         NEW s, NEW t, NEW it, NEW id, WorkTyped(s, t, it, id),
         WorkGoto(s, t, it, id)
  PROVE  MissingTypeOK'
<1>1. work' \in [step : WorkStepName, todo : SUBSET Listed, item : SUBSET Listed,
                 id : 0 .. MaxFiles]
  BY DEF WorkTyped, WorkGoto
<1> QED
  BY <1>1 DEF MissingTypeOK, MissingInv, HandInv

LEMMA MissingWork ==
  ASSUME MissingInv, WorkStep \/ WorkFails \/ DeleteFails
  PROVE  MissingTypeOK'
<1>1. HandInv /\ HandInv' /\ MissingTypeOK
  BY WorkHand DEF MissingInv
<1>2. /\ library \in [Item -> [id : 0 .. MaxFiles, place : Place]]
      /\ confirmed \subseteq FileId /\ reported \subseteq Item
      /\ work.step \in WorkStepName
      /\ work.todo \subseteq Listed /\ work.item \subseteq Listed
      /\ {} \subseteq Listed /\ work.id \in 0 .. MaxFiles
      /\ files \in 0 .. MaxFiles /\ files \in Nat
  BY <1>1 DEF MissingTypeOK, HandInv
<1>3. 0 \in 0 .. MaxFiles
  BY FileNumbers
<1>4. ASSUME NEW s \in WorkStepName, NextRow(s),
             UNCHANGED <<mount, files, gone, confirmed>>,
             library' \in [Item -> [id : 0 .. MaxFiles, place : Place]],
             reported' \subseteq Item
      PROVE  MissingTypeOK'
  BY <1>1, <1>2, <1>3, <1>4, WorkMoves DEF NextRow, WorkTyped
<1>5. ASSUME NEW s \in WorkStepName, NEW t \in SUBSET Listed,
             NEW it \in SUBSET Listed, WorkGoto(s, t, it, 0),
             UNCHANGED <<mount, files, gone, library, confirmed, reported>>
      PROVE  MissingTypeOK'
  BY <1>1, <1>2, <1>3, <1>5, WorkMoves DEF WorkTyped
<1>6. CASE work' = IdleWork /\ UNCHANGED <<worldVars, reported, confirmed>>
  BY <1>1, <1>2, <1>5, <1>6 DEF IdleWork, WorkGoto, WorkStepName, worldVars
<1>7. CASE Canary
  <2>1. PICK s \in WorkStepName : NextRow(s)
    BY <1>7 DEF Canary, WorkStepName
  <2> QED
    BY <1>2, <1>4, <1>7, <2>1 DEF Canary, worldVars
<1>8. CASE ListFlagged
  <2>1. Listing(ToReport) \in SUBSET Listed
    BY <1>1, ListedRows DEF ToReport
  <2> QED
    BY <1>2, <1>5, <1>8, <2>1 DEF ListFlagged, worldVars, WorkStepName
<1>9. CASE ProbeLink
  <2>1. \E s \in WorkStepName, t \in SUBSET Listed, it \in SUBSET Listed :
          WorkGoto(s, t, it, 0)
    <3>1. CASE NextRow("scan")
      BY <1>2, <3>1 DEF NextRow, WorkStepName
    <3>2. ASSUME NEW e \in work.todo,
                 \/ WorkGoto("get", work.todo \ {e}, {e}, 0)
                 \/ WorkGoto("probe", work.todo \ {e}, {}, 0)
          PROVE  \E s \in WorkStepName, t \in SUBSET Listed, it \in SUBSET Listed :
                   WorkGoto(s, t, it, 0)
      <4>1. /\ work.todo \ {e} \in SUBSET Listed /\ {e} \in SUBSET Listed
            /\ {} \in SUBSET Listed /\ "get" \in WorkStepName
            /\ "probe" \in WorkStepName
        BY <1>2 DEF WorkStepName
      <4> QED
        BY <3>2, <4>1
    <3> QED
      BY <1>9, <3>1, <3>2 DEF ProbeLink
  <2> QED
    BY <1>5, <1>9, <2>1 DEF ProbeLink, worldVars
<1>10. CASE GetIdentity
  <2>1. PICK e \in Listed : work.item = {e} /\ e[1] \in Item
    BY <1>1, <1>10, HandEntry DEF GetIdentity, InHand
  <2>2. UNCHANGED <<worldVars, confirmed, reported>>
    BY <1>10 DEF GetIdentity
  <2>3. \/ WorkGoto("event", work.todo, {e}, 0)
        \/ NextRow("probe")
        \/ WorkGoto("confirm", work.todo, {e}, library[e[1]].id)
    BY <1>10, <2>1 DEF GetIdentity
  <2>4. /\ "event" \in WorkStepName /\ "probe" \in WorkStepName
        /\ "confirm" \in WorkStepName /\ {e} \in SUBSET Listed
        /\ library[e[1]].id \in 0 .. MaxFiles
    BY <1>2, <2>1 DEF WorkStepName
  <2>5. CASE WorkGoto("confirm", work.todo, {e}, library[e[1]].id)
    BY <1>1, <1>2, <2>2, <2>4, <2>5, WorkMoves DEF WorkTyped, worldVars
  <2> QED
    BY <1>2, <1>4, <1>5, <2>2, <2>3, <2>4, <2>5 DEF worldVars
<1>11. CASE Confirm
  <2>1. PICK e \in Listed : work.item = {e} /\ e[1] \in Item
    BY <1>1, <1>11, HandEntry DEF Confirm, InHand
  <2>2. UNCHANGED <<worldVars, reported>>
    BY <1>11 DEF Confirm
  <2>3. CASE SeenMissing(e)
    <3>1. /\ WorkGoto("delete", work.todo, {e}, work.id)
          /\ confirmed' = confirmed \cup {library[e[1]].id}
      BY <1>11, <2>1, <2>3 DEF Confirm
    <3>2. library[e[1]].id \in FileId
      BY <1>2, <2>1, <2>3 DEF SeenMissing, Dangling, HasLink, FileId
    <3>3. WorkTyped("delete", work.todo, {e}, work.id)
      BY <1>2, <2>1 DEF WorkTyped, WorkStepName
    <3> QED
      BY <1>1, <1>2, <2>2, <3>1, <3>2, <3>3, WorkMoves DEF worldVars
  <2>4. CASE ~SeenMissing(e)
    <3>1. NextRow("probe") /\ UNCHANGED confirmed /\ "probe" \in WorkStepName
      BY <1>11, <2>1, <2>4 DEF Confirm, WorkStepName
    <3> QED
      BY <1>2, <1>4, <2>2, <3>1 DEF worldVars
  <2> QED
    BY <2>3, <2>4
<1>12. CASE DeleteFile \/ DeleteFails
  <2>1. PICK e \in Listed : work.item = {e} /\ e[1] \in Item
    BY <1>1, <1>12, HandEntry DEF DeleteFile, DeleteFails, InHand
  <2>2. library' = library \/ library' = [library EXCEPT ![e[1]].id = 0]
    BY <1>12, <2>1 DEF DeleteFile, DeleteFails
  <2>3. library' \in [Item -> [id : 0 .. MaxFiles, place : Place]]
    BY <1>2, <1>3, <2>1, <2>2
  <2>4. /\ UNCHANGED <<mount, files, gone, reported, confirmed>>
        /\ WorkGoto("verify", work.todo, {e}, 0) \/ NextRow("probe")
    BY <1>12, <2>1 DEF DeleteFile, DeleteFails
  <2>5. CASE WorkGoto("verify", work.todo, {e}, 0)
    <3>1. WorkTyped("verify", work.todo, {e}, 0)
      BY <1>2, <1>3, <2>1 DEF WorkTyped, WorkStepName
    <3> QED
      BY <1>1, <1>2, <2>3, <2>4, <2>5, <3>1, WorkMoves
  <2>6. CASE NextRow("probe")
    BY <1>2, <1>4, <2>3, <2>4, <2>6 DEF WorkStepName
  <2> QED
    BY <2>4, <2>5, <2>6
<1>13. CASE VerifyDeleted
  <2>1. PICK e \in Listed : work.item = {e}
    BY <1>1, <1>13, HandEntry DEF VerifyDeleted, InHand
  <2>2. /\ WorkGoto("event", work.todo, {e}, 0) \/ NextRow("probe")
        /\ UNCHANGED <<worldVars, confirmed, reported>>
    BY <1>13, <2>1 DEF VerifyDeleted
  <2>3. /\ "event" \in WorkStepName /\ "probe" \in WorkStepName
        /\ {e} \in SUBSET Listed
    BY <2>1 DEF WorkStepName
  <2> QED
    BY <1>2, <1>4, <1>5, <2>2, <2>3 DEF worldVars
<1>14. CASE ReportMissing
  <2>1. reported' \subseteq Item
    BY <1>2, <1>14 DEF ReportMissing, Listed
  <2> QED
    BY <1>2, <1>4, <1>14, <2>1 DEF ReportMissing, worldVars, WorkStepName
<1>15. CASE ScanInventory
  <2>1. PICK U \in SUBSET Item :
          WorkGoto(IF U = {} THEN "idle" ELSE "stat", Listing(U), {}, 0)
    BY <1>15 DEF ScanInventory
  <2>2. Listing(U) \in SUBSET Listed
    BY <1>1, ListedRows
  <2>3. (IF U = {} THEN "idle" ELSE "stat") \in WorkStepName
    BY DEF WorkStepName
  <2> QED
    BY <1>2, <1>5, <1>15, <2>1, <2>2, <2>3 DEF ScanInventory, worldVars
<1>16. CASE StatPath
  <2>1. ASSUME NEW e \in work.todo,
               \/ WorkGoto("flag", work.todo \ {e}, {e}, 0)
               \/ WorkGoto("stat", work.todo \ {e}, {}, 0)
        PROVE  \E s \in WorkStepName, t \in SUBSET Listed, it \in SUBSET Listed :
                 WorkGoto(s, t, it, 0)
    <3>1. /\ work.todo \ {e} \in SUBSET Listed /\ {e} \in SUBSET Listed
          /\ {} \in SUBSET Listed /\ "flag" \in WorkStepName
          /\ "stat" \in WorkStepName
      BY <1>2 DEF WorkStepName
    <3> QED
      BY <2>1, <3>1
  <2>2. UNCHANGED <<worldVars, reported, confirmed>>
    BY <1>16 DEF StatPath
  <2>3. \/ work' = IdleWork
        \/ \E s \in WorkStepName, t \in SUBSET Listed, it \in SUBSET Listed :
             WorkGoto(s, t, it, 0)
    BY <1>16, <2>1 DEF StatPath
  <2> QED
    BY <1>5, <1>6, <2>2, <2>3 DEF worldVars
<1>17. CASE FlagRow
  BY <1>2, <1>4, <1>17 DEF FlagRow, worldVars, WorkStepName
<1>18. CASE WorkFails
  BY <1>2, <1>4, <1>6, <1>18 DEF WorkFails, worldVars, WorkStepName
<1> QED
  BY <1>7, <1>8, <1>9, <1>10, <1>11, <1>12, <1>13, <1>14, <1>15, <1>16, <1>17, <1>18
     DEF WorkStep

LEMMA MissingTyped == MissingSpec => []MissingTypeOK
<1>1. MissingInit => MissingInv
  <2> SUFFICES ASSUME MissingInit PROVE MissingInv
    OBVIOUS
  <2>1. HandInv /\ 0 \in 0 .. MaxFiles
    BY HandInitial, FileNumbers
  <2>2. /\ library \in [Item -> [id : 0 .. MaxFiles, place : Place]]
        /\ entry \in [Item -> Rows]
    BY <2>1 DEF MissingInit, HandInv, Place
  <2>3. work \in [step : WorkStepName, todo : SUBSET Listed, item : SUBSET Listed,
                  id : 0 .. MaxFiles]
    BY <2>1 DEF MissingInit, IdleWork, WorkStepName
  <2> QED
    BY <2>1, <2>2, <2>3 DEF MissingInit, MissingInv, MissingTypeOK
<1>2. MissingInv /\ [MissingNext]_missingVars => MissingInv'
  <2>1. ASSUME MissingInv, UNCHANGED missingVars PROVE MissingInv'
    BY <2>1 DEF missingVars, MissingInv, HandInv, MissingTypeOK
  <2>2. ASSUME MissingInv, [MissingNext]_missingVars PROVE MissingInv'
    <3>1. HandInv'
      BY <2>2, HandStep DEF MissingInv
    <3> QED
      BY <2>1, <2>2, <3>1, MissingWorld, MissingWork DEF MissingNext, MissingInv
  <2> QED
    BY <2>2
<1>3. MissingInv => MissingTypeOK
  BY DEF MissingInv
<1> QED
  BY <1>1, <1>2, <1>3, PTL DEF MissingSpec

\* Any set of numbers has a least one.
LEMMA LeastNumber ==
  ASSUME NEW T, T \subseteq Nat, T # {}
  PROVE  \E n \in T : \A k \in T : n <= k
<1>1. IsWellFoundedOn(OpToRel(<, Nat), Nat)
  BY NatLessThanWellFounded
<1>2. PICK n \in T : \A k \in T : <<k, n>> \notin OpToRel(<, Nat)
  BY <1>1, WFMin
<1>3. \A k \in T : ~(k < n)
  BY <1>2 DEF OpToRel
<1> QED
  BY <1>3

\* The rows waiting, without one of them.
LEMMA WithoutShape ==
  ASSUME NEW S, NEW rows \in Seq(S), NEW d
  PROVE  RemoveFirst(rows, d) \in Seq(S)
<1>1. CASE \E i \in 1 .. Len(rows) : rows[i] = d
  <2> DEFINE I == {i \in 1 .. Len(rows) : rows[i] = d}
             k == SelectInSeq(rows, LAMBDA v : v = d)
  <2>1. Len(rows) \in Nat /\ I \subseteq Nat /\ I # {}
    BY <1>1, LenProperties
  <2>2. \E n \in I : \A m \in I : n <= m
    BY <2>1, LeastNumber
  <2>3. k \in I
    BY <2>1, <2>2 DEF SelectInSeq, Min
  <2>4. RemoveAt(rows, k) \in Seq(S)
    <3>1. k \in 1 .. Len(rows) /\ Len(rows) \in Nat
      BY <2>1, <2>3
    <3> HIDE DEF k
    <3>2. SubSeq(rows, 1, k - 1) \in Seq(S) /\ SubSeq(rows, k + 1, Len(rows)) \in Seq(S)
      BY <3>1, SubSeqProperties
    <3> QED
      BY <3>2, ConcatProperties DEF RemoveAt
  <2> QED
    BY <1>1, <2>4 DEF RemoveFirst
<1>2. CASE ~\E i \in 1 .. Len(rows) : rows[i] = d
  BY <1>2 DEF RemoveFirst
<1> QED
  BY <1>1, <1>2

(***************************************************************************)
(* Grab sources.  A call, the scan or a rearm that goes on with a release  *)
(* has one, and a pass that captures has a row left.                       *)
(***************************************************************************)

CallSteps == {"idle", "capture", "link"}
ScanSteps == {"idle", "store", "link", "lookup", "save"}
RearmSteps == {"idle", "direct", "link", "pending", "read", "match", "save"}

ArrPart ==
  /\ file \in [path : Path \cup {None}, of : Identity]
  /\ imported \subseteq Download \X Path
RowPart ==
  grab \in [Download -> GrabRow] /\ waiting \in Seq(Download) /\ recorded \in 0 .. MaxImports
MediaPart == media \in ItemRow /\ saved \in Identity
CallPart ==
  /\ call \in [WebhookCall -> [step : CallSteps, of : Identity]]
  /\ \A c \in WebhookCall : call[c].step = "capture" => call[c].of \in Download
CapturePart ==
  /\ capturing \in [step : CallSteps, todo : Seq(Download)]
  /\ capturing.step = "capture" => capturing.todo # <<>>
ScanPart ==
  /\ linkScan \in [step : ScanSteps, of : Path \cup Identity]
  /\ linkScan.step = "store" => linkScan.of \in Path
  /\ linkScan.step = "save" => linkScan.of \in Download
RearmPart ==
  /\ rearm \in [step : RearmSteps, of : Identity]
  /\ rearm.step = "save" => rearm.of \in Download

GrabInv ==
  ArrPart /\ RowPart /\ MediaPart /\ CallPart /\ CapturePart /\ ScanPart /\ RearmPart

LEMMA GrabFrames ==
  /\ ArrPart /\ UNCHANGED arrVars => ArrPart'
  /\ RowPart /\ UNCHANGED rowVars => RowPart'
  /\ MediaPart /\ UNCHANGED mediaVars => MediaPart'
  /\ CallPart /\ UNCHANGED call => CallPart'
  /\ CapturePart /\ UNCHANGED capturing => CapturePart'
  /\ ScanPart /\ UNCHANGED linkScan => ScanPart'
  /\ RearmPart /\ UNCHANGED rearm => RearmPart'
<1>1. ArrPart /\ UNCHANGED arrVars => ArrPart'
  BY DEF ArrPart, arrVars
<1>2. RowPart /\ UNCHANGED rowVars => RowPart'
  BY DEF RowPart, rowVars
<1>3. MediaPart /\ UNCHANGED mediaVars => MediaPart'
  BY DEF MediaPart, mediaVars
<1>4. CallPart /\ UNCHANGED call => CallPart'
  BY DEF CallPart
<1>5. CapturePart /\ UNCHANGED capturing => CapturePart'
  BY DEF CapturePart
<1>6. ScanPart /\ UNCHANGED linkScan => ScanPart'
  BY DEF ScanPart
<1>7. RearmPart /\ UNCHANGED rearm => RearmPart'
  BY DEF RearmPart
<1> QED
  BY <1>1, <1>2, <1>3, <1>4, <1>5, <1>6, <1>7

LEMMA CaptureTyped ==
  ASSUME RowPart, NEW d \in Download, Capture(d)
  PROVE  RowPart'
<1>1. grab \in [Download -> GrabRow] /\ waiting \in Seq(Download)
      /\ recorded \in 0 .. MaxImports
  BY DEF RowPart
<1>2. RemoveFirst(waiting, d) \in Seq(Download)
  BY <1>1, WithoutShape
<1>3. waiting' \in Seq(Download) /\ recorded' = recorded
  BY <1>1, <1>2 DEF Capture, Complete, Later
<1>4. grab' \in [Download -> GrabRow]
  <2>1. grab' = grab \/ grab' = [grab EXCEPT ![d] = [grab[d] EXCEPT !.ready = TRUE]]
    BY <1>1 DEF Capture, Complete
  <2>2. [grab[d] EXCEPT !.ready = TRUE] \in GrabRow
    BY <1>1 DEF GrabRow
  <2> QED
    BY <1>1, <2>1, <2>2
<1> QED
  BY <1>1, <1>3, <1>4 DEF RowPart

LEMMA LinkTyped ==
  ASSUME MediaPart, Link
  PROVE  MediaPart'
<1>1. CASE UNCHANGED mediaVars
  BY <1>1, GrabFrames
<1>2. ASSUME NEW d \in Newest,
             media' = [media EXCEPT !.source = d, !.downloadId = d], saved' = d
      PROVE  MediaPart'
  BY <1>2 DEF MediaPart, ItemRow, Identity, Newest, ImportsAt
<1>3. \A d \in Download : d \in {e \in Newest : Attachable(e)} => d \in Newest
  OBVIOUS
<1> QED
  BY <1>1, <1>2, <1>3 DEF Link

LEMMA SaveTyped ==
  ASSUME MediaPart, NEW d \in Download, Save(d)
  PROVE  MediaPart'
  BY DEF MediaPart, ItemRow, Identity, Save

\* A webhook is answered or goes on.
LEMMA CallMoves ==
  ASSUME CallPart, NEW c \in WebhookCall, NEW s \in CallSteps, NEW d \in Identity,
         s = "capture" => d \in Download, CallGoto(c, s, d)
  PROVE  CallPart'
<1>1. call \in [WebhookCall -> [step : CallSteps, of : Identity]]
  BY DEF CallPart
<1>2. /\ At(s, d) \in [step : CallSteps, of : Identity]
      /\ At(s, d).step = s /\ At(s, d).of = d
  BY DEF At
<1>3. call' = [call EXCEPT ![c] = At(s, d)]
  BY DEF CallGoto
<1>4. ASSUME NEW e \in WebhookCall, call'[e].step = "capture"
      PROVE  call'[e].of \in Download
  BY <1>1, <1>2, <1>3, <1>4 DEF CallPart
<1> QED
  BY <1>1, <1>2, <1>3, <1>4 DEF CallPart

LEMMA CallTyped ==
  ASSUME GrabInv, NEW c \in WebhookCall,
         \/ \E d \in Download : \/ GrabWebhook(c, d)
                               \/ \E p \in Path : ImportWebhook(c, d, p)
         \/ CallCaptures(c) \/ CallLinks(c) \/ CallBreaks(c)
  PROVE  GrabInv'
<1>1. /\ grab \in [Download -> GrabRow] /\ waiting \in Seq(Download)
      /\ recorded \in 0 .. MaxImports
      /\ "idle" \in CallSteps /\ "link" \in CallSteps /\ "capture" \in CallSteps
      /\ None \in Identity /\ Download \subseteq Identity
  BY DEF GrabInv, RowPart, CallSteps, Identity
<1>2. \A d \in Download : DueWith(d) \in Seq(Download)
  BY <1>1, AppendProperties DEF DueWith
<1>3. ASSUME NEW d \in Download, GrabWebhook(c, d) PROVE GrabInv'
  <2>1. RowPart'
    <3>1. grab' = [grab EXCEPT ![d] = [grab[d] EXCEPT !.exists = TRUE]]
      BY <1>1, <1>3 DEF GrabWebhook
    <3>2. [grab[d] EXCEPT !.exists = TRUE] \in GrabRow
      BY <1>1 DEF GrabRow
    <3> QED
      BY <1>1, <1>2, <1>3, <3>1, <3>2 DEF GrabWebhook, RowPart
  <2>2. CallPart'
    <3>1. PICK s \in {"link", "capture"} : CallGoto(c, s, d)
      BY <1>3 DEF GrabWebhook
    <3> QED
      BY <1>1, <3>1, CallMoves DEF GrabInv
  <2> QED
    BY <1>3, <2>1, <2>2, GrabFrames DEF GrabWebhook, GrabInv
<1>4. ASSUME NEW d \in Download, NEW p \in Path, ImportWebhook(c, d, p)
      PROVE  GrabInv'
  <2>1. RowPart'
    <3> DEFINE v == [grab[d] EXCEPT !.exists = TRUE, !.paths = @ \cup {p},
                                    !.at = recorded + 1]
    <3>1. grab' = [grab EXCEPT ![d] = v]
      BY <1>1, <1>4 DEF ImportWebhook
    <3>2. MaxImports \in Nat
      BY GrabConstants
    <3>3. recorded + 1 \in 0 .. MaxImports
      <4>1. recorded < MaxImports /\ recorded \in 0 .. MaxImports
        BY <1>1, <1>4 DEF ImportWebhook
      <4> QED
        BY <3>2, <4>1
    <3>4. v \in GrabRow
      BY <1>1, <3>3 DEF GrabRow
    <3> QED
      BY <1>1, <1>2, <1>4, <3>1, <3>3, <3>4 DEF ImportWebhook, RowPart
  <2>2. CallPart'
    BY <1>1, <1>4, CallMoves DEF ImportWebhook, GrabInv
  <2> QED
    BY <1>4, <2>1, <2>2, GrabFrames DEF ImportWebhook, GrabInv
<1>5. CASE CallCaptures(c)
  <2>1. call[c].of \in Download
    BY <1>5 DEF CallCaptures, GrabInv, CallPart
  <2>2. RowPart'
    BY <1>5, <2>1, CaptureTyped DEF CallCaptures, GrabInv
  <2>3. CallPart'
    BY <1>1, <1>5, <2>1, CallMoves DEF CallCaptures, GrabInv
  <2> QED
    BY <1>5, <2>2, <2>3, GrabFrames DEF CallCaptures, GrabInv
<1>6. CASE CallLinks(c)
  <2>1. MediaPart' /\ CallPart'
    BY <1>1, <1>6, LinkTyped, CallMoves DEF CallLinks, GrabInv
  <2> QED
    BY <1>6, <2>1, GrabFrames DEF CallLinks, GrabInv
<1>7. CASE CallBreaks(c)
  <2>1. CallPart'
    BY <1>1, <1>7, CallMoves DEF CallBreaks, GrabInv
  <2> QED
    BY <1>7, <2>1, GrabFrames DEF CallBreaks, GrabInv
<1> QED
  BY <1>3, <1>4, <1>5, <1>6, <1>7

LEMMA IdlePassTyped == capturing' = IdlePass => CapturePart'
<1>1. <<>> \in Seq(Download)
  OBVIOUS
<1> QED
  BY <1>1 DEF IdlePass, CapturePart, CallSteps

LEMMA PassTyped ==
  ASSUME GrabInv, CaptureStep \/ CaptureBreaks
  PROVE  GrabInv'
<1>1. /\ waiting \in Seq(Download) /\ Len(waiting) \in Nat
      /\ BatchSize \in Nat \ {0}
  BY GrabConstants, LenProperties DEF GrabInv, RowPart
<1>2. CASE PassStarts
  <2> DEFINE size == IF Len(waiting) < BatchSize THEN Len(waiting) ELSE BatchSize
             rows == SubSeq(waiting, 1, size)
  <2>1. size \in 0 .. Len(waiting)
    BY <1>1
  <2>2. rows \in Seq(Download) /\ (size # 0 => rows # <<>>)
    <3> HIDE DEF size
    <3>1. \A i \in 1 .. size : waiting[i] \in Download
      BY <1>1, <2>1, LenProperties
    <3>2. /\ rows \in Seq(Download)
          /\ Len(rows) = IF 1 <= size THEN size - 1 + 1 ELSE 0
      BY <1>1, <2>1, <3>1, SubSeqProperties
    <3>3. size # 0 => Len(rows) # 0
      BY <1>1, <2>1, <3>2
    <3> QED
      BY <3>2, <3>3, EmptySeq
  <2>3. capturing' = [step |-> IF size = 0 THEN "link" ELSE "capture", todo |-> rows]
    BY <1>2 DEF PassStarts
  <2>4. CapturePart'
    <3> HIDE DEF size, rows
    <3> QED
      BY <2>2, <2>3 DEF CapturePart, CallSteps
  <2> QED
    BY <1>2, <2>4, GrabFrames DEF PassStarts, GrabInv
<1>3. CASE PassCaptures
  <2>1. /\ capturing.todo \in Seq(Download) /\ capturing.todo # <<>>
        /\ capturing.step = "capture"
    BY <1>3 DEF PassCaptures, GrabInv, CapturePart
  <2>2. /\ Head(capturing.todo) \in Download /\ Tail(capturing.todo) \in Seq(Download)
        /\ Len(Tail(capturing.todo)) = Len(capturing.todo) - 1
        /\ Len(capturing.todo) \in Nat
    BY <2>1, HeadTailProperties, LenProperties
  <2>3. Len(capturing.todo) # 1 => Tail(capturing.todo) # <<>>
    <3>1. Len(capturing.todo) # 1 => Len(Tail(capturing.todo)) # 0
      BY <2>2
    <3> QED
      BY <2>2, <3>1, EmptySeq
  <2>4. CapturePart'
    BY <1>3, <2>2, <2>3 DEF PassCaptures, CapturePart, CallSteps
  <2>5. RowPart'
    BY <1>3, <2>2, CaptureTyped DEF PassCaptures, GrabInv
  <2> QED
    BY <1>3, <2>4, <2>5, GrabFrames DEF PassCaptures, GrabInv
<1>4. CASE PassLinks
  BY <1>4, LinkTyped, IdlePassTyped, GrabFrames DEF PassLinks, GrabInv
<1>5. CASE CaptureBreaks
  BY <1>5, IdlePassTyped, GrabFrames DEF CaptureBreaks, GrabInv
<1> QED
  BY <1>2, <1>3, <1>4, <1>5 DEF CaptureStep

LEMMA LinkScanTyped ==
  ASSUME GrabInv, LinkScanStep \/ LinkScanBreaks
  PROVE  GrabInv'
<1>1. /\ file.path \in Path \cup {None} /\ file.of \in Identity
      /\ media \in ItemRow /\ media.path \in Path \cup {None}
      /\ None \in Identity /\ Download \subseteq Identity
      /\ InGateway \subseteq Download
  BY GrabConstants DEF GrabInv, ArrPart, MediaPart, ItemRow, Identity
<1>2. linkScan' = Idle => ScanPart'
  BY <1>1 DEF Idle, At, ScanPart, ScanSteps
<1>3. ASSUME NEW s \in ScanSteps, NEW v \in Path \cup Identity,
             s = "store" => v \in Path, s = "save" => v \in Download,
             linkScan' = At(s, v)
      PROVE  ScanPart'
  BY <1>3 DEF At, ScanPart
<1>4. CASE ScanLists
  <2>1. ScanPart'
    BY <1>1, <1>3, <1>4 DEF ScanLists, ScanSteps
  <2> QED
    BY <1>4, <2>1, GrabFrames DEF ScanLists, GrabInv
<1>5. CASE ScanStores
  <2>1. linkScan.of \in Path
    BY <1>5 DEF ScanStores, GrabInv, ScanPart
  <2>2. MediaPart'
    BY <1>1, <1>5, <2>1 DEF ScanStores, GrabInv, MediaPart, ItemRow
  <2>3. ScanPart'
    BY <1>1, <1>3, <1>5 DEF ScanStores, ScanSteps
  <2> QED
    BY <1>5, <2>2, <2>3, GrabFrames DEF ScanStores, GrabInv
<1>6. CASE ScanLinks
  <2>1. MediaPart'
    BY <1>6, LinkTyped DEF ScanLinks, GrabInv
  <2>2. ScanPart'
    BY <1>1, <1>3, <1>6 DEF ScanLinks, ScanSteps, Identity
  <2> QED
    BY <1>6, <2>1, <2>2, GrabFrames DEF ScanLinks, GrabInv
<1>7. CASE ScanLooksUp
  <2>1. Target(linkScan.of) \in Download \cup {None}
    BY <1>1 DEF Target
  <2>2. ScanPart'
    BY <1>1, <1>2, <1>3, <1>7, <2>1 DEF ScanLooksUp, ScanSteps
  <2> QED
    BY <1>7, <2>2, GrabFrames DEF ScanLooksUp, GrabInv
<1>8. CASE ScanSaves
  <2>1. linkScan.of \in Download
    BY <1>8 DEF ScanSaves, GrabInv, ScanPart
  <2>2. MediaPart' /\ ScanPart'
    BY <1>2, <1>8, <2>1, SaveTyped DEF ScanSaves, GrabInv
  <2> QED
    BY <1>8, <2>2, GrabFrames DEF ScanSaves, GrabInv
<1>9. CASE LinkScanBreaks
  BY <1>2, <1>9, GrabFrames DEF LinkScanBreaks, GrabInv
<1> QED
  BY <1>4, <1>5, <1>6, <1>7, <1>8, <1>9 DEF LinkScanStep

LEMMA RearmTyped ==
  ASSUME GrabInv,
         \/ RearmStarts \/ RearmDirect \/ RearmLinks \/ RearmChecks \/ RearmReads
         \/ RearmMatches \/ RearmSaves \/ RearmBreaks
  PROVE  GrabInv'
<1>1. /\ media.source \in Identity /\ media.downloadId \in Identity
      /\ saved \in Identity /\ rearm.of \in Identity
      /\ None \in Identity /\ Download \subseteq Identity
      /\ InGateway \subseteq Download
  BY GrabConstants DEF GrabInv, MediaPart, RearmPart, ItemRow, Identity
<1>2. rearm' = Idle => RearmPart'
  BY <1>1 DEF Idle, At, RearmPart, RearmSteps
<1>3. ASSUME NEW s \in RearmSteps, NEW v \in Identity, s = "save" => v \in Download,
             rearm' = At(s, v)
      PROVE  RearmPart'
  BY <1>3 DEF At, RearmPart
<1>4. CASE RearmStarts
  <2>1. SourceId \in Identity
    BY <1>1 DEF SourceId
  <2>2. RearmPart'
    BY <1>3, <1>4, <2>1 DEF RearmStarts, RearmSteps
  <2> QED
    BY <1>4, <2>2, GrabFrames DEF RearmStarts, GrabInv
<1>5. CASE RearmDirect
  <2>1. RearmPart'
    BY <1>1, <1>3, <1>5 DEF RearmDirect, RearmSteps
  <2> QED
    BY <1>5, <2>1, GrabFrames DEF RearmDirect, GrabInv
<1>6. CASE RearmLinks
  <2>1. MediaPart' /\ RearmPart'
    BY <1>1, <1>3, <1>6, LinkTyped DEF RearmLinks, GrabInv, RearmSteps
  <2> QED
    BY <1>6, <2>1, GrabFrames DEF RearmLinks, GrabInv
<1>7. CASE RearmChecks
  <2>1. RearmPart'
    BY <1>1, <1>2, <1>3, <1>7 DEF RearmChecks, RearmSteps
  <2> QED
    BY <1>7, <2>1, GrabFrames DEF RearmChecks, GrabInv
<1>8. CASE RearmReads
  <2>1. RearmPart'
    BY <1>1, <1>3, <1>8 DEF RearmReads, RearmSteps
  <2> QED
    BY <1>8, <2>1, GrabFrames DEF RearmReads, GrabInv
<1>9. CASE RearmMatches
  <2>1. SavedIs(rearm.of) => saved \in Download
    BY <1>1 DEF SavedIs, Identity
  <2>2. RearmPart'
    BY <1>1, <1>2, <1>3, <1>9, <2>1 DEF RearmMatches, RearmSteps
  <2> QED
    BY <1>9, <2>2, GrabFrames DEF RearmMatches, GrabInv
<1>10. CASE RearmSaves
  <2>1. rearm.of \in Download
    BY <1>10 DEF RearmSaves, GrabInv, RearmPart
  <2>2. MediaPart' /\ RearmPart'
    BY <1>2, <1>10, <2>1, SaveTyped DEF RearmSaves, GrabInv
  <2> QED
    BY <1>10, <2>2, GrabFrames DEF RearmSaves, GrabInv
<1>11. CASE RearmBreaks
  BY <1>2, <1>11, GrabFrames DEF RearmBreaks, GrabInv
<1> QED
  BY <1>4, <1>5, <1>6, <1>7, <1>8, <1>9, <1>10, <1>11

LEMMA GrabStep == GrabInv /\ [GrabNext]_grabVars => GrabInv'
<1> SUFFICES ASSUME GrabInv, [GrabNext]_grabVars PROVE GrabInv'
  OBVIOUS
<1>1. ASSUME NEW d \in Download, NEW p \in Path, ArrImports(d, p) PROVE GrabInv'
  <2>1. ArrPart'
    BY <1>1 DEF ArrImports, GrabInv, ArrPart, Identity
  <2> QED
    BY <1>1, <2>1, GrabFrames DEF ArrImports, GrabInv
<1>2. ASSUME NEW d \in Download, RetryComes(d) PROVE GrabInv'
  <2>1. RowPart'
    BY <1>2, AppendProperties DEF RetryComes, GrabInv, RowPart
  <2> QED
    BY <1>2, <2>1, GrabFrames DEF RetryComes, GrabInv
<1>3. CASE UNCHANGED grabVars
  BY <1>3, GrabFrames DEF grabVars, arrVars, rowVars, mediaVars, GrabInv
<1> QED
  BY <1>1, <1>2, <1>3, CallTyped, PassTyped, LinkScanTyped, RearmTyped DEF GrabNext

LEMMA GrabInitial == GrabInit => GrabInv
<1> SUFFICES ASSUME GrabInit PROVE GrabInv
  OBVIOUS
<1>1. MaxImports \in Nat
  BY GrabConstants
<1>2. 0 \in 0 .. MaxImports /\ <<>> \in Seq(Download)
  BY <1>1
<1>3. ArrPart /\ MediaPart
  BY DEF GrabInit, ArrPart, MediaPart, ItemRow, Identity
<1>4. RowPart
  BY <1>2 DEF GrabInit, RowPart, GrabRow
<1>5. CallPart /\ ScanPart /\ RearmPart
  BY DEF GrabInit, Idle, At, CallPart, ScanPart, RearmPart, CallSteps, ScanSteps,
         RearmSteps, Identity
<1>6. CapturePart
  BY <1>2 DEF GrabInit, IdlePass, CapturePart, CallSteps
<1> QED
  BY <1>3, <1>4, <1>5, <1>6 DEF GrabInv

LEMMA GrabTyped == GrabSpec => []GrabTypeOK
<1>1. GrabInv => GrabTypeOK
  BY DEF GrabInv, ArrPart, RowPart, MediaPart, CallPart, CapturePart, ScanPart,
         RearmPart, CallSteps, ScanSteps, RearmSteps, GrabTypeOK
<1> QED
  BY <1>1, GrabInitial, GrabStep, PTL DEF GrabSpec

\* Mounters, probes, passes, webhooks and readers keep to their ranges, whatever
\* the mount, Arr and the provider do, and the parts run as one.
THEOREM PathsTyped == PathsSpec => []PathsTypesOK
  BY MountTypeCorrect, ProbeTyped, MissingTyped, GrabTyped, DeliveryTyped, PTL
     DEF PathsSpec, PathsTypesOK

================================================================================
