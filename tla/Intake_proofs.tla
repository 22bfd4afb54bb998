------------------------------ MODULE Intake_proofs ------------------------------
(***************************************************************************)
(* Proofs about the intake of movies and of episodes, the refreshes that   *)
(* follow and the listing of the account, for any number of scans,         *)
(* requests, viewers, callers, shows, files, tasks and entries.            *)
(*                                                                         *)
(*   IntakeTyped            IntakeSpec => []IntakeTypesOK                  *)
(*   OneRearmPerRequest     MovieSpec => []PollRearmsOnce                  *)
(*   RearmsReachFiles       MovieSpec => []RearmsHaveFiles                 *)
(*   PrunesOnlyGone         EpisodeSpec => PruneOnlyGone                   *)
(*   AbsencesReal           ListingSpec => []AbsenceIsReal                  *)
(***************************************************************************)
EXTENDS Intake, SequenceTheorems, FiniteSetTheorems, TLAPS

--------------------------------------------------------------------------------
(***************************************************************************)
(* One rearm per request.  The run that recorded the request carries the   *)
(* right to act on it (isNew); there is never more than one, it is gone    *)
(* once it is used, and it is never made again while the key is recorded.  *)
(***************************************************************************)

AskStep == {"idle", "insert", "update", "find", "place", "rearm"}
Poll == Asker \ Hook

AskInv ==
  /\ ask \in [Asker -> [step : AskStep, isNew : BOOLEAN]]
  /\ pollRearms \in Nat /\ pollRearms <= 1
  /\ pollRearms = 1 => "poll" \in keys
  /\ \A p \in Poll :
       /\ ask[p].isNew => "poll" \in keys /\ pollRearms = 0
       /\ ask[p].step = "rearm" => ask[p].isNew
  /\ \A p, q \in Poll : ask[p].isNew /\ ask[q].isNew => p = q

\* A run that goes on without gaining the right.
LEMMA AskMoves ==
  ASSUME AskInv, NEW p \in Asker, NEW s \in AskStep, NEW new \in BOOLEAN,
         AskGoto(p, s, new), UNCHANGED pollRearms, keys \subseteq keys',
         p \in Poll => (new => ask[p].isNew) /\ (s = "rearm" => new)
  PROVE  AskInv'
<1>1. ask' = [ask EXCEPT ![p] = [step |-> s, isNew |-> new]]
  BY DEF AskGoto
<1>2. \A q \in Asker : ask'[q] = IF q = p THEN [step |-> s, isNew |-> new] ELSE ask[q]
  BY <1>1 DEF AskInv
<1>3. ask' \in [Asker -> [step : AskStep, isNew : BOOLEAN]]
  BY <1>1 DEF AskInv
<1>4. \A q \in Poll : /\ ask'[q].isNew => ask[q].isNew
                      /\ ask'[q].step = "rearm" => ask'[q].isNew
  BY <1>2 DEF AskInv, Poll
<1> QED
  BY <1>3, <1>4 DEF AskInv

LEMMA AskUnmoved ==
  ASSUME AskInv, UNCHANGED <<ask, keys, pollRearms>>
  PROVE  AskInv'
  BY DEF AskInv

\* Whatever the poll is entitled to, the insert is what entitles it.
LEMMA AskRecordSafe ==
  ASSUME AskInv, NEW p \in Asker, AskRecord(p)
  PROVE  AskInv'
<1> DEFINE new == ask[p].step = "insert" /\ Key(p) \notin keys
           failed == ask[p].step = "insert" /\ Key(p) \in keys
           s == IF failed /\ p \notin Hook THEN "idle" ELSE "find"
<1>1. /\ AskGoto(p, s, new) /\ UNCHANGED pollRearms
      /\ keys' = keys \cup {Key(p)}
      /\ s \in {"idle", "find"} /\ new \in BOOLEAN
  BY DEF AskRecord
<1> HIDE DEF new, s, failed
<1>2. s \in AskStep
  BY <1>1 DEF AskStep
<1>3. CASE p \in Poll /\ new
  <2>1. Key(p) = "poll" /\ "poll" \notin keys /\ "poll" \in keys'
    BY <1>1, <1>3 DEF Key, Poll, new
  <2>2. pollRearms = 0 /\ \A q \in Poll : ~ask[q].isNew
    <3>1. pollRearms # 1 /\ pollRearms \in Nat /\ pollRearms <= 1
      BY <2>1 DEF AskInv
    <3>2. \A q \in Poll : ~ask[q].isNew
      BY <2>1 DEF AskInv
    <3> QED
      BY <3>1, <3>2
  <2>3. \A q \in Asker : ask'[q] = IF q = p THEN [step |-> s, isNew |-> new] ELSE ask[q]
    BY <1>1 DEF AskInv, AskGoto
  <2>4. ask' \in [Asker -> [step : AskStep, isNew : BOOLEAN]]
    BY <1>1, <1>2 DEF AskInv, AskGoto
  <2>5. /\ \A q \in Poll : /\ ask'[q].isNew => q = p
                           /\ ask'[q].step = "rearm" => ask'[q].isNew
    BY <1>1, <2>2, <2>3 DEF AskInv, Poll
  <2> QED
    BY <1>1, <2>1, <2>2, <2>4, <2>5 DEF AskInv
<1>4. CASE ~(p \in Poll /\ new)
  BY <1>1, <1>2, <1>4, AskMoves
<1> QED
  BY <1>3, <1>4

LEMMA AskRearmSafe ==
  ASSUME AskInv, NEW p \in Asker, AskRearm(p)
  PROVE  AskInv'
<1>1. /\ AskGoto(p, "idle", FALSE) /\ UNCHANGED keys
      /\ ask[p].step = "rearm"
      /\ pollRearms' = pollRearms \/ (p \in Poll /\ pollRearms' = pollRearms + 1)
  BY DEF AskRearm, Poll
<1>2. CASE pollRearms' = pollRearms
  BY <1>1, <1>2, AskMoves DEF AskStep
<1>3. CASE p \in Poll /\ pollRearms' = pollRearms + 1
  <2>1. ask[p].isNew
    BY <1>1, <1>3 DEF AskInv
  <2>2. /\ pollRearms = 0 /\ "poll" \in keys
        /\ \A q \in Poll \ {p} : ~ask[q].isNew
    BY <1>3, <2>1 DEF AskInv
  <2>3. \A q \in Asker : ask'[q] = IF q = p THEN [step |-> "idle", isNew |-> FALSE] ELSE ask[q]
    BY <1>1 DEF AskInv, AskGoto
  <2>4. ask' \in [Asker -> [step : AskStep, isNew : BOOLEAN]]
    BY <1>1 DEF AskInv, AskGoto, AskStep
  <2>5. \A q \in Poll : ~ask'[q].isNew /\ ask'[q].step # "rearm"
    BY <2>2, <2>3 DEF AskInv, Poll
  <2>6. pollRearms' = 1 /\ "poll" \in keys'
    BY <1>1, <1>3, <2>2
  <2> QED
    BY <2>4, <2>5, <2>6 DEF AskInv
<1> QED
  BY <1>1, <1>2, <1>3

LEMMA AskInvStep == AskInv /\ [MovieNext]_movieVars => AskInv'
<1> SUFFICES ASSUME AskInv, [MovieNext]_movieVars PROVE AskInv'
  OBVIOUS
<1>1. ASSUME NEW p \in Asker, AskLookup(p) \/ AskBreaks(p) PROVE AskInv'
  <2>1. \E s \in {"idle", "insert", "update"} : AskGoto(p, s, FALSE)
    BY <1>1 DEF AskLookup, AskBreaks
  <2>2. UNCHANGED <<keys, pollRearms>>
    BY <1>1 DEF AskLookup, AskBreaks
  <2> QED
    BY <2>1, <2>2, AskMoves DEF AskStep
<1>2. ASSUME NEW p \in Asker, AskFind(p) \/ AskPlace(p) PROVE AskInv'
  <2>1. PICK s \in {AfterPlaceholder(p, ask[p].isNew), "place"} :
          AskGoto(p, s, ask[p].isNew)
    BY <1>2 DEF AskFind, AskPlace
  <2>2. UNCHANGED <<keys, pollRearms>> /\ ask[p].isNew \in BOOLEAN
    BY <1>2 DEF AskFind, AskPlace, AskInv
  <2>3. s \in AskStep /\ (p \in Poll => (s = "rearm" => ask[p].isNew))
    BY <2>1 DEF AfterPlaceholder, ActsOn, AskStep, Poll
  <2> QED
    BY <2>1, <2>2, <2>3, AskMoves
<1>3. ASSUME \/ \E s \in Scan : ScanStep(s) \/ ScanBreaks(s)
             \/ Radarr
             \/ \E v \in Viewer : PlayMatch(v) \/ PlayRearm(v)
             \/ \E a \in ArrId : RowMoves(a)
             \/ UNCHANGED movieVars
      PROVE  UNCHANGED <<ask, keys, pollRearms>>
  BY <1>3 DEF ScanStep, ScanList, ScanTrack, ScanImport, ScanPrune, ScanBreaks,
     Radarr, RadarrAdds, RadarrImports, RadarrRemoves, RadarrWebhook,
     DeleteWebhook, PlayMatch, PlayRearm, RowMoves, movieVars
<1> QED
  BY <1>1, <1>2, <1>3, AskRecordSafe, AskRearmSafe, AskUnmoved DEF MovieNext

\* However many runs of the poll overlap, one request makes the poll queue a
\* rearm once.
THEOREM OneRearmPerRequest == MovieSpec => []PollRearmsOnce
<1>1. MovieInit => AskInv
  BY DEF MovieInit, AskInv, AskStep, Poll
<1>2. AskInv => PollRearmsOnce
  BY DEF AskInv, PollRearmsOnce
<1> QED
  BY <1>1, <1>2, AskInvStep, PTL DEF MovieSpec

--------------------------------------------------------------------------------
(***************************************************************************)
(* Rearms have files.  A row that plays or waits for a rearm has a Radarr  *)
(* id and a file; statements on rows never take the file from a row they   *)
(* keep, and a row that is absent has none.                                *)
(***************************************************************************)

RowsTyped(rows) == rows \in [Slot -> MovieRow]

\* What every state of the rows satisfies.
RowsSound(rows) ==
  /\ RowsTyped(rows)
  /\ \A a \in Slot :
       /\ rows[a].requested => a # Placeholder /\ rows[a].file
       /\ rows[a].state = "Absent" => ~rows[a].file /\ ~rows[a].requested
  /\ ~rows[Placeholder].file

\* No row that stays loses its file.
FilesKept(before, after) ==
  \A a \in Slot : before[a].file /\ after[a].state # "Absent" => after[a].file

FileInv ==
  /\ RowsSound(movie)
  /\ radarr.id \in {0} \cup ArrId
  /\ adds \in Nat /\ adds <= MaxAdds
  /\ \A s \in Scan : /\ scan[s].listed.id \in {0} \cup ArrId
                     /\ scan[s].step \in {"track", "import"} => scan[s].listed.id \in ArrId
  /\ scan \in [Scan -> [step : {"idle", "track", "import", "prune"}, listed : Listing]]
  /\ radarr \in Listing
  /\ \A v \in Viewer : \A a \in view[v] : a \in ArrId /\ movie[a].file
  /\ view \in [Viewer -> SUBSET Slot]

LEMMA SlotFacts == Placeholder \in Slot /\ ArrId \subseteq Slot /\ Placeholder \notin ArrId
  BY MovieConstants DEF Slot, Placeholder, ArrId

LEMMA NoMovieSound ==
  /\ NoMovie \in MovieRow /\ NoMovie.state = "Absent" /\ ~NoMovie.file
  /\ ~NoMovie.requested
  BY DEF NoMovie, MovieRow

LEMMA PromotedSound ==
  ASSUME NEW rows, RowsSound(rows), NEW a \in ArrId
  PROVE  RowsSound(Promoted(rows, a)) /\ FilesKept(rows, Promoted(rows, a))
<1>1. CASE rows[Placeholder].state # "Absent" /\ rows[a].state = "Absent"
  <2> DEFINE new == [rows EXCEPT ![a] = rows[Placeholder], ![Placeholder] = NoMovie]
  <2>1. Promoted(rows, a) = new
    BY <1>1 DEF Promoted
  <2>2. /\ rows \in [Slot -> MovieRow] /\ rows[Placeholder] \in MovieRow
        /\ a \in Slot /\ a # Placeholder
    BY SlotFacts DEF RowsSound, RowsTyped
  <2>3. new \in [Slot -> MovieRow]
    BY <2>2, NoMovieSound
  <2>4. \A b \in Slot : new[b] = IF b = Placeholder THEN NoMovie
                                 ELSE IF b = a THEN rows[Placeholder] ELSE rows[b]
    BY <2>2, SlotFacts
  <2> HIDE DEF new
  <2>5. ~rows[Placeholder].file /\ ~rows[Placeholder].requested /\ ~rows[a].file
    BY <1>1, <2>2, SlotFacts DEF RowsSound
  <2>6. \A b \in Slot :
          /\ new[b].requested => b # Placeholder /\ new[b].file
          /\ new[b].state = "Absent" => ~new[b].file /\ ~new[b].requested
    BY <2>4, <2>5, NoMovieSound DEF RowsSound
  <2>7. ~new[Placeholder].file
    BY <2>4, SlotFacts, NoMovieSound
  <2>8. FilesKept(rows, new)
    BY <2>4, <2>5, NoMovieSound DEF FilesKept
  <2> QED
    BY <2>1, <2>3, <2>6, <2>7, <2>8 DEF RowsSound, RowsTyped
<1>2. CASE ~(rows[Placeholder].state # "Absent" /\ rows[a].state = "Absent")
  BY <1>2 DEF Promoted, FilesKept
<1> QED
  BY <1>1, <1>2

\* One row is given a value.
LEMMA RowPut ==
  ASSUME NEW rows, RowsSound(rows), NEW a \in Slot, NEW r \in MovieRow,
         r.requested => a # Placeholder /\ r.file,
         r.state = "Absent" => ~r.file /\ ~r.requested,
         a = Placeholder => ~r.file,
         rows[a].file /\ r.state # "Absent" => r.file
  PROVE  /\ RowsSound([rows EXCEPT ![a] = r])
         /\ FilesKept(rows, [rows EXCEPT ![a] = r])
<1> DEFINE new == [rows EXCEPT ![a] = r]
<1>1. rows \in [Slot -> MovieRow]
  BY DEF RowsSound, RowsTyped
<1>2. new \in [Slot -> MovieRow] /\ \A b \in Slot : new[b] = IF b = a THEN r ELSE rows[b]
  BY <1>1
<1> HIDE DEF new
<1>3. \A b \in Slot :
        /\ new[b].requested => b # Placeholder /\ new[b].file
        /\ new[b].state = "Absent" => ~new[b].file /\ ~new[b].requested
        /\ rows[b].file /\ new[b].state # "Absent" => new[b].file
        /\ b = Placeholder => ~new[b].file
  BY <1>2 DEF RowsSound
<1>4. RowsSound(new) /\ FilesKept(rows, new)
  BY <1>2, <1>3, SlotFacts DEF RowsSound, RowsTyped, FilesKept
<1> QED
  BY <1>4 DEF new

LEMMA TrackedSound ==
  ASSUME NEW rows, RowsSound(rows), NEW a \in ArrId
  PROVE  RowsSound(Tracked(rows, a)) /\ FilesKept(rows, Tracked(rows, a))
<1> DEFINE known == Promoted(rows, a)
           r == [NoMovie EXCEPT !.state = "Requested"]
<1>1. RowsSound(known) /\ FilesKept(rows, known) /\ a \in Slot
  BY PromotedSound, SlotFacts
<1>2. r \in MovieRow /\ ~r.requested /\ ~r.file /\ r.state = "Requested"
  BY DEF MovieRow, NoMovie
<1>3. Tracked(rows, a) = IF known[a].state = "Absent" THEN [known EXCEPT ![a] = r] ELSE known
  BY DEF Tracked
<1> HIDE DEF known, r
<1>4. CASE known[a].state = "Absent"
  <2>1. ~known[a].file
    BY <1>1, <1>4 DEF RowsSound
  <2>2. /\ RowsSound([known EXCEPT ![a] = r])
        /\ FilesKept(known, [known EXCEPT ![a] = r])
    BY <1>1, <1>2, <2>1, RowPut
  <2>3. \A b \in Slot : rows[b].file /\ known[b].state = "Absent" => b # a \/ b = a
    OBVIOUS
  <2>4. ~rows[a].file
    <3>1. a # Placeholder
      BY SlotFacts
    <3>2. known[a] = rows[a] \/ rows[a].state = "Absent"
      BY <1>1, <3>1, SlotFacts DEF known, Promoted, RowsSound, RowsTyped
    <3> QED
      BY <1>1, <1>4, <3>2 DEF RowsSound
  <2>5. \A b \in Slot : [known EXCEPT ![a] = r][b] = IF b = a THEN r ELSE known[b]
    BY <1>1 DEF RowsSound, RowsTyped
  <2>6. FilesKept(rows, [known EXCEPT ![a] = r])
    BY <1>1, <2>4, <2>5 DEF FilesKept
  <2> QED
    BY <1>3, <1>4, <2>2, <2>6
<1>5. CASE known[a].state # "Absent"
  BY <1>1, <1>3, <1>5
<1> QED
  BY <1>4, <1>5

LEMMA ImportedSound ==
  ASSUME NEW rows, RowsSound(rows), NEW a \in ArrId
  PROVE  RowsSound(Imported(rows, a)) /\ FilesKept(rows, Imported(rows, a))
<1> DEFINE known == Promoted(rows, a)
           s == IF known[a].state \in {"Absent", "Requested"} THEN "Available"
                ELSE known[a].state
           r == [known[a] EXCEPT !.state = s, !.file = TRUE]
<1>1. /\ RowsSound(known) /\ FilesKept(rows, known) /\ a \in Slot /\ a # Placeholder
      /\ known \in [Slot -> MovieRow] /\ known[a] \in MovieRow
  BY PromotedSound, SlotFacts DEF RowsSound, RowsTyped
<1>2. Imported(rows, a) = [known EXCEPT ![a] = r]
  BY <1>1 DEF Imported
<1> HIDE DEF known
<1>3. r \in MovieRow /\ r.file /\ r.state # "Absent"
  BY <1>1 DEF MovieRow
<1> HIDE DEF r, s
<1>4. RowsSound([known EXCEPT ![a] = r])
  BY <1>1, <1>3, RowPut
<1>5. \A b \in Slot : [known EXCEPT ![a] = r][b] = IF b = a THEN r ELSE known[b]
  BY <1>1
<1>6. FilesKept(rows, [known EXCEPT ![a] = r])
  BY <1>1, <1>3, <1>5 DEF FilesKept
<1> QED
  BY <1>2, <1>4, <1>6

LEMMA PrunedSound ==
  ASSUME NEW rows, RowsSound(rows), NEW listed
  PROVE  RowsSound(Pruned(rows, listed)) /\ FilesKept(rows, Pruned(rows, listed))
<1> DEFINE new == Pruned(rows, listed)
<1>1. \A b \in Slot : new[b] \in {NoMovie, rows[b]} /\ new[b] \in MovieRow
  BY NoMovieSound DEF Pruned, RowsSound, RowsTyped
<1>2. new \in [Slot -> MovieRow]
  BY <1>1 DEF Pruned
<1> HIDE DEF new
<1>3. \A b \in Slot :
        /\ new[b].requested => b # Placeholder /\ new[b].file
        /\ new[b].state = "Absent" => ~new[b].file /\ ~new[b].requested
        /\ rows[b].file /\ new[b].state # "Absent" => new[b].file
        /\ b = Placeholder => ~new[b].file
  BY <1>1, NoMovieSound DEF RowsSound
<1> QED
  BY <1>2, <1>3, SlotFacts DEF RowsSound, RowsTyped, FilesKept, new

\* Rows that change soundly leave what play intents hold sound.
LEMMA ReplaceSafe ==
  ASSUME FileInv, NEW rows, Replace(rows), RowsSound(rows), FilesKept(movie, rows)
  PROVE  /\ RowsSound(movie') /\ view' \in [Viewer -> SUBSET Slot]
         /\ \A v \in Viewer : \A a \in view'[v] : a \in ArrId /\ movie'[a].file
<1>1. movie' = rows /\ view' = [v \in Viewer |-> {a \in view[v] : rows[a].state # "Absent"}]
  BY DEF Replace
<1>2. \A v \in Viewer : view[v] \subseteq Slot
  BY DEF FileInv
<1> QED
  BY <1>1, <1>2, SlotFacts DEF FileInv, FilesKept

\* A step that leaves Radarr and the scans, or moves them within their types.
LEMMA FileParts ==
  ASSUME RowsSound(movie'),
         radarr' \in Listing, adds' \in Nat, adds' <= MaxAdds,
         scan' \in [Scan -> [step : {"idle", "track", "import", "prune"},
                             listed : Listing]],
         \A s \in Scan : scan'[s].step \in {"track", "import"}
                           => scan'[s].listed.id \in ArrId,
         view' \in [Viewer -> SUBSET Slot],
         \A v \in Viewer : \A a \in view'[v] : a \in ArrId /\ movie'[a].file
  PROVE  FileInv'
  BY DEF FileInv, Listing

LEMMA ScanMoves ==
  ASSUME FileInv, NEW s \in Scan, NEW l \in Listing,
         NEW step \in {"idle", "track", "import", "prune"},
         step \in {"track", "import"} => l.id \in ArrId,
         ScanGoto(s, step, l)
  PROVE  /\ scan' \in [Scan -> [step : {"idle", "track", "import", "prune"},
                                listed : Listing]]
         /\ \A t \in Scan : scan'[t].step \in {"track", "import"}
                              => scan'[t].listed.id \in ArrId
  BY DEF ScanGoto, FileInv

LEMMA NoListingType == NoListing \in Listing
  BY DEF NoListing, Listing

LEMMA ScanFiles ==
  ASSUME FileInv, NEW s \in Scan, ScanStep(s) \/ ScanBreaks(s)
  PROVE  FileInv'
<1>1. /\ scan[s].listed \in Listing /\ RowsSound(movie)
      /\ scan[s].step \in {"track", "import"} => scan[s].listed.id \in ArrId
      /\ radarr \in Listing /\ radarr.id \in {0} \cup ArrId
      /\ UNCHANGED <<radarr, adds>>
  BY DEF FileInv, ScanStep, ScanList, ScanTrack, ScanImport, ScanPrune, ScanBreaks
<1>2. CASE ScanList(s) \/ ScanBreaks(s)
  <2>1. \E step \in {"idle", "track", "import", "prune"}, l \in Listing :
          /\ ScanGoto(s, step, l)
          /\ step \in {"track", "import"} => l.id \in ArrId
    <3>1. CASE ScanList(s)
      BY <1>1, <3>1 DEF ScanList
    <3>2. CASE ScanBreaks(s)
      BY <1>1, <3>2, NoListingType DEF ScanBreaks, ScanEnds, AfterTrack
    <3> QED
      BY <1>2, <3>1, <3>2
  <2>2. UNCHANGED <<movie, view>>
    BY <1>2 DEF ScanList, ScanBreaks
  <2> QED
    BY <1>1, <2>1, <2>2, ScanMoves, FileParts DEF FileInv
<1>3. CASE ScanTrack(s)
  <2>1. scan[s].listed.id \in ArrId /\ Replace(Tracked(movie, scan[s].listed.id))
        /\ ScanGoto(s, AfterTrack(s), scan[s].listed)
        /\ AfterTrack(s) \in {"import", "prune"}
    BY <1>1, <1>3 DEF ScanTrack, AfterTrack
  <2>2. RowsSound(Tracked(movie, scan[s].listed.id))
        /\ FilesKept(movie, Tracked(movie, scan[s].listed.id))
    BY <1>1, <2>1, TrackedSound
  <2> QED
    BY <1>1, <2>1, <2>2, ReplaceSafe, ScanMoves, FileParts DEF FileInv
<1>4. CASE ScanImport(s)
  <2>1. scan[s].listed.id \in ArrId /\ Replace(Imported(movie, scan[s].listed.id))
        /\ ScanGoto(s, "prune", scan[s].listed)
    BY <1>1, <1>4 DEF ScanImport
  <2>2. RowsSound(Imported(movie, scan[s].listed.id))
        /\ FilesKept(movie, Imported(movie, scan[s].listed.id))
    BY <1>1, <2>1, ImportedSound
  <2> QED
    BY <1>1, <2>1, <2>2, ReplaceSafe, ScanMoves, FileParts DEF FileInv
<1>5. CASE ScanPrune(s)
  <2>1. Replace(Pruned(movie, scan[s].listed)) /\ ScanGoto(s, "idle", NoListing)
    BY <1>5 DEF ScanPrune, ScanEnds
  <2>2. RowsSound(Pruned(movie, scan[s].listed))
        /\ FilesKept(movie, Pruned(movie, scan[s].listed))
    BY <1>1, PrunedSound
  <2> QED
    BY <1>1, <2>1, <2>2, NoListingType, ReplaceSafe, ScanMoves, FileParts DEF FileInv
<1> QED
  BY <1>2, <1>3, <1>4, <1>5 DEF ScanStep

LEMMA RadarrFiles ==
  ASSUME FileInv, Radarr
  PROVE  FileInv'
<1>1. /\ RowsSound(movie) /\ adds \in Nat /\ adds <= MaxAdds /\ MaxAdds \in Nat
      /\ radarr \in Listing
  BY MovieConstants DEF FileInv
<1>2. CASE RadarrAdds \/ RadarrImports \/ RadarrRemoves
  <2>1. radarr' \in Listing /\ adds' \in Nat /\ adds' <= MaxAdds
    <3>1. CASE RadarrAdds
      <4>1. adds < MaxAdds /\ adds' = adds + 1
        BY <3>1 DEF RadarrAdds
      <4>2. adds + 1 \in ArrId
        BY <1>1, <4>1 DEF ArrId
      <4> QED
        BY <1>1, <3>1, <4>1, <4>2 DEF RadarrAdds, Listing
    <3>2. CASE RadarrImports \/ RadarrRemoves
      BY <1>1, <3>2, NoListingType DEF RadarrImports, RadarrRemoves, Listing
    <3> QED
      BY <1>2, <3>1, <3>2
  <2>2. UNCHANGED <<movie, scan, view>>
    BY <1>2 DEF RadarrAdds, RadarrImports, RadarrRemoves
  <2> QED
    BY <2>1, <2>2, FileParts DEF FileInv
<1>3. ASSUME NEW a \in ArrId, RadarrWebhook(a) PROVE FileInv'
  <2>1. Replace(Tracked(movie, a)) /\ UNCHANGED <<radarr, adds, scan>>
    BY <1>3 DEF RadarrWebhook
  <2>2. RowsSound(Tracked(movie, a)) /\ FilesKept(movie, Tracked(movie, a))
    BY <1>1, TrackedSound
  <2> QED
    BY <2>1, <2>2, ReplaceSafe, FileParts DEF FileInv
<1>4. ASSUME NEW a \in ArrId, DeleteWebhook(a) PROVE FileInv'
  <2>1. Replace([movie EXCEPT ![a] = NoMovie]) /\ UNCHANGED <<radarr, adds, scan>>
    BY <1>4 DEF DeleteWebhook
  <2>2. /\ RowsSound([movie EXCEPT ![a] = NoMovie])
        /\ FilesKept(movie, [movie EXCEPT ![a] = NoMovie])
    BY <1>1, NoMovieSound, SlotFacts, RowPut
  <2> QED
    BY <2>1, <2>2, ReplaceSafe, FileParts DEF FileInv
<1> QED
  BY <1>2, <1>3, <1>4 DEF Radarr

\* Rows that are given rearms: they have files, or they stay as they are.
LEMMA RearmsSound ==
  ASSUME FileInv, NEW T,
         \A a \in T : a \in ArrId /\ movie[a].file,
         movie' = [a \in Slot |-> IF a \in T THEN Rearmed(movie[a]) ELSE movie[a]]
  PROVE  /\ RowsSound(movie')
         /\ \A a \in Slot : movie[a].file => movie'[a].file
<1>1. movie \in [Slot -> MovieRow]
  BY DEF FileInv, RowsSound, RowsTyped
<1>2. ASSUME NEW r \in MovieRow
      PROVE  /\ Rearmed(r) \in MovieRow /\ Rearmed(r).file = r.file
             /\ Rearmed(r).state = "Settled"
  BY DEF Rearmed, MovieRow
<1>3. \A a \in Slot : movie'[a] = IF a \in T THEN Rearmed(movie[a]) ELSE movie[a]
  OBVIOUS
<1>4. movie' \in [Slot -> MovieRow]
  BY <1>1, <1>2
<1>5. \A a \in Slot :
        /\ movie'[a].file = movie[a].file
        /\ movie'[a].requested => movie[a].requested \/ a \in T
        /\ movie'[a].state = "Absent" => movie'[a] = movie[a]
  BY <1>1, <1>2, <1>3
<1>6. \A a \in Slot :
        /\ movie'[a].requested => a # Placeholder /\ movie'[a].file
        /\ movie'[a].state = "Absent" => ~movie'[a].file /\ ~movie'[a].requested
  BY <1>5, SlotFacts DEF FileInv, RowsSound
<1> QED
  BY <1>4, <1>5, <1>6, SlotFacts DEF FileInv, RowsSound, RowsTyped

LEMMA AskFiles ==
  ASSUME FileInv, NEW p \in Asker,
         \/ AskLookup(p) \/ AskRecord(p) \/ AskFind(p) \/ AskPlace(p)
         \/ AskRearm(p) \/ AskBreaks(p)
  PROVE  FileInv'
<1>1. UNCHANGED <<radarr, adds, scan, view>>
  BY DEF AskLookup, AskRecord, AskFind, AskPlace, AskRearm, AskBreaks
<1>2. CASE AskLookup(p) \/ AskRecord(p) \/ AskFind(p) \/ AskBreaks(p)
  <2>1. UNCHANGED movie
    BY <1>2 DEF AskLookup, AskRecord, AskFind, AskBreaks
  <2> QED
    BY <1>1, <2>1 DEF FileInv
<1>3. CASE AskPlace(p)
  <2> DEFINE r == [movie[Placeholder] EXCEPT !.state = "Requested"]
  <2>1. /\ movie' = [movie EXCEPT ![Placeholder] = r]
        /\ movie[Placeholder] \in MovieRow /\ ~movie[Placeholder].file
        /\ ~movie[Placeholder].requested
    BY <1>3, SlotFacts DEF AskPlace, FileInv, RowsSound, RowsTyped
  <2>2. /\ r \in MovieRow /\ ~r.file /\ ~r.requested /\ r.state = "Requested"
    BY <2>1 DEF MovieRow
  <2> HIDE DEF r
  <2>3. RowsSound(movie')
    BY <2>1, <2>2, SlotFacts, RowPut DEF FileInv
  <2>4. \A a \in ArrId : movie'[a] = movie[a]
    BY <2>1, SlotFacts DEF FileInv, RowsSound, RowsTyped
  <2> QED
    BY <1>1, <2>3, <2>4, FileParts DEF FileInv
<1>4. CASE AskRearm(p)
  <2>1. PICK force \in BOOLEAN :
          movie' = [a \in Slot |-> IF a \in {b \in ArrId : Rearmable(movie[b], force)}
                                   THEN Rearmed(movie[a]) ELSE movie[a]]
    BY <1>4 DEF AskRearm
  <2> DEFINE T == {b \in ArrId : Rearmable(movie[b], force)}
  <2>2. \A a \in T : a \in ArrId /\ movie[a].file
    BY DEF Rearmable
  <2> HIDE DEF T
  <2>3. movie' = [a \in Slot |-> IF a \in T THEN Rearmed(movie[a]) ELSE movie[a]]
    BY <2>1 DEF T
  <2>4. RowsSound(movie') /\ \A a \in Slot : movie[a].file => movie'[a].file
    BY <2>2, <2>3, RearmsSound
  <2> QED
    BY <1>1, <2>4, SlotFacts, FileParts DEF FileInv
<1> QED
  BY <1>2, <1>3, <1>4

LEMMA PlayFiles ==
  ASSUME FileInv, NEW v \in Viewer, PlayMatch(v) \/ PlayRearm(v)
  PROVE  FileInv'
<1>1. UNCHANGED <<radarr, adds, scan>>
  BY DEF PlayMatch, PlayRearm
<1>2. CASE PlayMatch(v)
  <2>1. PICK a \in Slot : Playable(a, movie[a]) /\ view' = [view EXCEPT ![v] = {a}]
    BY <1>2 DEF PlayMatch
  <2>2. a \in ArrId /\ movie[a].file /\ UNCHANGED movie
    BY <1>2, <2>1 DEF PlayMatch, Playable, Slot
  <2> QED
    BY <1>1, <2>1, <2>2, FileParts DEF FileInv
<1>3. CASE PlayRearm(v)
  <2> DEFINE T == {a \in view[v] : movie[a].state # "Available"}
  <2>1. /\ \A a \in T : a \in ArrId /\ movie[a].file
        /\ movie' = [a \in Slot |-> IF a \in T THEN Rearmed(movie[a]) ELSE movie[a]]
        /\ view' = [view EXCEPT ![v] = {}]
    BY <1>3 DEF PlayRearm, FileInv
  <2> HIDE DEF T
  <2>2. RowsSound(movie') /\ \A a \in Slot : movie[a].file => movie'[a].file
    BY <2>1, RearmsSound
  <2>3. /\ view' \in [Viewer -> SUBSET Slot]
        /\ \A u \in Viewer : \A a \in view'[u] : a \in view[u]
    BY <2>1 DEF FileInv
  <2>4. \A u \in Viewer : \A a \in view'[u] : a \in ArrId /\ movie'[a].file
    BY <2>2, <2>3, SlotFacts DEF FileInv
  <2> QED
    BY <1>1, <2>2, <2>3, <2>4, FileParts DEF FileInv
<1> QED
  BY <1>2, <1>3

LEMMA MovesFiles ==
  ASSUME FileInv, NEW a \in ArrId, RowMoves(a)
  PROVE  FileInv'
<1>1. UNCHANGED <<radarr, adds, scan, view>>
  BY DEF RowMoves
<1>2. movie[a] \in MovieRow /\ a \in Slot /\ movie \in [Slot -> MovieRow]
  BY SlotFacts DEF FileInv, RowsSound, RowsTyped
<1>3. PICK r \in MovieRow : /\ movie' = [movie EXCEPT ![a] = r]
                            /\ r.state # "Absent" /\ r.file = movie[a].file
                            /\ r.requested => movie[a].requested
  <2>1. ASSUME NEW end \in {"Available", "Settled"},
               movie' = [movie EXCEPT ![a].requested = FALSE, ![a].state = end]
        PROVE  \E r \in MovieRow : /\ movie' = [movie EXCEPT ![a] = r]
                                   /\ r.state # "Absent" /\ r.file = movie[a].file
                                   /\ r.requested => movie[a].requested
    <3> DEFINE r == [movie[a] EXCEPT !.requested = FALSE, !.state = end]
    <3>1. movie' = [movie EXCEPT ![a] = r]
      BY <1>2, <2>1
    <3>2. /\ r \in MovieRow /\ r.state # "Absent" /\ r.file = movie[a].file
          /\ ~r.requested
      BY <1>2 DEF MovieRow
    <3> QED
      BY <3>1, <3>2
  <2>2. ASSUME movie' = [movie EXCEPT ![a].state = "Settled"]
        PROVE  \E r \in MovieRow : /\ movie' = [movie EXCEPT ![a] = r]
                                   /\ r.state # "Absent" /\ r.file = movie[a].file
                                   /\ r.requested => movie[a].requested
    <3> DEFINE r == [movie[a] EXCEPT !.state = "Settled"]
    <3>1. movie' = [movie EXCEPT ![a] = r]
      BY <1>2, <2>2
    <3>2. /\ r \in MovieRow /\ r.state # "Absent" /\ r.file = movie[a].file
          /\ r.requested => movie[a].requested
      BY <1>2 DEF MovieRow
    <3> QED
      BY <3>1, <3>2
  <2> QED
    BY <2>1, <2>2 DEF RowMoves
<1>4. a # Placeholder /\ (r.requested => r.file)
  BY <1>2, <1>3, SlotFacts DEF FileInv, RowsSound
<1>5. RowsSound(movie') /\ \A b \in Slot : movie'[b] = IF b = a THEN r ELSE movie[b]
  BY <1>2, <1>3, <1>4, RowPut DEF FileInv
<1> QED
  BY <1>1, <1>3, <1>5, SlotFacts, FileParts DEF FileInv

LEMMA FileInvStep == FileInv /\ [MovieNext]_movieVars => FileInv'
<1>1. ASSUME FileInv, UNCHANGED movieVars PROVE FileInv'
  BY <1>1 DEF movieVars, FileInv
<1> QED
  BY <1>1, ScanFiles, RadarrFiles, AskFiles, PlayFiles, MovesFiles DEF MovieNext

LEMMA FileInitial == MovieInit => FileInv
<1> SUFFICES ASSUME MovieInit PROVE FileInv
  OBVIOUS
<1>1. RowsSound(movie)
  BY NoMovieSound, SlotFacts DEF MovieInit, RowsSound, RowsTyped
<1>2. NoListing \in Listing /\ NoListing.id = 0
  BY DEF NoListing, Listing
<1> QED
  BY <1>1, <1>2, MovieConstants DEF MovieInit, FileInv

\* Only a row that has a Radarr id and a file waits for a rearm.
THEOREM RearmsReachFiles == MovieSpec => []RearmsHaveFiles
<1>1. FileInv => RearmsHaveFiles
  BY DEF FileInv, RowsSound, RearmsHaveFiles
<1> QED
  BY <1>1, FileInitial, FileInvStep, PTL DEF MovieSpec


--------------------------------------------------------------------------------
(***************************************************************************)
(* What a scan prunes.  Only one scan runs; as long as no listing of it    *)
(* has failed, the show of a file Sonarr has, whose row exists, was listed *)
(* and is either still to be visited or had the file when it was.  A file  *)
(* that comes later has no row unless this scan itself stores it.          *)
(***************************************************************************)

Running == {"series", "show", "store", "prune"}
RowState == {"Absent", "Requested", "Tracked"}

\* What holds of a pass p, given Sonarr's files and the rows.
PassOk(p, lib, unb, rows) ==
  /\ p \in PassType
  /\ p.todo \subseteq p.shows
  /\ \A f \in p.files : f \in p.seen /\ showOf[f] \in p.shows /\ f \notin unb
  /\ p.step \in {"idle", "call", "series"} => p.files = {}
  /\ p.step = "prune" => p.todo = {}
  /\ p.step \in {"show", "store", "prune"} /\ p.complete =>
       \A f \in lib : rows[f] # "Absent" =>
         showOf[f] \in p.shows /\ (showOf[f] \in p.todo \/ f \in p.seen)

RowsOk(lib, unb, rows) ==
  /\ lib \subseteq EpisodeFile /\ unb \subseteq EpisodeFile
  /\ rows \in [EpisodeFile -> RowState]
  /\ \A f \in unb : rows[f] = "Absent" /\ f \notin lib

PruneInv ==
  /\ RowsOk(library, unborn, episode)
  /\ pass \in [Caller -> PassType]
  /\ \A c \in Caller : /\ PassOk(pass[c], library, unborn, episode)
                       /\ pass[c].step \in Running => running
  /\ \A c, d \in Caller : pass[c].step \in Running /\ pass[d].step \in Running => c = d

\* A pass that does not run asks nothing of the library and the rows.
LEMMA IdlePassOk ==
  ASSUME NEW p, NEW lib, NEW unb, NEW rows, PassOk(p, lib, unb, rows),
         p.step \notin Running, NEW lib2, NEW unb2, NEW rows2, unb2 \subseteq unb
  PROVE  PassOk(p, lib2, unb2, rows2)
  BY DEF PassOk, Running

LEMMA NoPassOk ==
  ASSUME NEW lib, NEW unb, NEW rows
  PROVE  PassOk(NoPass, lib, unb, rows) /\ NoPass.step \notin Running
  BY DEF PassOk, NoPass, PassType, Running

\* The running pass takes a step; the rows may change with it.
LEMMA RunMoves ==
  ASSUME PruneInv, NEW c \in Caller, pass[c].step \in Running,
         NEW p, Goes(c, p), UNCHANGED <<sonarrVars, running>>,
         RowsOk(library, unborn, episode'),
         PassOk(p, library, unborn, episode')
  PROVE  PruneInv'
<1>1. /\ library' = library /\ unborn' = unborn /\ running' = running
      /\ pass' = [pass EXCEPT ![c] = p] /\ p \in PassType
  BY DEF Goes, sonarrVars, PassOk
<1>2. \A d \in Caller : pass'[d] = IF d = c THEN p ELSE pass[d]
  BY <1>1 DEF PruneInv
<1>3. ASSUME NEW d \in Caller, d # c
      PROVE  pass[d].step \notin Running /\ PassOk(pass[d], library, unborn, episode')
  <2>1. pass[d].step \notin Running
    BY <1>3 DEF PruneInv
  <2>2. PassOk(pass[d], library, unborn, episode)
    BY DEF PruneInv
  <2> QED
    BY <2>1, <2>2, IdlePassOk
<1>4. running
  BY DEF PruneInv
<1>5. pass' \in [Caller -> PassType]
  BY <1>1 DEF PruneInv
<1>6. RowsOk(library', unborn', episode')
  BY <1>1
<1>7. \A d \in Caller : /\ PassOk(pass'[d], library', unborn', episode')
                        /\ pass'[d].step \in Running => running'
  BY <1>1, <1>2, <1>3, <1>4
<1>8. \A d, e \in Caller : pass'[d].step \in Running /\ pass'[e].step \in Running => d = e
  BY <1>2, <1>3
<1> QED
  BY <1>5, <1>6, <1>7, <1>8 DEF PruneInv

\* A pass comes to or goes from the steps at which it does not run.
LEMMA RunEndsOrBegins ==
  ASSUME PruneInv, NEW c \in Caller, NEW p, Goes(c, p),
         UNCHANGED sonarrVars, RowsOk(library, unborn, episode'),
         PassOk(p, library, unborn, episode'),
         \A d \in Caller \ {c} :
           pass[d].step \in Running => running' /\ p.step \notin Running,
         p.step \in Running => running',
         \A d \in Caller \ {c} :
           pass[d].step \in Running => PassOk(pass[d], library, unborn, episode')
  PROVE  PruneInv'
<1>1. /\ library' = library /\ unborn' = unborn
      /\ pass' = [pass EXCEPT ![c] = p] /\ p \in PassType
  BY DEF Goes, sonarrVars, PassOk
<1>2. \A d \in Caller : pass'[d] = IF d = c THEN p ELSE pass[d]
  BY <1>1 DEF PruneInv
<1>3. ASSUME NEW d \in Caller, d # c
      PROVE  PassOk(pass[d], library, unborn, episode')
  <2>1. PassOk(pass[d], library, unborn, episode)
    BY DEF PruneInv
  <2>2. pass[d].step \notin Running => PassOk(pass[d], library, unborn, episode')
    BY <2>1, IdlePassOk
  <2> QED
    BY <2>2, <1>3
<1>4. pass' \in [Caller -> PassType]
  BY <1>1 DEF PruneInv
<1>5. RowsOk(library', unborn', episode')
  BY <1>1
<1>6. \A d \in Caller : /\ PassOk(pass'[d], library', unborn', episode')
                        /\ pass'[d].step \in Running => running'
  BY <1>1, <1>2, <1>3
<1>7. \A d, e \in Caller : pass'[d].step \in Running /\ pass'[e].step \in Running => d = e
  BY <1>2 DEF PruneInv
<1> QED
  BY <1>4, <1>5, <1>6, <1>7 DEF PruneInv

\* The passes stay; what they know of library and rows stays true.
LEMMA WorldMoves ==
  ASSUME PruneInv, UNCHANGED <<pass, running>>,
         RowsOk(library', unborn', episode'), unborn' \subseteq unborn,
         \A f \in library' : episode'[f] # "Absent" => f \in library /\ episode[f] # "Absent"
  PROVE  PruneInv'
<1>1. ASSUME NEW c \in Caller
      PROVE  PassOk(pass[c], library', unborn', episode')
  BY DEF PruneInv, PassOk
<1> QED
  BY <1>1 DEF PruneInv

LEMMA OnwardOk ==
  ASSUME NEW p \in PassType, NEW lib, NEW unb, NEW rows,
         p.todo \subseteq p.shows,
         \A f \in p.files : f \in p.seen /\ showOf[f] \in p.shows /\ f \notin unb,
         p.complete => \A f \in lib : rows[f] # "Absent" =>
           showOf[f] \in p.shows /\ (showOf[f] \in p.todo \/ f \in p.seen)
  PROVE  PassOk(Onward(p), lib, unb, rows)
<1> DEFINE s == IF p.files # {} THEN "store" ELSE IF p.todo # {} THEN "show" ELSE "prune"
           q == [p EXCEPT !.step = s]
<1>1. s \in {"store", "show", "prune"} /\ (s = "prune" => p.todo = {})
  OBVIOUS
<1>2. Onward(p) = q
  BY DEF Onward
<1> HIDE DEF s
<1>3. /\ q \in PassType /\ q.step = s /\ q.todo = p.todo /\ q.files = p.files
      /\ q.shows = p.shows /\ q.seen = p.seen /\ q.complete = p.complete
  BY <1>1 DEF PassType
<1> HIDE DEF q
<1> QED
  BY <1>1, <1>2, <1>3 DEF PassOk

\* What the running pass knows, and that the rows it does not change are fine.
LEMMA RunningPass ==
  ASSUME PruneInv, NEW c \in Caller
  PROVE  /\ pass[c] \in PassType /\ PassOk(pass[c], library, unborn, episode)
         /\ RowsOk(library, unborn, episode)
         /\ \A s \in Show : /\ Listed({s}) \subseteq EpisodeFile
                            /\ \A f \in Listed({s}) : f \in library /\ showOf[f] = s /\ f \notin unborn
  BY DEF PruneInv, RowsOk, Listed

LEMMA ListSeriesSafe ==
  ASSUME PruneInv, NEW c \in Caller, ListSeries(c)
  PROVE  PruneInv'
<1>1. PICK S \in SUBSET Show :
        /\ \A f \in library : showOf[f] \in S
        /\ Goes(c, Onward([pass[c] EXCEPT !.shows = S, !.todo = S]))
  BY DEF ListSeries
<1> DEFINE p == [pass[c] EXCEPT !.shows = S, !.todo = S]
<1>2. /\ pass[c] \in PassType /\ pass[c].files = {} /\ pass[c].step \in Running
      /\ RowsOk(library, unborn, episode)
  BY RunningPass DEF ListSeries, PassOk, Running
<1>3. p \in PassType /\ p.shows = S /\ p.todo = S /\ p.files = {}
  BY <1>2 DEF PassType
<1>4. Goes(c, Onward(p)) /\ UNCHANGED <<sonarrVars, running>> /\ episode' = episode
  BY <1>1 DEF ListSeries
<1> HIDE DEF p
<1>5. PassOk(Onward(p), library, unborn, episode)
  BY <1>1, <1>3, OnwardOk
<1> QED
  BY <1>2, <1>4, <1>5, RunMoves

LEMMA ListShowSafe ==
  ASSUME PruneInv, NEW c \in Caller, ListShow(c)
  PROVE  PruneInv'
<1>1. PICK s \in pass[c].todo :
        Goes(c, Onward([pass[c] EXCEPT !.todo = @ \ {s}, !.files = Listed({s}),
                                       !.seen = @ \cup Listed({s})]))
  BY DEF ListShow
<1> DEFINE p == [pass[c] EXCEPT !.todo = @ \ {s}, !.files = Listed({s}),
                                !.seen = @ \cup Listed({s})]
<1>2. /\ pass[c] \in PassType /\ pass[c].step = "show" /\ pass[c].step \in Running
      /\ PassOk(pass[c], library, unborn, episode) /\ RowsOk(library, unborn, episode)
      /\ s \in Show
      /\ Listed({s}) \subseteq EpisodeFile
      /\ \A f \in Listed({s}) : f \in library /\ showOf[f] = s /\ f \notin unborn
  BY <1>1, RunningPass DEF ListShow, Running, PassType
<1>3. /\ p \in PassType /\ p.shows = pass[c].shows /\ p.todo = pass[c].todo \ {s}
      /\ p.files = Listed({s}) /\ p.seen = pass[c].seen \cup Listed({s})
      /\ p.complete = pass[c].complete
  BY <1>2 DEF PassType
<1>4. Goes(c, Onward(p)) /\ UNCHANGED <<sonarrVars, running>> /\ episode' = episode
  BY <1>1 DEF ListShow
<1> HIDE DEF p
<1>5. p.todo \subseteq p.shows
  BY <1>2, <1>3 DEF PassOk
<1>6. \A f \in p.files : f \in p.seen /\ showOf[f] \in p.shows /\ f \notin unborn
  BY <1>2, <1>3, <1>1 DEF PassOk
<1>7. ASSUME p.complete, NEW f \in library, episode[f] # "Absent"
      PROVE  showOf[f] \in p.shows /\ (showOf[f] \in p.todo \/ f \in p.seen)
  <2>1. showOf[f] \in pass[c].shows /\ (showOf[f] \in pass[c].todo \/ f \in pass[c].seen)
    BY <1>2, <1>3, <1>7 DEF PassOk
  <2>2. showOf[f] = s => f \in Listed({s})
    BY DEF Listed
  <2> QED
    BY <2>1, <2>2, <1>3
<1>8. PassOk(Onward(p), library, unborn, episode)
  BY <1>3, <1>5, <1>6, <1>7, OnwardOk
<1> QED
  BY <1>2, <1>4, <1>8, RunMoves

LEMMA ListShowFailsSafe ==
  ASSUME PruneInv, NEW c \in Caller, ListShowFails(c)
  PROVE  PruneInv'
<1>1. PICK s \in pass[c].todo :
       \/ Goes(c, Onward(Failed(pass[c], s)))
       \/ Goes(c, Onward([Failed(pass[c], s) EXCEPT !.files = Listed({s}),
                                                    !.seen = @ \cup Listed({s})]))
  BY DEF ListShowFails
<1>2. /\ pass[c] \in PassType /\ pass[c].step \in Running
      /\ PassOk(pass[c], library, unborn, episode) /\ RowsOk(library, unborn, episode)
      /\ s \in Show
      /\ Listed({s}) \subseteq EpisodeFile
      /\ \A f \in Listed({s}) : f \in library /\ showOf[f] = s /\ f \notin unborn
  BY <1>1, RunningPass DEF ListShowFails, Running, PassType
<1>3. UNCHANGED <<sonarrVars, running>> /\ episode' = episode
  BY DEF ListShowFails
<1> DEFINE p == Failed(pass[c], s)
           q == [p EXCEPT !.files = Listed({s}), !.seen = @ \cup Listed({s})]
<1>4. /\ p \in PassType /\ p.shows = pass[c].shows /\ p.todo = pass[c].todo \ {s}
      /\ p.files = pass[c].files /\ p.seen = pass[c].seen /\ p.complete = FALSE
  BY <1>2 DEF PassType, Failed
<1> HIDE DEF p
<1>5. /\ q \in PassType /\ q.shows = p.shows /\ q.todo = p.todo
      /\ q.files = Listed({s}) /\ q.seen = p.seen \cup Listed({s}) /\ q.complete = FALSE
  BY <1>2, <1>4 DEF PassType
<1>6. Goes(c, Onward(p)) \/ Goes(c, Onward(q))
  BY <1>1 DEF p
<1> HIDE DEF q
<1>7. PassOk(Onward(p), library, unborn, episode)
  <2>1. p.todo \subseteq p.shows
    BY <1>2, <1>4 DEF PassOk
  <2>2. \A f \in p.files : f \in p.seen /\ showOf[f] \in p.shows /\ f \notin unborn
    BY <1>2, <1>4 DEF PassOk
  <2> QED
    BY <1>4, <2>1, <2>2, OnwardOk
<1>8. PassOk(Onward(q), library, unborn, episode)
  <2>1. q.todo \subseteq q.shows
    BY <1>2, <1>4, <1>5 DEF PassOk
  <2>2. \A f \in q.files : f \in q.seen /\ showOf[f] \in q.shows /\ f \notin unborn
    BY <1>1, <1>2, <1>4, <1>5 DEF PassOk
  <2> QED
    BY <1>5, <2>1, <2>2, OnwardOk
<1> QED
  BY <1>2, <1>3, <1>6, <1>7, <1>8, RunMoves

\* A file leaves the list, stored or not; its row exists afterwards or not.
LEMMA StoreSafe ==
  ASSUME PruneInv, NEW c \in Caller, StoreFile(c) \/ StoreFails(c)
  PROVE  PruneInv'
<1>1. PICK f \in pass[c].files :
        /\ Goes(c, Onward([pass[c] EXCEPT !.files = @ \ {f}]))
        /\ episode' = episode \/ episode' = [episode EXCEPT ![f] = "Tracked"]
  BY DEF StoreFile, StoreFails
<1> DEFINE p == [pass[c] EXCEPT !.files = @ \ {f}]
<1>2. /\ pass[c] \in PassType /\ pass[c].step = "store" /\ pass[c].step \in Running
      /\ PassOk(pass[c], library, unborn, episode) /\ RowsOk(library, unborn, episode)
      /\ f \in EpisodeFile /\ f \in pass[c].seen /\ showOf[f] \in pass[c].shows
      /\ f \notin unborn
  BY <1>1, RunningPass DEF StoreFile, StoreFails, Running, PassType, PassOk
<1>3. /\ p \in PassType /\ p.shows = pass[c].shows /\ p.todo = pass[c].todo
      /\ p.files = pass[c].files \ {f} /\ p.seen = pass[c].seen
      /\ p.complete = pass[c].complete
  BY <1>2 DEF PassType
<1>4. Goes(c, Onward(p)) /\ UNCHANGED <<sonarrVars, running>>
  BY <1>1 DEF StoreFile, StoreFails
<1> HIDE DEF p
<1>5. episode' \in [EpisodeFile -> RowState]
  BY <1>1, <1>2 DEF RowsOk, RowState
<1>6. \A g \in EpisodeFile : g # f => episode'[g] = episode[g]
  BY <1>1, <1>2 DEF RowsOk
<1>7. RowsOk(library, unborn, episode')
  BY <1>2, <1>5, <1>6 DEF RowsOk
<1>8. ASSUME p.complete, NEW g \in library, episode'[g] # "Absent"
      PROVE  showOf[g] \in p.shows /\ (showOf[g] \in p.todo \/ g \in p.seen)
  <2>1. CASE g = f
    BY <2>1, <1>2, <1>3
  <2>2. CASE g # f
    <3>1. g \in EpisodeFile
      BY <1>2 DEF RowsOk
    <3>2. episode[g] # "Absent"
      BY <3>1, <2>2, <1>6, <1>8
    <3> QED
      BY <3>2, <1>2, <1>3, <1>8 DEF PassOk
  <2> QED
    BY <2>1, <2>2
<1>9. PassOk(Onward(p), library, unborn, episode')
  <2>1. p.todo \subseteq p.shows
    BY <1>2, <1>3 DEF PassOk
  <2>2. \A g \in p.files : g \in p.seen /\ showOf[g] \in p.shows /\ g \notin unborn
    BY <1>2, <1>3 DEF PassOk
  <2> QED
    BY <1>3, <1>8, <2>1, <2>2, OnwardOk
<1> QED
  BY <1>2, <1>4, <1>7, <1>9, RunMoves

\* The scan ends.
LEMMA PassLeaves ==
  ASSUME PruneInv, NEW c \in Caller, PruneEpisodes(c) \/ PassBreaks(c)
  PROVE  PruneInv'
<1>1. /\ Goes(c, NoPass) /\ UNCHANGED sonarrVars /\ pass[c].step \in Running
      /\ RowsOk(library, unborn, episode)
  <2>1. pass[c] \in PassType
    BY DEF PruneInv
  <2>2. pass[c].step \in {"idle", "call", "series", "show", "store", "prune"}
    BY <2>1 DEF PassType
  <2> QED
    BY <2>2 DEF PruneEpisodes, PassBreaks, PruneInv, Running
<1>2. \A d \in Caller \ {c} : pass[d].step \notin Running
  BY <1>1 DEF PruneInv
<1>3. RowsOk(library, unborn, episode')
  <2>1. CASE PruneEpisodes(c)
    BY <1>1, <2>1 DEF PruneEpisodes, RowsOk, RowState
  <2>2. CASE PassBreaks(c)
    BY <1>1, <2>2 DEF PassBreaks
  <2> QED
    BY <2>1, <2>2
<1> QED
  BY <1>1, <1>2, <1>3, NoPassOk, RunEndsOrBegins

\* Calls: one is made, starts a scan, or is skipped.
LEMMA CallSafe ==
  ASSUME PruneInv, NEW c \in Caller,
         HookCalls(c) \/ (c = Timer /\ TimerCalls) \/ ScanStarts(c) \/ ScanSkipped(c)
  PROVE  PruneInv'
<1>1. PICK s \in {"call", "series", "idle"} :
        /\ Goes(c, IF s = "idle" THEN NoPass ELSE [pass[c] EXCEPT !.step = s])
        /\ pass[c].step \in {"idle", "call"}
        /\ UNCHANGED <<sonarrVars, episode>>
        /\ IF s = "series" THEN ~running /\ running' ELSE running' = running
  <2>1. CASE HookCalls(c) \/ (c = Timer /\ TimerCalls)
    <3>1. pass' = [pass EXCEPT ![c].step = "call"]
      BY <2>1 DEF HookCalls, TimerCalls
    <3>2. Goes(c, [pass[c] EXCEPT !.step = "call"])
      BY <3>1 DEF Goes
    <3> QED
      BY <2>1, <3>2 DEF HookCalls, TimerCalls
  <2>2. CASE ScanStarts(c)
    <3>1. Goes(c, [pass[c] EXCEPT !.step = "series"])
      BY <2>2 DEF ScanStarts, Goes
    <3> QED
      BY <2>2, <3>1 DEF ScanStarts, MayStart
  <2>3. CASE ScanSkipped(c)
    BY <2>3 DEF ScanSkipped, Goes
  <2> QED
    BY <2>1, <2>2, <2>3
<1> DEFINE p == IF s = "idle" THEN NoPass ELSE [pass[c] EXCEPT !.step = s]
<1>2. PassOk(pass[c], library, unborn, episode) /\ RowsOk(library, unborn, episode)
  BY DEF PruneInv
<1>3. PassOk(p, library, unborn, episode) /\ p.step \in {"idle", "call", "series"}
      /\ (p.step \in Running => s = "series")
  <2>1. CASE s = "idle"
    BY <2>1, NoPassOk DEF NoPass, Running
  <2>2. CASE s # "idle"
    <3>1. pass[c] \in PassType
      BY <1>2 DEF PassOk
    <3>2. /\ p \in PassType /\ p.step = s /\ p.files = pass[c].files
          /\ p.todo = pass[c].todo /\ p.shows = pass[c].shows
      BY <2>2, <3>1 DEF PassType
    <3> HIDE DEF p
    <3> QED
      BY <3>2, <1>1, <1>2, <2>2 DEF PassOk, Running
  <2> QED
    BY <2>1, <2>2
<1>4. Goes(c, p) /\ UNCHANGED sonarrVars /\ episode' = episode
  BY <1>1
<1> HIDE DEF p
<1>5. \A d \in Caller \ {c} : pass[d].step \in Running => running
  BY DEF PruneInv
<1>6. \A d \in Caller \ {c} : pass[d].step \in Running => PassOk(pass[d], library, unborn, episode)
  BY DEF PruneInv
<1>7. \A d \in Caller \ {c} : pass[d].step \in Running => running' /\ p.step \notin Running
  BY <1>1, <1>3, <1>5
<1>8. p.step \in Running => running'
  BY <1>1, <1>3
<1> QED
  BY <1>2, <1>3, <1>4, <1>6, <1>7, <1>8, RunEndsOrBegins

\* Sonarr, the webhook that deletes rows, and the controller.
LEMMA OutsideSafe ==
  ASSUME PruneInv,
         \/ \E f \in EpisodeFile : SonarrImports(f) \/ EpisodePending(f)
         \/ \E S \in SUBSET EpisodeFile : SonarrDeletes(S)
         \/ \E s \in Show : SeriesDeleted(s)
         \/ EpisodeTick
  PROVE  PruneInv'
<1>1. RowsOk(library, unborn, episode)
  BY DEF PruneInv
<1>2. ASSUME NEW f \in EpisodeFile, SonarrImports(f)
      PROVE  PruneInv'
  <2>1. /\ UNCHANGED <<pass, running>> /\ episode' = episode /\ f \in unborn
        /\ library' = library \cup {f} /\ unborn' = unborn \ {f}
    BY <1>2 DEF SonarrImports
  <2>2. RowsOk(library', unborn', episode')
    BY <1>1, <2>1 DEF RowsOk
  <2>3. \A g \in library' : episode'[g] # "Absent" => g \in library /\ episode[g] # "Absent"
    BY <1>1, <2>1 DEF RowsOk
  <2> QED
    BY <2>1, <2>2, <2>3, WorldMoves
<1>3. ASSUME NEW f \in EpisodeFile, EpisodePending(f)
      PROVE  PruneInv'
  <2>1. /\ UNCHANGED <<pass, running, library, unborn>> /\ episode[f] = "Tracked"
        /\ episode' = [episode EXCEPT ![f] = "Requested"]
    BY <1>3 DEF EpisodePending, sonarrVars
  <2>2. RowsOk(library', unborn', episode')
    BY <1>1, <2>1 DEF RowsOk, RowState
  <2>3. \A g \in library' : episode'[g] # "Absent" => g \in library /\ episode[g] # "Absent"
    BY <1>1, <2>1 DEF RowsOk
  <2> QED
    BY <2>1, <2>2, <2>3, WorldMoves
<1>4. ASSUME NEW S \in SUBSET EpisodeFile, SonarrDeletes(S)
      PROVE  PruneInv'
  <2>1. /\ UNCHANGED <<pass, running, episode, unborn>> /\ library' = library \ S
    BY <1>4 DEF SonarrDeletes
  <2>2. RowsOk(library', unborn', episode')
    BY <1>1, <2>1 DEF RowsOk
  <2> QED
    BY <2>1, <2>2, WorldMoves
<1>5. ASSUME NEW s \in Show, SeriesDeleted(s)
      PROVE  PruneInv'
  <2>1. /\ UNCHANGED <<pass, running, library, unborn>>
        /\ episode' = [f \in EpisodeFile |-> IF showOf[f] = s THEN "Absent" ELSE episode[f]]
    BY <1>5 DEF SeriesDeleted, sonarrVars
  <2>2. \A f \in EpisodeFile : episode'[f] \in {"Absent", episode[f]}
    BY <2>1
  <2>3. RowsOk(library', unborn', episode')
    BY <1>1, <2>1 DEF RowsOk, RowState
  <2>4. \A g \in library' : episode'[g] # "Absent" => g \in library /\ episode[g] # "Absent"
    BY <1>1, <2>1, <2>2 DEF RowsOk
  <2> QED
    BY <2>1, <2>3, <2>4, WorldMoves
<1>6. CASE EpisodeTick
  BY <1>1, <1>6, WorldMoves DEF EpisodeTick, sonarrVars
<1> QED
  BY <1>2, <1>3, <1>4, <1>5, <1>6

LEMMA PruneStep ==
  ASSUME PruneInv, [EpisodeNext]_episodeVars
  PROVE  PruneInv'
<1>1. CASE UNCHANGED episodeVars
  BY <1>1 DEF episodeVars, PruneInv
<1>2. ASSUME NEW c \in Caller, HookCalls(c) \/ ScanStarts(c) \/ ScanSkipped(c)
      PROVE  PruneInv'
  BY <1>2, CallSafe
<1>3. CASE TimerCalls
  BY <1>3, CallSafe, EpisodeConstants
<1>4. ASSUME NEW c \in Caller, PassStep(c) \/ ListShowFails(c) \/ StoreFails(c) \/ PassBreaks(c)
      PROVE  PruneInv'
  BY <1>4, ListSeriesSafe, ListShowSafe, ListShowFailsSafe, StoreSafe, PassLeaves
     DEF PassStep
<1>5. CASE ProcessRestarts
  <2>1. /\ library' = library /\ unborn' = unborn /\ episode' = episode
        /\ pass' = [c \in Caller |-> NoPass]
    BY <1>5 DEF ProcessRestarts, sonarrVars
  <2>2. \A c \in Caller : /\ PassOk(pass'[c], library', unborn', episode')
                          /\ pass'[c].step \notin Running
    BY <2>1, NoPassOk
  <2>3. pass' \in [Caller -> PassType]
    BY <2>1 DEF NoPass, PassType
  <2>4. RowsOk(library', unborn', episode')
    BY <2>1 DEF PruneInv
  <2> QED
    BY <2>2, <2>3, <2>4 DEF PruneInv
<1> QED
  BY <1>1, <1>2, <1>3, <1>4, <1>5, OutsideSafe DEF EpisodeNext

LEMMA PruneInitial == EpisodeInit => PruneInv
<1> SUFFICES ASSUME EpisodeInit PROVE PruneInv
  OBVIOUS
<1>1. pass = [c \in Caller |-> NoPass] /\ NoPass \in PassType
  BY DEF EpisodeInit, NoPass, PassType
<1>2. \A c \in Caller : /\ PassOk(pass[c], library, unborn, episode)
                        /\ pass[c].step \notin Running
  BY <1>1, NoPassOk
<1>3. RowsOk(library, unborn, episode)
  BY DEF EpisodeInit, RowsOk, RowState
<1> QED
  BY <1>1, <1>2, <1>3 DEF PruneInv

(***************************************************************************)
(* A scan never takes away the row of a file Sonarr has (PruneOnlyGone),   *)
(* for any number of callers, shows and files.                             *)
(***************************************************************************)
THEOREM PrunesOnlyGone == EpisodeSpec => PruneOnlyGone
<1>1. EpisodeInit => PruneInv
  BY PruneInitial
<1>2. PruneInv /\ [EpisodeNext]_episodeVars => PruneInv'
  BY PruneStep
<1>3. PruneInv => [\A c \in Caller, f \in EpisodeFile :
        PruneEpisodes(c) /\ episode[f] # "Absent" /\ episode'[f] = "Absent"
          => f \notin library]_episodeVars
  <2> SUFFICES ASSUME PruneInv, NEW c \in Caller, NEW f \in EpisodeFile,
                      PruneEpisodes(c), episode[f] # "Absent", episode'[f] = "Absent",
                      f \in library
               PROVE  FALSE
    OBVIOUS
  <2>1. pass[c].step = "prune" /\ PassOk(pass[c], library, unborn, episode)
    BY DEF PruneEpisodes, PruneInv
  <2>2. /\ pass[c].complete
        /\ showOf[f] \notin pass[c].shows \/ f \notin pass[c].seen
    BY DEF PruneEpisodes
  <2> QED
    BY <2>1, <2>2 DEF PassOk
<1> QED
  BY <1>1, <1>2, <1>3, PTL DEF EpisodeSpec, PruneOnlyGone

--------------------------------------------------------------------------------
(***************************************************************************)
(* The listing of the account.  An entry that has been on the account and  *)
(* usable since the lookup began keeps its position or moves to a later    *)
(* one, unless an entry is removed.  So while none is, no such entry of    *)
(* the hash is at a position that has been read: its page would have ended *)
(* the lookup.  An empty page then leaves no position for one.             *)
(***************************************************************************)

AbsenceInv ==
  /\ ListingTypeOK
  /\ steady \subseteq OnAccount /\ \A e \in steady : status[e] \in Usable
  /\ lookup.step = "listing" => lookup.found \notin Usable
  /\ lookup.step = "listing" /\ ~removed /\ paged =>
       \A k \in DOMAIN account : k <= lookup.offset => account[k] \notin steady \cap Wanted
  /\ AbsenceIsReal

LookupType ==
  [step : {"idle", "listing", "present", "absent", "error"}, offset : Nat,
   page : 0 .. PageLimit - 1, seen : SUBSET Entry, found : Reading]

LEMMA NoLookupTyped ==
  \A s \in {"idle", "listing", "present", "absent", "error"} :
    [NoLookup EXCEPT !.step = s] \in LookupType
  BY ListingAssumption DEF NoLookup, LookupType, Reading

\* The entries of a list up to one, and those after one.
LEMMA PrefixShape ==
  ASSUME NEW S, NEW list \in Seq(S), NEW n \in 0 .. Len(list)
  PROVE  /\ SubSeq(list, 1, n) \in Seq(S) /\ Len(SubSeq(list, 1, n)) = n
         /\ \A i \in 1 .. n : SubSeq(list, 1, n)[i] = list[i]
<1>1. /\ n \in Nat /\ \A i \in 1 .. n : list[i] \in S
  BY LenProperties
<1>2. n - 1 + 1 = n /\ (~(1 <= n) => n = 0) /\ \A i \in 1 .. n : 1 + i - 1 = i
  BY <1>1
<1>3. /\ SubSeq(list, 1, n) \in Seq(S)
      /\ Len(SubSeq(list, 1, n)) = IF 1 <= n THEN n - 1 + 1 ELSE 0
      /\ \A i \in 1 .. n - 1 + 1 : SubSeq(list, 1, n)[i] = list[1 + i - 1]
  BY <1>1, SubSeqProperties
<1> QED
  BY <1>2, <1>3

LEMMA SuffixShape ==
  ASSUME NEW S, NEW list \in Seq(S), NEW from \in Nat, NEW n, n = Len(list)
  PROVE  /\ SubSeq(list, from + 1, n) \in Seq(S)
         /\ Len(SubSeq(list, from + 1, n)) = IF from + 1 <= n THEN n - from ELSE 0
         /\ \A i \in 1 .. n - from : SubSeq(list, from + 1, n)[i] = list[from + i]
<1>1. n \in Nat /\ \A i \in 1 .. n : list[i] \in S
  BY LenProperties
<1>2. /\ from + 1 \in Nat /\ \A i \in from + 1 .. n : i \in 1 .. n
      /\ n - (from + 1) + 1 = n - from
      /\ \A i \in 1 .. n - from : (from + 1) + i - 1 = from + i
  BY <1>1
<1>3. /\ SubSeq(list, from + 1, n) \in Seq(S)
      /\ Len(SubSeq(list, from + 1, n)) =
           IF from + 1 <= n THEN n - (from + 1) + 1 ELSE 0
      /\ \A i \in 1 .. n - (from + 1) + 1 :
           SubSeq(list, from + 1, n)[i] = list[(from + 1) + i - 1]
  BY <1>1, <1>2, SubSeqProperties
<1> QED
  BY <1>2, <1>3

\* A list without one of its entries.
LEMMA RemoveAtShape ==
  ASSUME NEW S, NEW list \in Seq(S), NEW k \in DOMAIN list
  PROVE  /\ RemoveAt(list, k) \in Seq(S)
         /\ \A i \in DOMAIN list : i # k => \E j \in DOMAIN RemoveAt(list, k) :
                                           RemoveAt(list, k)[j] = list[i]
<1> DEFINE before == SubSeq(list, 1, k - 1)
           after == SubSeq(list, k + 1, Len(list))
<1>1. /\ Len(list) \in Nat /\ DOMAIN list = 1 .. Len(list) /\ k \in 1 .. Len(list)
  BY LenProperties
<1>2. /\ before \in Seq(S) /\ Len(before) = k - 1
      /\ \A i \in 1 .. k - 1 : before[i] = list[i]
  <2>1. k - 1 \in 0 .. Len(list)
    BY <1>1
  <2> QED
    BY <2>1, PrefixShape
<1>3. /\ after \in Seq(S) /\ Len(after) = Len(list) - k
      /\ \A i \in 1 .. Len(list) - k : after[i] = list[k + i]
  <2>1. k \in Nat /\ (~(k + 1 <= Len(list)) => Len(list) - k = 0)
    BY <1>1
  <2>2. /\ after \in Seq(S)
        /\ Len(after) = IF k + 1 <= Len(list) THEN Len(list) - k ELSE 0
        /\ \A i \in 1 .. Len(list) - k : after[i] = list[k + i]
    BY <2>1, SuffixShape
  <2> QED
    BY <2>1, <2>2
<1> HIDE DEF before, after
<1>4. /\ before \o after \in Seq(S) /\ Len(before \o after) = Len(list) - 1
      /\ \A i \in 1 .. Len(list) - 1 :
           (before \o after)[i] = IF i <= k - 1 THEN before[i] ELSE after[i - (k - 1)]
  <2>1. Len(before) + Len(after) = Len(list) - 1
    BY <1>1, <1>2, <1>3
  <2> QED
    <3>1. /\ before \o after \in Seq(S) /\ Len(before \o after) = Len(before) + Len(after)
          /\ \A i \in 1 .. Len(before) + Len(after) :
               (before \o after)[i] = IF i <= Len(before) THEN before[i]
                                     ELSE after[i - Len(before)]
      BY <1>2, <1>3, ConcatProperties
    <3> QED
      BY <1>2, <2>1, <3>1
<1>5. DOMAIN (before \o after) = 1 .. Len(list) - 1
  BY <1>4, LenProperties
<1>6. ASSUME NEW i \in DOMAIN list, i # k
      PROVE  \E j \in 1 .. Len(list) - 1 : (before \o after)[j] = list[i]
  <2>1. CASE i < k
    <3>1. i \in 1 .. Len(list) - 1 /\ i \in 1 .. k - 1 /\ i <= k - 1
      BY <1>1, <1>6, <2>1
    <3> QED
      BY <1>2, <1>4, <3>1
  <2>2. CASE i > k
    <3>1. /\ i - 1 \in 1 .. Len(list) - 1 /\ ~(i - 1 <= k - 1)
          /\ (i - 1) - (k - 1) = i - k /\ i - k \in 1 .. Len(list) - k /\ k + (i - k) = i
      BY <1>1, <1>6, <2>2
    <3> QED
      BY <1>3, <1>4, <3>1
  <2>3. i < k \/ i > k
    BY <1>1, <1>6
  <2> QED
    BY <2>1, <2>2, <2>3
<1> QED
  BY <1>4, <1>5, <1>6 DEF RemoveAt, before, after

\* What a page holds: entries of the list in their order, none only at its end.
LEMMA PageShape ==
  ASSUME account \in Seq(Entry), NEW offset \in Nat, NEW data \in Pages(offset),
         NEW first, first = IF paged THEN offset ELSE 0
  PROVE  /\ data \in Seq(Entry)
         /\ \A i \in DOMAIN data : first + i \in DOMAIN account /\ data[i] = account[first + i]
         /\ data = <<>> => Len(account) <= first
<1> DEFINE rest == SubSeq(account, first + 1, Len(account))
<1>1. Len(account) \in Nat /\ DOMAIN account = 1 .. Len(account) /\ first \in Nat
  BY LenProperties
<1>2. /\ rest \in Seq(Entry)
      /\ Len(rest) = IF first + 1 <= Len(account) THEN Len(account) - first ELSE 0
      /\ \A i \in 1 .. Len(account) - first : rest[i] = account[first + i]
  BY <1>1, SuffixShape
<1>3. PICK n \in 0 .. Limit : /\ n <= Len(rest) /\ (n = 0 => rest = <<>>)
                             /\ data = SubSeq(rest, 1, n)
  BY DEF Pages
<1> HIDE DEF rest
<1>4. Len(rest) \in Nat /\ n \in Nat /\ n \in 0 .. Len(rest)
  BY <1>2, <1>3, ListingAssumption, LenProperties
<1>5. data \in Seq(Entry) /\ Len(data) = n /\ \A i \in 1 .. n : data[i] = rest[i]
  BY <1>2, <1>3, <1>4, PrefixShape
<1>6. \A i \in DOMAIN data : first + i \in DOMAIN account /\ data[i] = account[first + i]
  <2>1. DOMAIN data = 1 .. n
    BY <1>5, LenProperties
  <2>2. ASSUME NEW i \in 1 .. n
        PROVE  i \in 1 .. Len(account) - first /\ first + i \in 1 .. Len(account)
    <3> DEFINE a == Len(account)
               b == Len(rest)
    <3>1. /\ a \in Nat /\ b \in Nat /\ first \in Nat /\ n \in Nat /\ n <= b
          /\ b = IF first + 1 <= a THEN a - first ELSE 0
      BY <1>1, <1>2, <1>3, <1>4
    <3> HIDE DEF a, b
    <3>2. i \in 1 .. a - first /\ first + i \in 1 .. a
      BY <3>1
    <3> QED
      BY <3>2 DEF a
  <2> QED
    BY <1>1, <1>2, <1>5, <2>1, <2>2
<1>7. data = <<>> => Len(account) <= first
  <2> SUFFICES ASSUME data = <<>> PROVE Len(account) <= first
    OBVIOUS
  <2>1. n = 0 /\ rest = <<>>
    BY <1>3, <1>5, EmptySeq
  <2>2. Len(rest) = 0
    BY <2>1, EmptySeq
  <2> QED
    <3> DEFINE a == Len(account)
               b == Len(rest)
    <3>1. /\ a \in Nat /\ first \in Nat /\ b = 0
          /\ b = IF first + 1 <= a THEN a - first ELSE 0
      BY <1>1, <1>2, <2>2
    <3> HIDE DEF a, b
    <3>2. a <= first
      BY <3>1
    <3> QED
      BY <3>2 DEF a
<1> QED
  BY <1>5, <1>6, <1>7

\* Usable entries of the hash that a page shows settle the lookup.
LEMMA ObservedUsable ==
  ASSUME status \in [Entry -> Reading], NEW data \in Seq(Entry), NEW i \in DOMAIN data,
         NEW found \in Reading, data[i] \in Wanted, status[data[i]] \in Usable
  PROVE  Observed(found, data) \in Usable
<1>1. data[i] \in ToSet(data)
  BY DEF ToSet
<1>2. status[data[i]] \in {status[e] : e \in ToSet(data) \cap Wanted} \cup {found}
  BY <1>1
<1> QED
  BY <1>2 DEF Observed, Usable

LEMMA PageReadSafe ==
  ASSUME AbsenceInv, PageRead
  PROVE  AbsenceInv'
<1>1. PICK data \in Pages(lookup.offset) :
        LET found == Observed(lookup.found, data)
            new == ToSet(data) \ lookup.seen
            step == CASE found \in Usable -> "present"
                      [] found \notin Usable /\ data = <<>> -> "absent"
                      [] found \notin Usable /\ data # <<>> ->
                           IF new = {} \/ lookup.page + 1 = PageLimit
                           THEN "error" ELSE "listing"
        IN lookup' = IF step = "listing"
                     THEN [step |-> step, offset |-> NextOffset(lookup.offset, data),
                           page |-> lookup.page + 1, seen |-> lookup.seen \cup new,
                           found |-> found]
                     ELSE [NoLookup EXCEPT !.step = step]
  BY DEF PageRead
<1> DEFINE found == Observed(lookup.found, data)
           new == ToSet(data) \ lookup.seen
           first == IF paged THEN lookup.offset ELSE 0
<1>2. /\ lookup.step = "listing" /\ lookup \in LookupType /\ lookup.offset \in Nat
      /\ account \in Seq(Entry) /\ status \in [Entry -> Reading]
      /\ UNCHANGED <<account, status, paged, steady, removed>>
  BY DEF PageRead, AbsenceInv, ListingTypeOK, LookupType
<1>3. /\ data \in Seq(Entry) /\ Len(data) \in Nat /\ DOMAIN data = 1 .. Len(data)
      /\ \A i \in DOMAIN data : first + i \in DOMAIN account /\ data[i] = account[first + i]
      /\ data = <<>> => Len(account) <= first
  BY <1>2, PageShape, LenProperties
<1>4. found \in Reading /\ new \subseteq Entry
  <2>1. found \in Reading
    BY DEF Observed, Reading
  <2>2. ToSet(data) \subseteq Entry
    BY <1>3, ElementOfSeq DEF ToSet
  <2> QED
    BY <2>1, <2>2
<1>5. found \notin Usable =>
        \A i \in DOMAIN data : account[first + i] \notin steady \cap Wanted
  <2> SUFFICES ASSUME NEW i \in DOMAIN data, data[i] \in steady \cap Wanted
               PROVE  found \in Usable
    BY <1>3
  <2>1. status[data[i]] \in Usable /\ lookup.found \in Reading
    BY <1>2 DEF AbsenceInv, LookupType
  <2> QED
    BY <1>2, <1>3, <2>1, ObservedUsable
<1> HIDE DEF found, new
<1>6. \/ /\ found \notin Usable /\ lookup.page + 1 # PageLimit
         /\ lookup' = [step |-> "listing", offset |-> NextOffset(lookup.offset, data),
                       page |-> lookup.page + 1, seen |-> lookup.seen \cup new,
                       found |-> found]
      \/ lookup' \in {[NoLookup EXCEPT !.step = s] : s \in {"present", "error"}}
      \/ /\ found \notin Usable /\ data = <<>>
         /\ lookup' = [NoLookup EXCEPT !.step = "absent"]
  <2>1. CASE found \in Usable
    BY <1>1, <2>1 DEF found
  <2>2. CASE found \notin Usable /\ data = <<>>
    BY <1>1, <2>2 DEF found
  <2>3. CASE /\ found \notin Usable /\ data # <<>>
             /\ new = {} \/ lookup.page + 1 = PageLimit
    BY <1>1, <2>3 DEF found, new
  <2>4. CASE /\ found \notin Usable /\ data # <<>>
             /\ new # {} /\ lookup.page + 1 # PageLimit
    BY <1>1, <2>4 DEF found, new
  <2> QED
    BY <2>1, <2>2, <2>3, <2>4
<1>7. /\ steady' \subseteq OnAccount' /\ \A e \in steady' : status'[e] \in Usable
      /\ account' \in Seq(Entry) /\ status' \in [Entry -> Reading] /\ paged' \in BOOLEAN
      /\ steady' \subseteq Entry /\ removed' \in BOOLEAN
  BY <1>2 DEF AbsenceInv, ListingTypeOK, OnAccount
<1>8. CASE /\ found \notin Usable /\ lookup.page + 1 # PageLimit
           /\ lookup' = [step |-> "listing", offset |-> NextOffset(lookup.offset, data),
                         page |-> lookup.page + 1, seen |-> lookup.seen \cup new,
                         found |-> found]
  <2>1. lookup' \in LookupType
    <3>1. /\ lookup.page + 1 \in 0 .. PageLimit - 1 /\ lookup.seen \subseteq Entry
          /\ NextOffset(lookup.offset, data) \in Nat
      BY <1>2, <1>3, <1>8, ListingAssumption DEF LookupType, NextOffset
    <3> QED
      BY <1>4, <1>8, <3>1 DEF LookupType
  <2>2. ASSUME ~removed, paged, NEW k \in DOMAIN account, k <= lookup'.offset
        PROVE  account[k] \notin steady \cap Wanted
    <3>1. lookup'.offset = lookup.offset + Len(data) /\ first = lookup.offset
      BY <1>8, <2>2 DEF NextOffset
    <3>2. CASE k <= lookup.offset
      BY <1>2, <2>2, <3>2 DEF AbsenceInv
    <3>3. CASE k > lookup.offset
      <4>1. k \in Nat
        BY <1>2, LenProperties
      <4>2. k - first \in 1 .. Len(data) /\ first + (k - first) = k
        BY <1>2, <1>3, <2>2, <3>1, <3>3, <4>1
      <4> QED
        BY <1>3, <1>5, <1>8, <4>2
    <3>4. k <= lookup.offset \/ k > lookup.offset
      BY <1>2, LenProperties
    <3> QED
      BY <3>2, <3>3, <3>4
  <2>3. lookup'.step = "listing" /\ lookup'.found = found
    BY <1>8
  <2> QED
    BY <1>2, <1>7, <1>8, <2>1, <2>2, <2>3 DEF AbsenceInv, ListingTypeOK, LookupType, AbsenceIsReal
<1>9. CASE lookup' \in {[NoLookup EXCEPT !.step = s] : s \in {"present", "error"}}
  <2>1. lookup' \in LookupType /\ lookup'.step \in {"present", "error"}
    BY <1>9, NoLookupTyped DEF NoLookup
  <2> QED
    BY <1>7, <2>1 DEF AbsenceInv, ListingTypeOK, LookupType, AbsenceIsReal
<1>10. CASE /\ found \notin Usable /\ data = <<>>
            /\ lookup' = [NoLookup EXCEPT !.step = "absent"]
  <2>1. lookup' \in LookupType /\ lookup'.step = "absent"
    BY <1>10, NoLookupTyped DEF NoLookup
  <2>2. ASSUME ~removed, NEW e \in steady \cap Wanted
        PROVE  FALSE
    <3>1. PICK k \in DOMAIN account : account[k] = e
      BY DEF AbsenceInv, OnAccount, ToSet
    <3>2. Len(account) \in Nat /\ k \in 1 .. Len(account) /\ Len(account) <= first
      BY <1>2, <1>3, <1>10, LenProperties
    <3>3. paged /\ first = lookup.offset
      BY <1>2, <3>2
    <3>4. k <= lookup.offset
      BY <1>2, <3>2, <3>3
    <3> QED
      BY <1>2, <2>2, <3>1, <3>3, <3>4 DEF AbsenceInv
  <2> QED
    BY <1>2, <1>7, <2>1, <2>2 DEF AbsenceInv, ListingTypeOK, LookupType, AbsenceIsReal
<1> QED
  BY <1>6, <1>8, <1>9, <1>10

\* A list to which an entry is added, at either end, keeps its entries and moves
\* them to no earlier position.
LEMMA AddShape ==
  ASSUME NEW S, NEW list \in Seq(S), NEW e \in S, NEW longer,
         longer \in {Append(list, e), <<e>> \o list}
  PROVE  /\ longer \in Seq(S)
         /\ \A k \in DOMAIN list : \E i \in DOMAIN longer : longer[i] = list[k]
         /\ \A i \in DOMAIN longer :
              longer[i] = e \/ \E k \in DOMAIN list : k <= i /\ longer[i] = list[k]
<1>1. Len(list) \in Nat /\ DOMAIN list = 1 .. Len(list)
  BY LenProperties
<1>2. CASE longer = Append(list, e)
  <2>1. /\ longer \in Seq(S) /\ Len(longer) = Len(list) + 1
        /\ \A i \in 1 .. Len(list) : longer[i] = list[i]
        /\ longer[Len(list) + 1] = e
    BY <1>1, <1>2, AppendProperties
  <2>2. DOMAIN longer = 1 .. Len(list) + 1
    BY <2>1, LenProperties
  <2>3. \A i \in 1 .. Len(list) + 1 : i = Len(list) + 1 \/ i \in 1 .. Len(list)
    BY <1>1
  <2>4. \A k \in 1 .. Len(list) : k \in 1 .. Len(list) + 1 /\ k <= k
    BY <1>1
  <2> QED
    BY <1>1, <2>1, <2>2, <2>3, <2>4
<1>3. CASE longer = <<e>> \o list
  <2>1. <<e>> \in Seq(S) /\ Len(<<e>>) = 1 /\ <<e>>[1] = e
    OBVIOUS
  <2>2. /\ longer \in Seq(S) /\ Len(longer) = 1 + Len(list)
        /\ \A i \in 1 .. 1 + Len(list) :
             longer[i] = IF i <= 1 THEN <<e>>[i] ELSE list[i - 1]
    BY <1>3, <2>1, ConcatProperties
  <2>3. DOMAIN longer = 1 .. 1 + Len(list)
    BY <2>2, LenProperties
  <2>4. \A i \in 1 .. 1 + Len(list) :
          \/ i = 1
          \/ ~(i <= 1) /\ i - 1 \in 1 .. Len(list) /\ i - 1 <= i
    BY <1>1
  <2>5. \A k \in 1 .. Len(list) :
          k + 1 \in 1 .. 1 + Len(list) /\ ~(k + 1 <= 1) /\ (k + 1) - 1 = k
    BY <1>1
  <2>6. \A k \in DOMAIN list : longer[k + 1] = list[k] /\ k + 1 \in DOMAIN longer
    BY <1>1, <2>2, <2>3, <2>5
  <2>7. \A i \in DOMAIN longer :
          longer[i] = e \/ \E k \in DOMAIN list : k <= i /\ longer[i] = list[k]
    BY <1>1, <2>1, <2>2, <2>3, <2>4
  <2> QED
    BY <2>2, <2>6, <2>7
<1> QED
  BY <1>2, <1>3

\* Whatever others do to the account between two pages.
LEMMA AccountChangesSafe ==
  ASSUME AbsenceInv, NEW e \in Entry, EntryAdded(e) \/ EntryRemoved(e) \/ EntryChanges(e)
  PROVE  AbsenceInv'
<1>1. /\ account \in Seq(Entry) /\ status \in [Entry -> Reading]
      /\ lookup \in LookupType /\ steady \subseteq Entry
  BY DEF AbsenceInv, ListingTypeOK, LookupType
<1>2. CASE EntryAdded(e)
  <2>1. /\ e \notin steady /\ account' \in {Append(account, e), <<e>> \o account}
        /\ UNCHANGED <<status, paged, lookup, steady, removed>>
    BY <1>2 DEF EntryAdded, AbsenceInv
  <2>2. /\ account' \in Seq(Entry)
        /\ \A k \in DOMAIN account : \E i \in DOMAIN account' : account'[i] = account[k]
        /\ \A i \in DOMAIN account' :
             account'[i] = e \/ \E k \in DOMAIN account : k <= i /\ account'[i] = account[k]
    BY <1>1, <2>1, AddShape
  <2>3. steady' \subseteq OnAccount' /\ \A x \in steady' : status'[x] \in Usable
    BY <2>1, <2>2 DEF AbsenceInv, OnAccount, ToSet
  <2>4. ASSUME lookup.step = "listing", ~removed, paged,
               NEW i \in DOMAIN account', i <= lookup.offset
        PROVE  account'[i] \notin steady \cap Wanted
    <3>1. CASE account'[i] = e
      BY <2>1, <3>1
    <3>2. CASE \E k \in DOMAIN account : k <= i /\ account'[i] = account[k]
      <4>1. PICK k \in DOMAIN account : k <= i /\ account'[i] = account[k]
        BY <3>2
      <4>2. k \in Nat /\ i \in Nat /\ lookup.offset \in Nat
        BY <1>1, <2>2, LenProperties DEF LookupType
      <4>3. k <= lookup.offset
        BY <2>4, <4>1, <4>2
      <4> QED
        BY <2>4, <4>1, <4>3 DEF AbsenceInv
    <3> QED
      BY <2>2, <3>1, <3>2
  <2> QED
    BY <1>1, <2>1, <2>2, <2>3, <2>4 DEF AbsenceInv, ListingTypeOK, AbsenceIsReal
<1>3. CASE EntryRemoved(e)
  <2>1. PICK k \in DOMAIN account : account[k] = e /\ account' = RemoveAt(account, k)
    BY <1>3 DEF EntryRemoved
  <2>2. steady' = steady \ {e} /\ removed' = TRUE /\ UNCHANGED <<status, paged, lookup>>
    BY <1>3 DEF EntryRemoved
  <2>3. /\ account' \in Seq(Entry)
        /\ \A i \in DOMAIN account : i # k => \E j \in DOMAIN account' : account'[j] = account[i]
    BY <1>1, <2>1, RemoveAtShape
  <2>4. steady' \subseteq OnAccount'
    BY <2>1, <2>2, <2>3 DEF AbsenceInv, OnAccount, ToSet
  <2> QED
    BY <1>1, <2>2, <2>3, <2>4 DEF AbsenceInv, ListingTypeOK, AbsenceIsReal
<1>4. CASE EntryChanges(e)
  <2>1. PICK s \in Reading \ {status[e]} :
          /\ s # "unknown" /\ status' = [status EXCEPT ![e] = s]
          /\ steady' = IF s = "unavailable" THEN steady \ {e} ELSE steady
          /\ UNCHANGED <<account, paged, lookup, removed>>
    BY <1>4 DEF EntryChanges
  <2>2. /\ status' \in [Entry -> Reading] /\ steady' \subseteq steady
        /\ \A x \in steady' : status'[x] \in Usable
    BY <1>1, <2>1 DEF AbsenceInv, Reading, Usable
  <2>3. steady' \subseteq OnAccount'
    BY <2>1, <2>2 DEF AbsenceInv, OnAccount
  <2> QED
    BY <1>1, <2>1, <2>2, <2>3 DEF AbsenceInv, ListingTypeOK, AbsenceIsReal
<1> QED
  BY <1>2, <1>3, <1>4

LEMMA AbsenceStep == AbsenceInv /\ [ListingNext]_listingVars => AbsenceInv'
<1> SUFFICES ASSUME AbsenceInv, [ListingNext]_listingVars PROVE AbsenceInv'
  OBVIOUS
<1>1. CASE LookupStarts
  <2>1. lookup' = [NoLookup EXCEPT !.step = "listing"] /\ lookup' \in LookupType
    BY <1>1, NoLookupTyped DEF LookupStarts
  <2>2. /\ lookup'.step = "listing" /\ lookup'.found = "unavailable" /\ lookup'.offset = 0
        /\ steady' = Candidates /\ UNCHANGED <<account, status, paged>> /\ removed' = FALSE
    BY <1>1, <2>1 DEF LookupStarts, NoLookup
  <2>3. /\ steady' \subseteq OnAccount' /\ steady' \subseteq Entry
        /\ \A e \in steady' : status'[e] \in Usable
    <3>1. OnAccount' = OnAccount /\ OnAccount \subseteq Entry
      BY <2>2, ElementOfSeq, LenProperties DEF OnAccount, ToSet, AbsenceInv, ListingTypeOK
    <3> QED
      BY <2>2, <3>1 DEF Candidates
  <2>4. \A k \in DOMAIN account' : ~(k <= lookup'.offset)
    BY <2>2, LenProperties DEF AbsenceInv, ListingTypeOK
  <2> QED
    BY <2>1, <2>2, <2>3, <2>4
       DEF AbsenceInv, ListingTypeOK, LookupType, AbsenceIsReal, Usable
<1>2. CASE LookupFails
  <2>1. /\ lookup' \in LookupType /\ lookup'.step = "error"
        /\ UNCHANGED <<account, status, paged, steady, removed>>
    BY <1>2, NoLookupTyped DEF LookupFails, NoLookup
  <2> QED
    BY <2>1 DEF AbsenceInv, ListingTypeOK, LookupType, OnAccount, AbsenceIsReal
<1>3. CASE UNCHANGED listingVars
  BY <1>3 DEF listingVars, AbsenceInv, ListingTypeOK, OnAccount, AbsenceIsReal
<1> QED
  BY <1>1, <1>2, <1>3, PageReadSafe, AccountChangesSafe DEF ListingNext

LEMMA AbsenceInitial == ListingInit => AbsenceInv
<1> SUFFICES ASSUME ListingInit PROVE AbsenceInv
  OBVIOUS
<1>1. PICK s \in SUBSET Entry : account \in SetToSeqs(s)
  BY DEF ListingInit, SetToAllKPermutations
<1>2. Cardinality(s) \in Nat
  BY ListingAssumption, FS_Subset, FS_CardinalityType
<1>3. account \in [1 .. Cardinality(s) -> s]
  BY <1>1 DEF SetToSeqs
<1>4. account \in Seq(Entry)
  <2>1. account \in [1 .. Cardinality(s) -> Entry]
    BY <1>3
  <2> QED
    BY <1>2, <2>1
<1>5. lookup \in LookupType /\ lookup.step = "idle"
  BY NoLookupTyped, ListingAssumption DEF ListingInit, NoLookup, LookupType, Reading
<1> QED
  BY <1>4, <1>5 DEF ListingInit, AbsenceInv, ListingTypeOK, LookupType, AbsenceIsReal

\* However the pages fall and whatever is added at either end or changes
\* meanwhile, a lookup answers "absent" only when no usable entry of the hash
\* has been on the account throughout, unless an entry was removed.
THEOREM AbsencesReal == ListingSpec => []AbsenceIsReal
<1>1. AbsenceInv => AbsenceIsReal
  BY DEF AbsenceInv
<1> QED
  BY <1>1, AbsenceInitial, AbsenceStep, PTL DEF ListingSpec

--------------------------------------------------------------------------------
(***************************************************************************)
(* Types.  What the invariants above say of the rows, listings, runs and   *)
(* passes, with the keys, the clocks and the flags; and the refreshes.     *)
(***************************************************************************)

LEMMA KeysStep ==
  ASSUME keys \subseteq {"poll", "webhook"}, [MovieNext]_movieVars
  PROVE  keys' \subseteq {"poll", "webhook"}
<1>1. keys' = keys \/ \E p \in Asker : keys' = keys \cup {Key(p)}
  <2>1. CASE UNCHANGED movieVars
    BY <2>1 DEF movieVars
  <2>2. CASE Radarr
    BY <2>2 DEF Radarr, RadarrAdds, RadarrImports, RadarrRemoves, RadarrWebhook, DeleteWebhook
  <2>3. ASSUME NEW s \in Scan, ScanStep(s) \/ ScanBreaks(s)
        PROVE  keys' = keys
    BY <2>3 DEF ScanStep, ScanBreaks, ScanList, ScanTrack, ScanImport, ScanPrune
  <2>4. ASSUME NEW p \in Asker, \/ AskLookup(p) \/ AskRecord(p) \/ AskFind(p)
                                \/ AskPlace(p) \/ AskRearm(p) \/ AskBreaks(p)
        PROVE  keys' = keys \/ keys' = keys \cup {Key(p)}
    BY <2>4 DEF AskLookup, AskRecord, AskFind, AskPlace, AskRearm, AskBreaks
  <2>5. ASSUME NEW v \in Viewer, PlayMatch(v) \/ PlayRearm(v)
        PROVE  keys' = keys
    BY <2>5 DEF PlayMatch, PlayRearm
  <2>6. ASSUME NEW id \in ArrId, RowMoves(id)
        PROVE  keys' = keys
    BY <2>6 DEF RowMoves
  <2> QED
    BY <2>1, <2>2, <2>3, <2>4, <2>5, <2>6 DEF MovieNext
<1> QED
  BY <1>1 DEF Key

LEMMA MovieTyped == MovieSpec => []MovieTypeOK
<1> DEFINE KeysOK == keys \subseteq {"poll", "webhook"}
<1>1. MovieInit => KeysOK
  BY DEF MovieInit
<1>2. KeysOK /\ [MovieNext]_movieVars => KeysOK'
  BY KeysStep
<1>3. MovieInit => AskInv
  BY DEF MovieInit, AskInv, AskStep, Poll
<1>4. AskInv /\ FileInv /\ KeysOK => MovieTypeOK
  <2> SUFFICES ASSUME AskInv, FileInv, KeysOK PROVE MovieTypeOK
    OBVIOUS
  <2>1. adds \in 0 .. MaxAdds
    BY MovieConstants DEF FileInv
  <2> QED
    BY <2>1 DEF AskInv, AskStep, FileInv, RowsSound, RowsTyped, MovieTypeOK
<1> QED
  BY <1>1, <1>2, <1>3, <1>4, AskInvStep, FileInitial, FileInvStep, PTL DEF MovieSpec

ClocksOK ==
  running \in BOOLEAN /\ sinceScan \in 0 .. ScanDebounce /\ sinceHook \in 0 .. HookDebounce

LEMMA ClockEnds ==
  /\ 0 \in 0 .. ScanDebounce /\ ScanDebounce \in 0 .. ScanDebounce
  /\ 0 \in 0 .. HookDebounce /\ HookDebounce \in 0 .. HookDebounce
<1>1. ScanDebounce \in Nat /\ HookDebounce \in Nat
  BY EpisodeConstants
<1> QED
  BY <1>1

LEMMA ClocksStep ==
  ASSUME ClocksOK, [EpisodeNext]_episodeVars
  PROVE  ClocksOK'
<1>1. CASE EpisodeTick
  <2>1. Less(sinceScan) \in 0 .. ScanDebounce /\ Less(sinceHook) \in 0 .. HookDebounce
    <3>1. ASSUME NEW n \in Nat, NEW k \in 0 .. n PROVE Less(k) \in 0 .. n
      BY DEF Less
    <3>2. ScanDebounce \in Nat /\ HookDebounce \in Nat
      BY EpisodeConstants
    <3> QED
      BY <3>1, <3>2 DEF ClocksOK
  <2> QED
    BY <1>1, <2>1 DEF EpisodeTick, ClocksOK
<1>2. CASE ProcessRestarts
  BY <1>2, ClockEnds DEF ProcessRestarts, ClocksOK
<1>3. ASSUME NEW c \in Caller, HookCalls(c) \/ ScanStarts(c)
      PROVE  ClocksOK'
  BY <1>3, ClockEnds DEF HookCalls, ScanStarts, clockVars, ClocksOK
<1>4. ASSUME NEW c \in Caller, \/ ScanSkipped(c) \/ PassStep(c) \/ ListShowFails(c)
                               \/ StoreFails(c) \/ PassBreaks(c)
      PROVE  UNCHANGED clockVars /\ (running' = running \/ running' = FALSE)
  BY <1>4 DEF ScanSkipped, PassStep, ListSeries, ListShow, StoreFile, PruneEpisodes,
              ListShowFails, StoreFails, PassBreaks, Released
<1>5. CASE \/ UNCHANGED episodeVars \/ TimerCalls
           \/ \E f \in EpisodeFile : SonarrImports(f) \/ EpisodePending(f)
           \/ \E S \in SUBSET EpisodeFile : SonarrDeletes(S)
           \/ \E s \in Show : SeriesDeleted(s)
  BY <1>5 DEF episodeVars, TimerCalls, SonarrImports, EpisodePending, SonarrDeletes,
              SeriesDeleted, clockVars, ClocksOK
<1> QED
  BY <1>1, <1>2, <1>3, <1>4, <1>5 DEF EpisodeNext, ClocksOK, clockVars

LEMMA EpisodeTyped == EpisodeSpec => []EpisodeTypeOK
<1>1. EpisodeInit => ClocksOK
  BY ClockEnds DEF EpisodeInit, ClocksOK
<1>2. ClocksOK /\ [EpisodeNext]_episodeVars => ClocksOK'
  BY ClocksStep
<1>3. PruneInv /\ ClocksOK => EpisodeTypeOK
  BY DEF PruneInv, RowsOk, RowState, ClocksOK, EpisodeTypeOK
<1> QED
  BY <1>1, <1>2, <1>3, PruneInitial, PruneStep, PTL DEF EpisodeSpec

\* A task goes to a step with what is left to it.
LEMMA TaskGoes ==
  ASSUME RefreshTypeOK, NEW t \in Task, NEW n \in 0 .. Delay + TimeLimit,
         NEW s \in {"idle", "check", "delay", "request", "record"}, TaskGoto(t, s, n)
  PROVE  task' \in [Task -> [step : {"idle", "check", "delay", "request", "record"},
                            left : 0 .. Delay + TimeLimit]]
  BY DEF TaskGoto, RefreshTypeOK

LEMMA RefreshTypesStep ==
  ASSUME RefreshTypeOK, [RefreshNext]_refreshVars
  PROVE  RefreshTypeOK'
<1> DEFINE TaskType == [step : {"idle", "check", "delay", "request", "record"},
                        left : 0 .. Delay + TimeLimit]
<1>1. /\ Delay \in Nat /\ TimeLimit \in Nat /\ HealEvery \in Nat /\ Cooldown \in Nat
      /\ Dedupe \in Nat /\ Recent \in Nat
      /\ 0 \in 0 .. Dedupe /\ Dedupe \in 0 .. Dedupe /\ 0 \in 0 .. Recent
      /\ 0 \in 0 .. HealEvery /\ HealEvery \in 0 .. HealEvery
  BY RefreshConstants
<1>2. /\ 0 \in 0 .. Delay + TimeLimit /\ Delay \in 0 .. Delay + TimeLimit
      /\ TimeLimit \in 0 .. Delay + TimeLimit
  BY <1>1
<1>3. task \in [Task -> TaskType]
  BY DEF RefreshTypeOK
<1>4. ASSUME NEW t \in Task, Schedule(t)
      PROVE  task' \in [Task -> TaskType] /\ reservedFor' \in 0 .. Dedupe
  <2>1. CASE UNCHANGED <<task, reservedFor>>
    BY <2>1 DEF RefreshTypeOK
  <2>2. CASE reservedFor' = Dedupe /\ TaskGoto(t, "check", 0)
    BY <1>1, <1>2, <2>2, TaskGoes
  <2> QED
    BY <1>4, <2>1, <2>2 DEF Schedule
<1>5. ASSUME NEW t \in Task, Rehydrated(t) \/ ImportObserved(t)
      PROVE  RefreshTypeOK'
  <2>1. task' \in [Task -> TaskType] /\ reservedFor' \in 0 .. Dedupe
    BY <1>4, <1>5 DEF Rehydrated, ImportObserved
  <2>2. eventAge' \in 0 .. Recent /\ noted' \in BOOLEAN
    BY <1>1, <1>5 DEF Rehydrated, ImportObserved, eventVars, RefreshTypeOK
  <2> QED
    BY <1>5, <2>1, <2>2 DEF Rehydrated, ImportObserved, inventoryVars, RefreshTypeOK
<1>6. CASE PlayIntended
  BY <1>1, <1>6 DEF PlayIntended, inventoryVars, RefreshTypeOK
<1>7. CASE SelfHealPass
  <2>1. task' \in [Task -> TaskType] /\ reservedFor' \in 0 .. Dedupe
    BY <1>4, <1>7 DEF SelfHealPass, RefreshTypeOK
  <2> QED
    BY <1>1, <1>7, <2>1 DEF SelfHealPass, eventVars, inventoryVars, RefreshTypeOK
<1>8. ASSUME NEW t \in Task, \/ TaskStep(t) \/ CheckFails(t) \/ RefreshSkipped(t)
                             \/ PathRefreshFails(t) \/ RecordLost(t)
      PROVE  RefreshTypeOK'
  <2>1. \E s \in {"idle", "check", "delay", "request", "record"}, n \in 0 .. Delay + TimeLimit :
          TaskGoto(t, s, n)
    <3>1. task[t].left \in 0 .. Delay + TimeLimit
      BY <1>3
    <3> QED
      BY <1>2, <1>8, <3>1
         DEF TaskStep, CheckRecent, DelayOver, PathRefreshed, RefreshRecorded, TaskEnds,
             CheckFails, RefreshSkipped, PathRefreshFails, RecordLost
  <2>2. task' \in [Task -> TaskType]
    BY <2>1, TaskGoes
  <2>3. /\ eventAge' = eventAge /\ (noted' = noted \/ noted' = TRUE)
        /\ noteAge' = noteAge \/ noteAge' = 0
        /\ scanAge' = scanAge \/ scanAge' = 0 \/ scanAge' = Dedupe
        /\ reservedFor' = reservedFor \/ reservedFor' = 0
        /\ indexed' = indexed \/ indexed' = TRUE
        /\ UNCHANGED <<healIn, claimFor, sync>>
    BY <1>8 DEF TaskStep, CheckRecent, DelayOver, PathRefreshed, RefreshRecorded, Noted,
                CheckFails, RefreshSkipped, PathRefreshFails, RecordLost, eventVars,
                inventoryVars
  <2> QED
    BY <1>1, <2>2, <2>3 DEF RefreshTypeOK
<1>9. CASE InventoryStep \/ InventoryBreaks \/ JellyfinForgets
  <2>1. UNCHANGED <<eventAge, reservedFor, task, healIn, scanAge>>
    BY <1>9 DEF InventoryStep, InventoryMissing, Claim, InventoryRefreshed, InventoryRecorded,
                InventoryBreaks, JellyfinForgets, Noted, eventVars, inventoryVars
  <2>2. /\ noted' = noted \/ noted' = TRUE
        /\ noteAge' = noteAge \/ noteAge' = 0
        /\ indexed' = indexed \/ indexed' \in BOOLEAN
        /\ sync' = sync \/ sync' \in {"idle", "claim", "request", "record"}
        /\ claimFor' = claimFor \/ claimFor' = Claimed(claimFor)
    BY <1>9 DEF InventoryStep, InventoryMissing, Claim, InventoryRefreshed, InventoryRecorded,
                InventoryBreaks, JellyfinForgets, Noted, eventVars, inventoryVars
  <2>3. Claimed(claimFor) \in 0 .. Cooldown
    BY <1>1 DEF Claimed, RefreshTypeOK
  <2> QED
    BY <1>1, <2>1, <2>2, <2>3 DEF RefreshTypeOK
<1>10. CASE ControllerRestarts
  <2>1. task' \in [Task -> TaskType]
    BY <1>2, <1>10 DEF ControllerRestarts, NoTask
  <2> QED
    BY <1>1, <1>10, <2>1 DEF ControllerRestarts, eventVars, RefreshTypeOK
<1>11. CASE RefreshTick
  <2>1. task' \in [Task -> TaskType]
    <3>1. \A n \in 0 .. Delay + TimeLimit : Minus(n) \in 0 .. Delay + TimeLimit
      BY <1>1 DEF Minus
    <3>2. \A t \in Task : [task[t] EXCEPT !.left = Minus(@)] \in TaskType
      BY <1>3, <3>1
    <3> QED
      BY <1>11, <3>2 DEF RefreshTick
  <2>2. /\ eventAge' \in 0 .. Recent /\ noteAge' \in 0 .. Dedupe /\ scanAge' \in 0 .. Dedupe
        /\ reservedFor' \in 0 .. Dedupe /\ claimFor' \in 0 .. Cooldown
        /\ healIn' \in 0 .. HealEvery
    BY <1>1, <1>11 DEF RefreshTick, Older, Minus, RefreshTypeOK
  <2> QED
    BY <1>11, <2>1, <2>2 DEF RefreshTick, RefreshTypeOK
<1>12. CASE UNCHANGED refreshVars
  BY <1>12 DEF refreshVars, RefreshTypeOK
<1> QED
  BY <1>5, <1>6, <1>7, <1>8, <1>9, <1>10, <1>11, <1>12 DEF RefreshNext

LEMMA RefreshTyped == RefreshSpec => []RefreshTypeOK
<1>1. RefreshInit => RefreshTypeOK
  <2>1. NoTask \in [step : {"idle", "check", "delay", "request", "record"},
                    left : 0 .. Delay + TimeLimit]
    BY RefreshConstants DEF NoTask
  <2>2. /\ Recent \in 0 .. Recent /\ Dedupe \in 0 .. Dedupe /\ 0 \in 0 .. Dedupe
        /\ 0 \in 0 .. HealEvery /\ 0 \in 0 .. Cooldown
    <3>1. Recent \in Nat /\ Dedupe \in Nat /\ HealEvery \in Nat /\ Cooldown \in Nat
      BY RefreshConstants
    <3> QED
      BY <3>1
  <2> QED
    BY <2>1, <2>2 DEF RefreshInit, RefreshTypeOK
<1>2. RefreshTypeOK /\ [RefreshNext]_refreshVars => RefreshTypeOK'
  BY RefreshTypesStep
<1> QED
  BY <1>1, <1>2, PTL DEF RefreshSpec

(***************************************************************************)
(* The rows, passes, debounces, reservations, cooldowns and lookups of the *)
(* intake keep to their ranges (IntakeTypesOK), whatever the numbers of    *)
(* scans, requests, viewers, callers, tasks and entries.                   *)
(***************************************************************************)
THEOREM IntakeTyped == IntakeSpec => []IntakeTypesOK
<1>1. ListingSpec => []ListingTypeOK
  <2>1. AbsenceInv => ListingTypeOK
    BY DEF AbsenceInv
  <2> QED
    BY <2>1, AbsenceInitial, AbsenceStep, PTL DEF ListingSpec
<1>2. MovieTypeOK /\ EpisodeTypeOK /\ RefreshTypeOK /\ ListingTypeOK => IntakeTypesOK
  BY DEF IntakeTypesOK
<1> QED
  BY <1>1, <1>2, MovieTyped, EpisodeTyped, RefreshTyped, PTL DEF IntakeSpec
================================================================================
