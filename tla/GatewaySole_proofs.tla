---------------------------- MODULE GatewaySole_proofs ----------------------------
(***************************************************************************)
(* Proofs about GatewayWorker when one worker runs at a time, for every    *)
(* set of jobs and every value of the limits.                              *)
(*                                                                         *)
(*   RetriesInformed        Spec => NoBlindRetry                           *)
(*   CopiesSingle           Spec => []AtMostOneLiveCopy                    *)
(*   CatalogsKept           Spec => CatalogStable                          *)
(*   JobsImplemented        Spec => ImplementsReleaseJobs                  *)
(*                                                                         *)
(* Replicas break the first (see replicas_retry): the write-back of a pass *)
(* that polled may undo the outcome another replica recorded.              *)
(***************************************************************************)
EXTENDS GatewayWorker_proofs

--------------------------------------------------------------------------------
(***************************************************************************)
(* What a row, or a copy of one, says of the placements of its job: state  *)
(* s, provider id, m absences, for placements p, with the ids rec that     *)
(* rows have named and gl false absences since the last other answer.      *)
(***************************************************************************)

Moving    == {"Downloading", "Missing", "Mounting", "Completed"}
Unsettled == {"Submitting", "SubmissionUnknown"}
LiveState == Serving \cup {"queued"}

Live(p)    == {id \in DOMAIN p : p[id] \in LiveState}
Ups(j, p)  == {id \in DOMAIN p : id > Known(j)}
Base(j)    == {id \in {1} : j \in OnAccount}

\* A torrent the account had is visible until it is gone, and gone before
\* anything is uploaded; nothing is there twice.
PlacedOk(j, p) ==
  /\ p \in Seq(Placement) /\ Base(j) \subseteq DOMAIN p
  /\ \A id \in Base(j) : p[id] # "queued" /\ (Ups(j, p) # {} => p[id] = "gone")
  /\ \A a, b \in Live(p) : a = b

\* Between submissions only the placement named can be live, before one only
\* what the account had; after as many absences as were false, the placement
\* is dead; and but for the last, uploads are on record.
Good(j, s, id, m, p, rec, gl) ==
  /\ id \in Nat /\ id <= Len(p) /\ (id # 0 => p[id] # "queued")
  /\ id = 0 => rec \subseteq {0} /\ m = 0 /\ s \notin Moving
  /\ m <= gl \/ id \notin Live(p)
  /\ s \in Moving => Live(p) \subseteq {id}
  /\ s \in {"Absent", "Queued"} => Live(p) \subseteq Base(j)
  /\ s \in Unsettled => Ups(j, p) \subseteq rec \cup {Len(p)}
  /\ s \notin Unsettled => Ups(j, p) \subseteq rec

GoodRow(j, r, p, rec, gl) == Good(j, r.state, r.pid, r.missing, p, rec, gl)

\* What the copy will leave when it is written back.
WriteGood(j, c, p, rec, gl) ==
  Good(j, c.state, c.pid, c.missing, p, rec \cup {c.pid}, IF c.missing = 0 THEN 0 ELSE gl)

\* What holds at step s of a pass with copy c of row r.
Holds(s, j, c, r, p, rec, gl) ==
  /\ s \in {"lookup", "resolve"} => r.state = "SubmissionUnknown" /\ r.pid = 0
  /\ s = "resolve" => /\ c.pid \in DOMAIN p /\ p[c.pid] # "queued"
                      /\ Live(p) \subseteq {c.pid} /\ Ups(j, p) \subseteq {c.pid}
  /\ s \in BeforePost => /\ r.state = "Submitting" /\ c.state = "Queued"
                         /\ GoodRow(j, c, p, rec, gl)
  /\ s = "post" => Live(p) = {} /\ \A id \in Base(j) : p[id] = "gone"
  /\ s = "poll" => c.state \in Moving /\ GoodRow(j, c, p, rec, gl)
  /\ s = "write" => WriteGood(j, c, p, rec, gl)

JobsGood ==
  \A j \in Job : PlacedOk(j, provider[j]) /\ GoodRow(j, row[j], provider[j], recorded[j], glitches[j])

PassGood(w) ==
  pc[w] \notin {"idle", "claim"} =>
    Holds(pc[w], held[w], copy[w], row[held[w]], provider[held[w]], recorded[held[w]],
          glitches[held[w]])

SoleInv == TypeOK /\ JobsGood /\ \A w \in Worker : PassGood(w)

--------------------------------------------------------------------------------
(***************************************************************************)
(* The placements.                                                         *)
(***************************************************************************)

LEMMA DomainFacts ==
  ASSUME NEW j \in Job, NEW p \in Seq(Placement)
  PROVE  /\ DOMAIN p = 1 .. Len(p) /\ Len(p) \in Nat
         /\ Known(j) \in Nat /\ Known(j) <= 1
         /\ \A id \in Ups(j, p) : id # 0 /\ id \notin Base(j) /\ id \in Nat
         /\ \A id \in DOMAIN p : id \in Base(j) \/ id \in Ups(j, p)
<1>1. DOMAIN p = 1 .. Len(p) /\ Len(p) \in Nat
  OBVIOUS
<1>2. Known(j) = IF j \in OnAccount THEN 1 ELSE 0
  BY DEF Known
<1> QED
  BY <1>1, <1>2 DEF Ups, Base

\* A placement only loses: what is not live stays so, and gone stays gone.
LEMMA ProviderChange ==
  ASSUME NEW j \in Job, NEW p \in Seq(Placement), NEW id \in DOMAIN p,
         NEW move \in ProviderMove, p[id] = move[1],
         NEW q, q = [p EXCEPT ![id] = move[2]]
  PROVE  /\ q \in Seq(Placement) /\ DOMAIN q = DOMAIN p /\ Len(q) = Len(p)
         /\ Live(q) \subseteq Live(p) /\ Ups(j, q) = Ups(j, p)
         /\ \A i \in DOMAIN p : /\ p[i] # "queued" => q[i] # "queued"
                                /\ p[i] = "gone" => q[i] = "gone"
<1>1. /\ DOMAIN p = 1 .. Len(p) /\ Len(p) \in Nat
      /\ p \in [1 .. Len(p) -> Placement]
  OBVIOUS
<1>2. /\ move[2] \in Placement /\ move[2] # "queued"
      /\ move[2] \in LiveState => move[1] \in LiveState
      /\ move[1] # "gone"
  BY DEF ProviderMove, Placement, LiveState, Serving
<1>3. q \in [1 .. Len(p) -> Placement]
  BY <1>1, <1>2
<1>4. q \in Seq(Placement)
  BY <1>1, <1>3, IsASeq
<1>5. DOMAIN q = DOMAIN p /\ Len(q) = Len(p)
  BY <1>1, <1>3, <1>4
<1>6. \A i \in DOMAIN p : q[i] = IF i = id THEN move[2] ELSE p[i]
  OBVIOUS
<1>7. Live(q) \subseteq Live(p)
  BY <1>2, <1>5, <1>6 DEF Live
<1>8. Ups(j, q) = Ups(j, p)
  BY <1>5 DEF Ups
<1> QED
  BY <1>2, <1>4, <1>5, <1>6, <1>7, <1>8

\* So does whatever a row says of them.
LEMMA GoodKept ==
  ASSUME NEW j \in Job, NEW p \in Seq(Placement), NEW q \in Seq(Placement),
         DOMAIN q = DOMAIN p, Len(q) = Len(p), Live(q) \subseteq Live(p), Ups(j, q) = Ups(j, p),
         \A i \in DOMAIN p : p[i] # "queued" => q[i] # "queued",
         NEW s, NEW id, NEW m, NEW rec, NEW gl, Good(j, s, id, m, p, rec, gl)
  PROVE  Good(j, s, id, m, q, rec, gl)
<1>1. DOMAIN p = 1 .. Len(p) /\ Len(p) \in Nat
  OBVIOUS
<1>2. id # 0 => q[id] # "queued"
  BY <1>1 DEF Good
<1> QED
  BY <1>2 DEF Good

LEMMA PlacedKept ==
  ASSUME NEW j \in Job, NEW p, PlacedOk(j, p), NEW q \in Seq(Placement),
         DOMAIN q = DOMAIN p, Live(q) \subseteq Live(p), Ups(j, q) = Ups(j, p),
         \A i \in DOMAIN p : /\ p[i] # "queued" => q[i] # "queued"
                             /\ p[i] = "gone" => q[i] = "gone"
  PROVE  PlacedOk(j, q)
  BY DEF PlacedOk

\* An upload, when nothing is live and what the account had is gone.
Spent(j, p) == PlacedOk(j, p) /\ Live(p) = {} /\ \A id \in Base(j) : p[id] = "gone"

Uploaded(j, p, q, outcome) ==
  /\ PlacedOk(j, q) /\ Len(q) = Len(p) + 1
  /\ q[Len(p) + 1] = outcome /\ \A i \in DOMAIN p : q[i] = p[i]
  /\ Live(q) \subseteq {Len(p) + 1}
  /\ Ups(j, q) \subseteq Ups(j, p) \cup {Len(p) + 1}

LEMMA UploadChange ==
  ASSUME NEW j \in Job, NEW p, Spent(j, p),
         NEW outcome \in {"active", "queued", "gone"}
  PROVE  Uploaded(j, p, Append(p, outcome), outcome)
<1> DEFINE q == Append(p, outcome)
<1>1. /\ p \in Seq(Placement) /\ DOMAIN p = 1 .. Len(p) /\ Len(p) \in Nat
      /\ Base(j) \subseteq DOMAIN p
      /\ Live(p) = {} /\ \A id \in Base(j) : p[id] = "gone"
  BY DEF Spent, PlacedOk
<1>2. outcome \in Placement
  BY DEF Placement
<1>3. /\ q \in Seq(Placement) /\ Len(q) = Len(p) + 1 /\ DOMAIN q = 1 .. (Len(p) + 1)
      /\ q[Len(p) + 1] = outcome /\ \A i \in 1 .. Len(p) : q[i] = p[i]
  BY <1>1, <1>2
<1>4. \A i \in DOMAIN q : i = Len(p) + 1 \/ i \in DOMAIN p
  BY <1>1, <1>3
<1>5. Live(q) \subseteq {Len(p) + 1}
  BY <1>1, <1>3, <1>4 DEF Live
<1>6. Ups(j, q) \subseteq Ups(j, p) \cup {Len(p) + 1}
  BY <1>4 DEF Ups
<1>7. PlacedOk(j, q)
  <2>1. Base(j) \subseteq DOMAIN q
    BY <1>1, <1>3
  <2>2. \A id \in Base(j) : q[id] = "gone"
    BY <1>1, <1>3
  <2> QED
    BY <1>3, <1>5, <2>1, <2>2 DEF PlacedOk
<1> QED
  BY <1>1, <1>3, <1>5, <1>6, <1>7 DEF Uploaded

--------------------------------------------------------------------------------
(***************************************************************************)
(* The statements.                                                         *)
(***************************************************************************)

\* Statements that leave the identity: what they may make of the state.
LEMMA GoodState ==
  ASSUME NEW j, NEW s, NEW id, NEW m, NEW p, NEW rec, NEW gl, Good(j, s, id, m, p, rec, gl),
         NEW t,
         \/ t = s
         \/ s = "Submitting" /\ t = "SubmissionUnknown"
         \/ s = "Queued" /\ t \in {"Failed", "Submitting"}
         \/ s = "Absent" /\ t = "Queued"
         \/ s = "Mounting" /\ t = "Completed"
  PROVE  Good(j, t, id, m, p, rec, gl)
  BY DEF Good, Moving, Unsettled

LEMMA SweptFields ==
  ASSUME NEW r \in Row
  PROVE  /\ Swept(r) \in Row /\ Swept(r).pid = r.pid /\ Swept(r).missing = r.missing
         /\ Swept(r).files = r.files
         /\ \/ Swept(r).state = r.state
            \/ r.state = "Submitting" /\ Swept(r).state = "SubmissionUnknown"
            \/ r.state = "Queued" /\ Swept(r).state = "Failed"
<1> DEFINE e == ExpireSubmission(r)
<1>1. /\ e \in Row /\ e.pid = r.pid /\ e.missing = r.missing /\ e.files = r.files
      /\ e.state = r.state \/ (r.state = "Submitting" /\ e.state = "SubmissionUnknown")
  BY RowTypes DEF ExpireSubmission, Row
<1> HIDE DEF e
<1>2. /\ FailExhausted(e).pid = e.pid /\ FailExhausted(e).missing = e.missing
      /\ FailExhausted(e).files = e.files
      /\ FailExhausted(e).state = e.state \/ (e.state = "Queued" /\ FailExhausted(e).state = "Failed")
  BY <1>1 DEF FailExhausted, Row
<1> QED
  BY <1>1, <1>2, SweptTypes DEF Swept, e

LEMMA ClaimedFields ==
  ASSUME NEW r \in Row
  PROVE  /\ ClaimedRow(r).pid = r.pid /\ ClaimedRow(r).missing = r.missing
         /\ ClaimedRow(r).files = r.files
         /\ ClaimedRow(r).state = IF r.state = "Queued" THEN "Submitting" ELSE r.state
  BY DEF ClaimedRow, Row

LEMMA CopyOfFields ==
  ASSUME NEW r \in Row, NEW n
  PROVE  /\ CopyOf(r).state = r.state /\ CopyOf(r).pid = r.pid
         /\ CopyOf(r).missing = r.missing /\ CopyOf(r).files = r.files
         /\ [CopyOf(r) EXCEPT !.attempts = n].state = r.state
         /\ [CopyOf(r) EXCEPT !.attempts = n].pid = r.pid
         /\ [CopyOf(r) EXCEPT !.attempts = n].missing = r.missing
         /\ [CopyOf(r) EXCEPT !.attempts = n].files = r.files
  BY DEF CopyOf

LEMMA UpdatedFields ==
  ASSUME NEW r \in Row, NEW c, NEW d
  PROVE  /\ UpdatedRow(r, c, d).pid = c.pid /\ UpdatedRow(r, c, d).missing = c.missing
         /\ UpdatedRow(r, c, d).files = c.files
         /\ \/ UpdatedRow(r, c, d).state = c.state
            \/ c.state = "Mounting" /\ UpdatedRow(r, c, d).state = "Completed"
  BY DEF UpdatedRow, Row

LEMMA OutcomeFields ==
  ASSUME NEW c \in CopyType, NEW id
  PROVE  /\ Accepted(c, id).state = "Downloading" /\ Accepted(c, id).pid = id
         /\ Accepted(c, id).missing = 0 /\ Accepted(c, id).files = c.files
         /\ Unanswered(c).state = "SubmissionUnknown" /\ Unanswered(c).pid = c.pid
         /\ Unanswered(c).missing = c.missing /\ Unanswered(c).files = c.files
  BY DEF Accepted, Unanswered, CopyType

LEMMA EnvironmentFields ==
  ASSUME NEW r \in Row
  PROVE  /\ AddedRow(r).pid = r.pid /\ AddedRow(r).missing = r.missing
         /\ AddedRow(r).files = r.files
         /\ AddedRow(r).state = IF r.state = "Absent" THEN "Queued" ELSE r.state
         /\ WokenRow(r).pid = r.pid /\ WokenRow(r).missing = r.missing
         /\ WokenRow(r).files = r.files /\ WokenRow(r).state = r.state
         /\ VerifiedRow(r).pid = r.pid /\ VerifiedRow(r).missing = r.missing
         /\ VerifiedRow(r).files = r.files
         /\ VerifiedRow(r).state = IF r.state = "Mounting" THEN "Completed" ELSE r.state
         /\ \A n : /\ [r EXCEPT !.wait = n].pid = r.pid
                   /\ [r EXCEPT !.wait = n].missing = r.missing
                   /\ [r EXCEPT !.wait = n].files = r.files
                   /\ [r EXCEPT !.wait = n].state = r.state
  BY DEF AddedRow, WokenRow, VerifiedRow, Row
--------------------------------------------------------------------------------
(***************************************************************************)
(* The decisions of a pass.                                                *)
(***************************************************************************)

\* A serving placement found for an unknown first submission is all there is.
LEMMA FoundAlone ==
  ASSUME NEW j \in Job, NEW p, PlacedOk(j, p), NEW m, NEW rec, NEW gl,
         Good(j, "SubmissionUnknown", 0, m, p, rec, gl),
         NEW id \in DOMAIN p, p[id] \in Serving
  PROVE  p[id] # "queued" /\ Live(p) \subseteq {id} /\ Ups(j, p) \subseteq {id}
<1>1. /\ p \in Seq(Placement)
      /\ \A b \in Base(j) : Ups(j, p) # {} => p[b] = "gone"
      /\ \A a, b \in Live(p) : a = b
  BY DEF PlacedOk
<1>2. /\ \A u \in Ups(j, p) : u # 0
      /\ id \in Base(j) \/ id \in Ups(j, p)
  BY <1>1, DomainFacts
<1>3. p[id] # "queued" /\ p[id] # "gone" /\ id \in Live(p)
  BY DEF Serving, Live, LiveState
<1>4. Ups(j, p) \subseteq {Len(p)}
  BY <1>2 DEF Good, Unsettled
<1>5. Ups(j, p) \subseteq {id}
  BY <1>1, <1>2, <1>3, <1>4
<1> QED
  BY <1>1, <1>3, <1>5

LEMMA GoodResolved ==
  ASSUME NEW j \in Job, NEW p, PlacedOk(j, p), NEW m, NEW rec, NEW gl \in Nat,
         Good(j, "SubmissionUnknown", 0, m, p, rec, gl),
         NEW id \in DOMAIN p, p[id] # "queued",
         Live(p) \subseteq {id}, Ups(j, p) \subseteq {id}
  PROVE  Good(j, "Downloading", id, m, p, rec \cup {id}, gl)
<1>1. DOMAIN p = 1 .. Len(p) /\ Len(p) \in Nat
  BY DomainFacts DEF PlacedOk
<1>2. m = 0
  BY DEF Good
<1> QED
  BY <1>1, <1>2 DEF Good, Moving, Unsettled

\* Adopting what the preflight found: nothing but what the account had is live.
LEMMA GoodAdopted ==
  ASSUME NEW j \in Job, NEW p, PlacedOk(j, p), NEW i, NEW m, NEW rec, NEW gl,
         Good(j, "Queued", i, m, p, rec, gl),
         NEW id \in DOMAIN p, p[id] \in Serving
  PROVE  Good(j, "Downloading", id, 0, p, rec \cup {id}, 0)
<1>1. DOMAIN p = 1 .. Len(p) /\ Len(p) \in Nat
  BY DomainFacts DEF PlacedOk
<1>2. p[id] # "queued" /\ id \in Live(p) /\ Live(p) \subseteq {id}
  BY DEF PlacedOk, Serving, Live, LiveState
<1>3. Ups(j, p) \subseteq rec
  BY DEF Good, Unsettled
<1> QED
  BY <1>1, <1>2, <1>3 DEF Good, Moving, Unsettled

\* An outcome that is not known, recorded before anything was uploaded.
LEMMA GoodUnanswered ==
  ASSUME NEW j \in Job, NEW p, NEW i, NEW m, NEW rec, NEW gl,
         Good(j, "Queued", i, m, p, rec, gl)
  PROVE  Good(j, "SubmissionUnknown", i, m, p, rec \cup {i}, IF m = 0 THEN 0 ELSE gl)
  BY DEF Good, Moving, Unsettled

\* After the upload: for the row that is still Submitting, ...
LEMMA GoodUploaded ==
  ASSUME NEW j \in Job, NEW p, PlacedOk(j, p), NEW i, NEW m, NEW rec, NEW gl, NEW gm,
         NEW n, NEW k, Good(j, "Submitting", i, m, p, rec, gl),
         Good(j, "Queued", n, k, p, rec, gm), Live(p) = {},
         NEW q \in Seq(Placement), Len(q) = Len(p) + 1, \A x \in DOMAIN p : q[x] = p[x],
         Live(q) \subseteq {Len(p) + 1}, Ups(j, q) \subseteq Ups(j, p) \cup {Len(p) + 1}
  PROVE  Good(j, "Submitting", i, m, q, rec, gl)
<1>1. p \in Seq(Placement) /\ DOMAIN p = 1 .. Len(p) /\ Len(p) \in Nat
  BY DEF PlacedOk
<1>2. i \in Nat /\ i <= Len(p) /\ (i # 0 => p[i] # "queued")
  BY DEF Good
<1>3. i <= Len(q) /\ i \notin Live(q) /\ (i # 0 => q[i] # "queued")
  BY <1>1, <1>2
<1>4. Ups(j, q) \subseteq rec \cup {Len(q)}
  BY DEF Good, Unsettled
<1>5. i = 0 => rec \subseteq {0} /\ m = 0
  BY DEF Good
<1> QED
  BY <1>2, <1>3, <1>4, <1>5 DEF Good, Moving, Unsettled

\* ... and for the outcome the worker goes on to write.
LEMMA GoodAccepted ==
  ASSUME NEW j \in Job, NEW p, PlacedOk(j, p), NEW i, NEW m, NEW rec, NEW gl,
         Good(j, "Queued", i, m, p, rec, gl),
         NEW q \in Seq(Placement), Len(q) = Len(p) + 1, q[Len(p) + 1] = "active",
         Live(q) \subseteq {Len(p) + 1}, Ups(j, q) \subseteq Ups(j, p) \cup {Len(p) + 1}
  PROVE  Good(j, "Downloading", Len(p) + 1, 0, q, rec \cup {Len(p) + 1}, 0)
<1>1. Len(p) \in Nat
  BY DEF PlacedOk
<1>2. Ups(j, p) \subseteq rec
  BY DEF Good, Unsettled
<1> QED
  BY <1>1, <1>2 DEF Good, Moving, Unsettled

LEMMA GoodLost ==
  ASSUME NEW j \in Job, NEW p, PlacedOk(j, p), NEW i, NEW m, NEW rec, NEW gl,
         Good(j, "Queued", i, m, p, rec, gl), Live(p) = {},
         NEW q \in Seq(Placement), Len(q) = Len(p) + 1, \A x \in DOMAIN p : q[x] = p[x],
         Live(q) \subseteq {Len(p) + 1}, Ups(j, q) \subseteq Ups(j, p) \cup {Len(p) + 1}
  PROVE  Good(j, "SubmissionUnknown", i, m, q, rec \cup {i}, IF m = 0 THEN 0 ELSE gl)
<1>1. p \in Seq(Placement) /\ DOMAIN p = 1 .. Len(p) /\ Len(p) \in Nat
  BY DEF PlacedOk
<1>2. i \in Nat /\ i <= Len(p) /\ (i # 0 => p[i] # "queued")
  BY DEF Good
<1>3. i <= Len(q) /\ i \notin Live(q) /\ (i # 0 => q[i] # "queued")
  BY <1>1, <1>2
<1>4. Ups(j, q) \subseteq rec \cup {Len(q)}
  BY DEF Good, Unsettled
<1>5. i = 0 => rec \subseteq {0} /\ m = 0
  BY DEF Good
<1> QED
  BY <1>2, <1>3, <1>4, <1>5 DEF Good, Moving, Unsettled

\* Every answer but an absence starts the count of absences again; ...
LEMMA GoodReset ==
  ASSUME NEW j \in Job, NEW p, NEW t \in Moving, NEW i, NEW m, NEW rec, NEW gl,
         Good(j, t, i, m, p, rec, gl), NEW s \in Moving \cup {"Failed"}
  PROVE  Good(j, s, i, 0, p, rec \cup {i}, 0)
<1>1. t \notin Unsettled /\ s \notin Unsettled /\ s \notin {"Absent", "Queued"}
  BY DEF Moving, Unsettled
<1>2. i # 0 /\ Live(p) \subseteq {i} /\ Ups(j, p) \subseteq rec
  BY <1>1 DEF Good
<1> QED
  BY <1>1, <1>2 DEF Good

\* ... a true one says that nothing of the job is live; ...
LEMMA GoodAbsent ==
  ASSUME NEW j \in Job, NEW p, NEW t \in Moving, NEW i, NEW m, NEW rec, NEW gl,
         Good(j, t, i, m, p, rec, gl), i \notin Live(p)
  PROVE  \A s \in {"Missing", "Failed", "Queued"} : \A n, gm :
           Good(j, s, i, n, p, rec \cup {i}, gm)
<1> SUFFICES ASSUME NEW s \in {"Missing", "Failed", "Queued"}, NEW n, NEW gm
             PROVE  Good(j, s, i, n, p, rec \cup {i}, gm)
  OBVIOUS
<1>1. t \notin Unsettled /\ s \notin Unsettled
  BY DEF Moving, Unsettled
<1>2. i # 0 /\ Live(p) = {} /\ Ups(j, p) \subseteq rec
  BY <1>1 DEF Good
<1>3. i \in Nat /\ i <= Len(p) /\ p[i] # "queued"
  BY <1>2 DEF Good
<1> QED
  BY <1>1, <1>2, <1>3 DEF Good

\* ... and a false one is counted, and too few of them confirm nothing.
LEMMA GoodFalse ==
  ASSUME NEW j \in Job, NEW p, NEW t \in Moving, NEW i, NEW m, NEW rec, NEW gl,
         Good(j, t, i, m, p, rec, gl), NEW n, NEW gm, n <= gm
  PROVE  Good(j, "Missing", i, n, p, rec \cup {i}, gm)
<1>1. t \notin Unsettled /\ "Missing" \notin Unsettled \cup {"Absent", "Queued"}
  BY DEF Moving, Unsettled
<1>2. i # 0 /\ Live(p) \subseteq {i} /\ Ups(j, p) \subseteq rec
  BY <1>1 DEF Good
<1> QED
  BY <1>1, <1>2 DEF Good
--------------------------------------------------------------------------------
(***************************************************************************)
(* The steps.                                                              *)
(***************************************************************************)

\* Job j is as its row says, before and after a step.
JobGood(j) ==
  PlacedOk(j, provider[j]) /\ GoodRow(j, row[j], provider[j], recorded[j], glitches[j])
NextGood(j) ==
  PlacedOk(j, provider'[j]) /\ GoodRow(j, row'[j], provider'[j], recorded'[j], glitches'[j])

LEMMA PassFacts ==
  ASSUME SoleInv, NEW w \in Worker, pc[w] \notin {"idle", "claim"}
  PROVE  /\ held[w] \in Job /\ copy[w] \in CopyType /\ row[held[w]] \in Row
         /\ glitches[held[w]] \in Nat /\ JobGood(held[w])
         /\ Holds(pc[w], held[w], copy[w], row[held[w]], provider[held[w]],
                  recorded[held[w]], glitches[held[w]])
  BY DEF SoleInv, TypeOK, JobsGood, JobGood, PassGood

\* The pass ends, ...
LEMMA PassEnds ==
  ASSUME TypeOK, NEW w \in Worker, Return(w)
  PROVE  PassGood(w)'
<1>1. pc'[w] = "idle"
  BY DEF TypeOK, Return
<1> QED
  BY <1>1 DEF PassGood

\* ... or goes on.
LEMMA PassGoes ==
  ASSUME TypeOK, NEW w \in Worker, NEW s, NEW j, NEW c, Goto(w, s, j, c),
         Holds(s, j, c, row'[j], provider'[j], recorded'[j], glitches'[j])
  PROVE  PassGood(w)'
<1>1. pc'[w] = s /\ held'[w] = j /\ copy'[w] = c
  BY DEF TypeOK, Goto
<1> QED
  BY <1>1 DEF PassGood

\* The job a statement is about is what counts; the others are left alone.
LEMMA JobsFrame ==
  ASSUME JobsGood, NEW i \in Job, NextGood(i),
         \A j \in Job \ {i} : /\ row'[j] = row[j] /\ provider'[j] = provider[j]
                              /\ recorded'[j] = recorded[j] /\ glitches'[j] = glitches[j]
  PROVE  JobsGood'
<1>1. \A j \in Job \ {i} : NextGood(j)
  BY DEF JobsGood, JobGood, NextGood
<1> QED
  BY <1>1 DEF JobsGood, JobGood, NextGood

LEMMA JobsSame ==
  ASSUME JobsGood, UNCHANGED <<rowVars, provider, history>>
  PROVE  JobsGood'
  BY DEF JobsGood, rowVars, history

LEMMA LookupSteps ==
  ASSUME SoleInv, NEW w \in Worker,
         \/ ClaimUnknownGatewayTorrent(w) \/ NoUnknownTorrent(w)
         \/ FindActive(w) \/ RecordUnknownGatewayLookup(w)
         \/ ResolveUnknownGatewayTorrent(w)
  PROVE  JobsGood' /\ PassGood(w)'
<1> DEFINE j == held[w]
           c == copy[w]
<1>0. TypeOK /\ JobsGood
  BY DEF SoleInv
<1>1. CASE ClaimUnknownGatewayTorrent(w)
  <2>1. PICK i \in Torrent :
          /\ UnknownDue(row[i])
          /\ row' = [row EXCEPT ![i].wait = Lease]
          /\ held' = [held EXCEPT ![w] = i]
    BY <1>1 DEF ClaimUnknownGatewayTorrent
  <2>2. i \in Job /\ row[i] \in Row /\ JobGood(i)
    BY <1>0 DEF Torrent, TypeOK, JobsGood, JobGood
  <2>3. /\ row'[i] = [row[i] EXCEPT !.wait = Lease]
        /\ \A k \in Job \ {i} : row'[k] = row[k]
        /\ UNCHANGED <<provider, recorded, glitches>>
    BY <1>0, <1>1, <2>1, <2>2 DEF TypeOK, ClaimUnknownGatewayTorrent, history
  <2>4. /\ row'[i].state = row[i].state /\ row'[i].pid = row[i].pid
        /\ row'[i].missing = row[i].missing
    BY <2>2, <2>3, EnvironmentFields
  <2>5. NextGood(i)
    BY <2>2, <2>3, <2>4 DEF JobGood, NextGood, GoodRow
  <2>6. JobsGood'
    BY <1>0, <2>2, <2>3, <2>5, JobsFrame
  <2>7. pc'[w] = "lookup" /\ held'[w] = i
    BY <1>0, <1>1, <2>1 DEF TypeOK, ClaimUnknownGatewayTorrent
  <2>8. row'[i].state = "SubmissionUnknown" /\ row'[i].pid = 0
    BY <2>1, <2>4 DEF UnknownDue
  <2> QED
    BY <2>6, <2>7, <2>8 DEF PassGood, Holds, BeforePost
<1>2. CASE NoUnknownTorrent(w)
  <2>1. pc'[w] = "claim"
    BY <1>0, <1>2 DEF TypeOK, NoUnknownTorrent
  <2>2. JobsGood'
    BY <1>0, <1>2, JobsSame DEF NoUnknownTorrent
  <2> QED
    BY <2>1, <2>2 DEF PassGood
<1>3. CASE FindActive(w)
  <2>1. PICK id \in ServingIds(j) : Goto(w, "resolve", j, [c EXCEPT !.pid = id])
    BY <1>3 DEF FindActive
  <2>2. /\ j \in Job /\ c \in CopyType /\ JobGood(j)
        /\ row[j].state = "SubmissionUnknown" /\ row[j].pid = 0
    BY <1>3, PassFacts DEF FindActive, Holds
  <2>3. id \in DOMAIN provider[j] /\ provider[j][id] \in Serving
    BY <2>1 DEF ServingIds, Placements
  <2>4. /\ provider[j][id] # "queued" /\ Live(provider[j]) \subseteq {id}
        /\ Ups(j, provider[j]) \subseteq {id}
    BY <2>2, <2>3, FoundAlone DEF JobGood, NextGood, GoodRow
  <2>5. [c EXCEPT !.pid = id].pid = id
    BY <2>2 DEF CopyType
  <2>6. JobsGood' /\ UNCHANGED <<row, provider, recorded, glitches>>
    BY <1>0, <1>3, JobsSame DEF FindActive, rowVars, history
  <2>7. Holds("resolve", j, [c EXCEPT !.pid = id], row'[j], provider'[j], recorded'[j],
              glitches'[j])
    BY <2>2, <2>3, <2>4, <2>5, <2>6 DEF Holds, BeforePost
  <2> QED
    BY <1>0, <2>1, <2>6, <2>7, PassGoes
<1>4. CASE RecordUnknownGatewayLookup(w)
  BY <1>0, <1>4, JobsSame, PassEnds DEF RecordUnknownGatewayLookup
<1>5. CASE ResolveUnknownGatewayTorrent(w)
  <2> DEFINE p == provider[j]
  <2>1. /\ j \in Job /\ row[j] \in Row /\ glitches[j] \in Nat /\ JobGood(j)
        /\ row[j].state = "SubmissionUnknown" /\ row[j].pid = 0
        /\ c.pid \in DOMAIN p /\ p[c.pid] # "queued"
        /\ Live(p) \subseteq {c.pid} /\ Ups(j, p) \subseteq {c.pid}
    BY <1>5, PassFacts DEF ResolveUnknownGatewayTorrent, Holds
  <2>2. Good(j, "Downloading", c.pid, row[j].missing, p, recorded[j] \cup {c.pid}, glitches[j])
    BY <2>1, GoodResolved DEF JobGood, NextGood, GoodRow
  <2>3. /\ row' = [row EXCEPT ![j] = ResolvedRow(@, c.pid)]
        /\ recorded' = [recorded EXCEPT ![j] = @ \cup {row'[j].pid}]
        /\ UNCHANGED <<provider, glitches>>
    BY <1>5 DEF ResolveUnknownGatewayTorrent
  <2>4. /\ row'[j] = ResolvedRow(row[j], c.pid)
        /\ \A k \in Job \ {j} : row'[k] = row[k] /\ recorded'[k] = recorded[k]
        /\ recorded'[j] = recorded[j] \cup {row'[j].pid}
    BY <1>0, <2>1, <2>3 DEF TypeOK
  <2>5. /\ row'[j].state = "Downloading" /\ row'[j].pid = c.pid
        /\ row'[j].missing = row[j].missing
    BY <2>1, <2>4 DEF ResolvedRow, Row
  <2>6. NextGood(j)
    BY <2>1, <2>2, <2>3, <2>4, <2>5 DEF JobGood, NextGood, GoodRow
  <2>7. JobsGood'
    BY <1>0, <2>1, <2>3, <2>4, <2>6, JobsFrame
  <2> QED
    BY <1>0, <1>5, <2>7, PassEnds DEF ResolveUnknownGatewayTorrent
<1> QED
  BY <1>1, <1>2, <1>3, <1>4, <1>5

\* The sweep of a claim only turns an interrupted submission into an unknown
\* one and fails a queued job; a queued job is then claimed as Submitting.
LEMMA SweptGood ==
  ASSUME NEW j, NEW r \in Row, NEW p, NEW rec, NEW gl, GoodRow(j, r, p, rec, gl)
  PROVE  GoodRow(j, Swept(r), p, rec, gl)
<1>1. /\ Swept(r).pid = r.pid /\ Swept(r).missing = r.missing
      /\ \/ Swept(r).state = r.state
         \/ r.state = "Submitting" /\ Swept(r).state = "SubmissionUnknown"
         \/ r.state = "Queued" /\ Swept(r).state = "Failed"
  BY SweptFields
<1>2. Good(j, Swept(r).state, r.pid, r.missing, p, rec, gl)
  BY <1>1, GoodState DEF GoodRow
<1> QED
  BY <1>1, <1>2 DEF GoodRow

LEMMA ClaimedGood ==
  ASSUME NEW j, NEW r \in Row, NEW p, NEW rec, NEW gl, GoodRow(j, r, p, rec, gl)
  PROVE  GoodRow(j, ClaimedRow(r), p, rec, gl)
<1>1. /\ ClaimedRow(r).pid = r.pid /\ ClaimedRow(r).missing = r.missing
      /\ ClaimedRow(r).state = IF r.state = "Queued" THEN "Submitting" ELSE r.state
  BY ClaimedFields
<1>2. Good(j, ClaimedRow(r).state, r.pid, r.missing, p, rec, gl)
  BY <1>1, GoodState DEF GoodRow
<1> QED
  BY <1>1, <1>2 DEF GoodRow

\* A row in none of the parked states and on the table is queued or moving.
LEMMA ClaimableState ==
  ASSUME NEW r \in Row, NEW open, Claimable(r, open), r.state # "Queued"
  PROVE  r.state \in Moving
  BY DEF Claimable, Row, JobState, Parked, Moving

\* Nothing of an NZB job is on the account before its first upload.
LEMMA UsenetBase == \A j \in Usenet : Base(j) = {}
  BY WorkerConstants DEF Base

LEMMA ClaimStep ==
  ASSUME SoleInv, NEW w \in Worker, ClaimGatewayJob(w)
  PROVE  JobsGood' /\ PassGood(w)'
<1> DEFINE swept == [j \in Job |-> Swept(row[j])]
<1>0. TypeOK /\ JobsGood /\ UNCHANGED <<provider, recorded, glitches>>
  BY DEF SoleInv, ClaimGatewayJob, history
<1>1. \A j \in Job : /\ row[j] \in Row /\ swept[j] \in Row /\ PlacedOk(j, provider[j])
                     /\ GoodRow(j, swept[j], provider[j], recorded[j], glitches[j])
  BY <1>0, SweptGood, SweptTypes DEF TypeOK, JobsGood
<1>2. swept \in [Job -> Row]
  BY <1>1
<1>3. \/ \E j \in Job :
          /\ Claimable(swept[j], gate = 0)
          /\ row' = [swept EXCEPT ![j] = ClaimedRow(@)]
          /\ IF swept[j].state = "Queued"
             THEN /\ gate' = SubmitInterval
                  /\ Goto(w, IF j \in Usenet THEN "post" ELSE "preflight", j,
                          [CopyOf(swept[j]) EXCEPT !.attempts = @ + 1])
             ELSE /\ UNCHANGED gate
                  /\ Goto(w, "poll", j, CopyOf(swept[j]))
      \/ row' = swept /\ Return(w)
  BY DEF ClaimGatewayJob
<1> HIDE DEF swept
<1>4. CASE row' = swept /\ Return(w)
  <2>1. JobsGood'
    BY <1>0, <1>1, <1>4 DEF JobsGood
  <2> QED
    BY <1>0, <1>4, <2>1, PassEnds
<1>5. ASSUME NEW j \in Job, Claimable(swept[j], gate = 0),
             row' = [swept EXCEPT ![j] = ClaimedRow(@)],
             IF swept[j].state = "Queued"
             THEN Goto(w, IF j \in Usenet THEN "post" ELSE "preflight", j,
                       [CopyOf(swept[j]) EXCEPT !.attempts = @ + 1])
             ELSE Goto(w, "poll", j, CopyOf(swept[j]))
      PROVE  JobsGood' /\ PassGood(w)'
  <2> DEFINE p == provider[j]
             n == [CopyOf(swept[j]) EXCEPT !.attempts = @ + 1]
  <2>1. row'[j] = ClaimedRow(swept[j]) /\ \A k \in Job \ {j} : row'[k] = swept[k]
    BY <1>2, <1>5
  <2>2. GoodRow(j, ClaimedRow(swept[j]), p, recorded[j], glitches[j])
    BY <1>1, ClaimedGood
  <2>3. JobsGood'
    BY <1>0, <1>1, <2>1, <2>2 DEF JobsGood
  <2>4. CASE swept[j].state = "Queued"
    <3>1. Goto(w, IF j \in Usenet THEN "post" ELSE "preflight", j, n)
      BY <1>5, <2>4
    <3>2. n.state = "Queued" /\ n.pid = swept[j].pid /\ n.missing = swept[j].missing
      BY <1>1, <2>4, CopyOfFields
    <3>3. row'[j].state = "Submitting"
      BY <1>1, <2>1, <2>4, ClaimedFields
    <3>4. GoodRow(j, n, p, recorded[j], glitches[j]) /\ Live(p) \subseteq Base(j)
      BY <1>1, <2>4, <3>2 DEF GoodRow, Good
    <3>5. CASE j \in Usenet
      <4>1. Base(j) = {} /\ Live(p) = {}
        BY <3>4, <3>5, UsenetBase
      <4>2. Holds("post", j, n, row'[j], provider'[j], recorded'[j], glitches'[j])
        BY <1>0, <3>2, <3>3, <3>4, <4>1 DEF Holds, BeforePost
      <4>3. Goto(w, "post", j, n)
        BY <3>1, <3>5
      <4> HIDE DEF n
      <4> QED
        BY <1>0, <2>3, <4>2, <4>3, PassGoes
    <3>6. CASE j \notin Usenet
      <4>1. Holds("preflight", j, n, row'[j], provider'[j], recorded'[j], glitches'[j])
        BY <1>0, <3>2, <3>3, <3>4 DEF Holds, BeforePost
      <4>2. Goto(w, "preflight", j, n)
        BY <3>1, <3>6
      <4> HIDE DEF n
      <4> QED
        BY <1>0, <2>3, <4>1, <4>2, PassGoes
    <3> QED
      BY <3>5, <3>6
  <2>5. CASE swept[j].state # "Queued"
    <3> DEFINE m == CopyOf(swept[j])
    <3>1. Goto(w, "poll", j, m)
      BY <1>5, <2>5
    <3>2. m.state = swept[j].state /\ m.pid = swept[j].pid /\ m.missing = swept[j].missing
      BY <1>1, CopyOfFields
    <3>3. m.state \in Moving /\ GoodRow(j, m, p, recorded[j], glitches[j])
      BY <1>1, <1>5, <2>5, <3>2, ClaimableState DEF GoodRow
    <3>4. Holds("poll", j, m, row'[j], provider'[j], recorded'[j], glitches'[j])
      BY <1>0, <3>3 DEF Holds, BeforePost
    <3> HIDE DEF m
    <3> QED
      BY <1>0, <2>3, <3>1, <3>4, PassGoes
  <2> QED
    BY <2>4, <2>5
<1> QED
  BY <1>3, <1>4, <1>5

\* A preflight that finds nothing to adopt or to wait for.
LEMMA NothingLeft ==
  ASSUME NEW j \in Job, NEW p, PlacedOk(j, p), Live(p) \subseteq Base(j),
         \A id \in DOMAIN p : p[id] \notin Serving \cup {"failed", "evicted"}
  PROVE  Live(p) = {} /\ \A id \in Base(j) : p[id] = "gone"
<1>1. \A id \in Base(j) : id \in DOMAIN p /\ p[id] # "queued" /\ p[id] \in Placement
  BY DEF PlacedOk
<1>2. \A id \in Base(j) : p[id] = "gone"
  BY <1>1 DEF Serving, Placement
<1> QED
  BY <1>1, <1>2 DEF Live, LiveState, Serving

LEMMA PreflightStep ==
  ASSUME SoleInv, NEW w \in Worker, Preflight(w)
  PROVE  JobsGood' /\ PassGood(w)'
<1> DEFINE j == held[w]
           c == copy[w]
           p == provider[j]
<1>0. TypeOK /\ JobsGood
  BY DEF SoleInv
<1>1. /\ pc[w] = "preflight" /\ UNCHANGED <<rowVars, provider, history>>
      /\ \/ Goto(w, "write", j, Unanswered(c))
         \/ Goto(w, "defer", j, c)
         \/ \E id \in ServingIds(j) : Goto(w, "write", j, Accepted(c, id))
         \/ ServingIds(j) \cup StaleIds(j) = {} /\ Goto(w, "post", j, c)
  BY DEF Preflight
<1>2. /\ j \in Job /\ c \in CopyType /\ PlacedOk(j, p)
      /\ row[j].state = "Submitting" /\ c.state = "Queued"
      /\ GoodRow(j, c, p, recorded[j], glitches[j])
  BY <1>1, PassFacts DEF Holds, BeforePost, JobGood
<1>3. Good(j, "Queued", c.pid, c.missing, p, recorded[j], glitches[j])
  BY <1>2 DEF GoodRow
<1>4. JobsGood' /\ UNCHANGED <<row, provider, recorded, glitches>>
  BY <1>0, <1>1, JobsSame DEF rowVars, history
<1>5. CASE Goto(w, "write", j, Unanswered(c))
  <2> DEFINE d == Unanswered(c)
  <2>1. d.state = "SubmissionUnknown" /\ d.pid = c.pid /\ d.missing = c.missing
    BY <1>2, OutcomeFields
  <2>2. WriteGood(j, d, p, recorded[j], glitches[j])
    BY <1>2, <1>3, <2>1, GoodUnanswered DEF WriteGood
  <2> HIDE DEF d
  <2>3. Holds("write", j, d, row'[j], provider'[j], recorded'[j], glitches'[j])
    BY <1>4, <2>2 DEF Holds, BeforePost
  <2> QED
    BY <1>0, <1>4, <1>5, <2>3, PassGoes DEF d
<1>6. CASE Goto(w, "defer", j, c)
  <2>1. Holds("defer", j, c, row'[j], provider'[j], recorded'[j], glitches'[j])
    BY <1>2, <1>4 DEF Holds, BeforePost
  <2> QED
    BY <1>0, <1>4, <1>6, <2>1, PassGoes
<1>7. ASSUME NEW id \in ServingIds(j), Goto(w, "write", j, Accepted(c, id))
      PROVE  PassGood(w)'
  <2> DEFINE d == Accepted(c, id)
  <2>1. id \in DOMAIN p /\ p[id] \in Serving
    BY DEF ServingIds, Placements
  <2>2. d.state = "Downloading" /\ d.pid = id /\ d.missing = 0
    BY <1>2, OutcomeFields
  <2>3. Good(j, "Downloading", id, 0, p, recorded[j] \cup {id}, 0)
    BY <1>2, <1>3, <2>1, GoodAdopted
  <2>4. WriteGood(j, d, p, recorded[j], glitches[j])
    BY <2>2, <2>3 DEF WriteGood
  <2> HIDE DEF d
  <2>5. Holds("write", j, d, row'[j], provider'[j], recorded'[j], glitches'[j])
    BY <1>4, <2>4 DEF Holds, BeforePost
  <2> QED
    BY <1>0, <1>7, <2>5, PassGoes DEF d
<1>8. CASE ServingIds(j) \cup StaleIds(j) = {} /\ Goto(w, "post", j, c)
  <2>1. \A id \in DOMAIN p : p[id] \notin Serving \cup {"failed", "evicted"}
    BY <1>8 DEF ServingIds, StaleIds, Placements
  <2>2. Live(p) \subseteq Base(j)
    BY <1>3 DEF Good
  <2>3. Live(p) = {} /\ \A id \in Base(j) : p[id] = "gone"
    BY <1>2, <2>1, <2>2, NothingLeft
  <2>4. Holds("post", j, c, row'[j], provider'[j], recorded'[j], glitches'[j])
    BY <1>2, <1>4, <2>3 DEF Holds, BeforePost
  <2> QED
    BY <1>0, <1>4, <1>8, <2>4, PassGoes
<1> QED
  BY <1>1, <1>4, <1>5, <1>6, <1>7, <1>8

\* Giving the attempt back leaves nothing but a queued job.
LEMMA DeferStep ==
  ASSUME SoleInv, NEW w \in Worker, DeferGatewaySubmission(w)
  PROVE  JobsGood' /\ PassGood(w)'
<1> DEFINE j == held[w]
           c == copy[w]
           p == provider[j]
<1>0. TypeOK /\ JobsGood
  BY DEF SoleInv
<1>1. /\ pc[w] = "defer" /\ row' = [row EXCEPT ![j] = DeferredRow(@)] /\ Return(w)
      /\ UNCHANGED <<provider, recorded, glitches>>
  BY DEF DeferGatewaySubmission, history
<1>2. /\ j \in Job /\ row[j] \in Row /\ JobGood(j)
      /\ row[j].state = "Submitting" /\ c.state = "Queued"
      /\ GoodRow(j, c, p, recorded[j], glitches[j])
  BY <1>1, PassFacts DEF Holds, BeforePost
<1>3. row'[j] = DeferredRow(row[j]) /\ \A k \in Job \ {j} : row'[k] = row[k]
  BY <1>0, <1>1, <1>2 DEF TypeOK
<1>4. /\ row'[j].state = "Queued" /\ row'[j].pid = row[j].pid
      /\ row'[j].missing = row[j].missing
  BY <1>2, <1>3 DEF DeferredRow, Row
<1>5. Live(p) \subseteq Base(j) /\ Ups(j, p) \subseteq recorded[j]
  BY <1>2 DEF GoodRow, Good, Unsettled
<1>6. Good(j, "Queued", row[j].pid, row[j].missing, p, recorded[j], glitches[j])
  BY <1>2, <1>5 DEF JobGood, GoodRow, Good, Moving, Unsettled
<1>7. NextGood(j)
  BY <1>1, <1>2, <1>4, <1>6 DEF JobGood, NextGood, GoodRow
<1>8. JobsGood'
  BY <1>0, <1>1, <1>2, <1>3, <1>7, JobsFrame
<1> QED
  BY <1>0, <1>1, <1>8, PassEnds

LEMMA PostStep ==
  ASSUME SoleInv, NEW w \in Worker, Post(w)
  PROVE  JobsGood' /\ PassGood(w)'
<1> DEFINE j == held[w]
           c == copy[w]
           p == provider[j]
           q == provider'[j]
<1>0. TypeOK /\ JobsGood /\ UNCHANGED <<row, recorded, glitches>>
  BY DEF SoleInv, Post, rowVars, history
<1>1. PICK outcome \in {"active", "queued", "gone"} :
        /\ provider' = [provider EXCEPT ![j] = Append(@, outcome)]
        /\ \/ outcome = "active" /\ Goto(w, "write", j, Accepted(c, Len(p) + 1))
           \/ Goto(w, "write", j, Unanswered(c))
  BY DEF Post
<1>2. /\ j \in Job /\ c \in CopyType /\ PlacedOk(j, p) /\ JobGood(j)
      /\ row[j].state = "Submitting" /\ c.state = "Queued"
      /\ GoodRow(j, c, p, recorded[j], glitches[j])
      /\ Live(p) = {} /\ \A id \in Base(j) : p[id] = "gone"
  BY PassFacts DEF Post, Holds, BeforePost, JobGood
<1>3. q = Append(p, outcome) /\ \A k \in Job \ {j} : provider'[k] = provider[k]
  BY <1>0, <1>1, <1>2 DEF TypeOK
<1>4. /\ PlacedOk(j, q) /\ Len(q) = Len(p) + 1
      /\ q[Len(p) + 1] = outcome /\ \A i \in DOMAIN p : q[i] = p[i]
      /\ Live(q) \subseteq {Len(p) + 1}
      /\ Ups(j, q) \subseteq Ups(j, p) \cup {Len(p) + 1}
  <2>1. Spent(j, p)
    BY <1>2 DEF Spent
  <2>2. Uploaded(j, p, Append(p, outcome), outcome)
    BY <1>2, <2>1, UploadChange
  <2> QED
    BY <1>3, <2>2 DEF Uploaded
<1>5. q \in Seq(Placement)
  BY <1>4 DEF PlacedOk
<1>6. /\ Good(j, "Queued", c.pid, c.missing, p, recorded[j], glitches[j])
      /\ Good(j, "Submitting", row[j].pid, row[j].missing, p, recorded[j], glitches[j])
  BY <1>2 DEF JobGood, GoodRow
<1> HIDE DEF q
<1>7. Good(j, "Submitting", row[j].pid, row[j].missing, q, recorded[j], glitches[j])
  BY <1>2, <1>4, <1>5, <1>6, GoodUploaded
<1>8. NextGood(j)
  BY <1>0, <1>2, <1>4, <1>7 DEF NextGood, GoodRow, q
<1>9. JobsGood'
  BY <1>0, <1>2, <1>3, <1>8, JobsFrame
<1>10. CASE outcome = "active" /\ Goto(w, "write", j, Accepted(c, Len(p) + 1))
  <2> DEFINE d == Accepted(c, Len(p) + 1)
  <2>1. d.state = "Downloading" /\ d.pid = Len(p) + 1 /\ d.missing = 0
    BY <1>2, OutcomeFields
  <2>2. Good(j, "Downloading", Len(p) + 1, 0, q, recorded[j] \cup {Len(p) + 1}, 0)
    BY <1>2, <1>4, <1>5, <1>6, <1>10, GoodAccepted
  <2>3. WriteGood(j, d, q, recorded[j], glitches[j])
    BY <2>1, <2>2 DEF WriteGood
  <2> HIDE DEF d
  <2>4. Holds("write", j, d, row'[j], provider'[j], recorded'[j], glitches'[j])
    BY <1>0, <2>3 DEF Holds, BeforePost, q
  <2> QED
    BY <1>0, <1>9, <1>10, <2>4, PassGoes DEF d
<1>11. CASE Goto(w, "write", j, Unanswered(c))
  <2> DEFINE d == Unanswered(c)
  <2>1. d.state = "SubmissionUnknown" /\ d.pid = c.pid /\ d.missing = c.missing
    BY <1>2, OutcomeFields
  <2>2. Good(j, "SubmissionUnknown", c.pid, c.missing, q, recorded[j] \cup {c.pid},
             IF c.missing = 0 THEN 0 ELSE glitches[j])
    <3>1. j \in Job /\ PlacedOk(j, p) /\ Live(p) = {}
      BY <1>2
    <3>2. Good(j, "Queued", c.pid, c.missing, p, recorded[j], glitches[j])
      BY <1>6
    <3> QED
      BY <1>4, <1>5, <3>1, <3>2, GoodLost
  <2>3. WriteGood(j, d, q, recorded[j], glitches[j])
    BY <2>1, <2>2 DEF WriteGood
  <2> HIDE DEF d
  <2>4. Holds("write", j, d, row'[j], provider'[j], recorded'[j], glitches'[j])
    BY <1>0, <2>3 DEF Holds, BeforePost, q
  <2> QED
    BY <1>0, <1>9, <1>11, <2>4, PassGoes DEF d
<1> QED
  BY <1>1, <1>10, <1>11

\* The fields of the decisions on a poll.
LEMMA DecisionFields ==
  ASSUME NEW c \in CopyType
  PROVE  /\ AfterAbsence(c).pid = c.pid /\ AfterAbsence(c).files = c.files
         /\ AfterAbsence(c).missing = (IF c.missing < MissingThreshold THEN c.missing + 1
                                       ELSE c.missing)
         /\ AfterAbsence(c).state \in {"Missing", "Failed", "Queued"}
         /\ c.missing + 1 < MissingThreshold => AfterAbsence(c).state = "Missing"
         /\ \A f \in Catalog :
              /\ AfterReady(c, f).pid = c.pid /\ AfterReady(c, f).missing = 0
              /\ AfterReady(c, f).state \in Moving \cup {"Failed"}
<1>1. /\ AfterAbsence(c).pid = c.pid /\ AfterAbsence(c).files = c.files
      /\ AfterAbsence(c).missing = (IF c.missing < MissingThreshold THEN c.missing + 1
                                    ELSE c.missing)
  BY DEF AfterAbsence, CopyType
<1>2. AfterAbsence(c).state \in {"Missing", "Failed", "Queued"}
  BY DEF AfterAbsence, CopyType
<1>3. ASSUME c.missing + 1 < MissingThreshold PROVE AfterAbsence(c).state = "Missing"
  <2>1. c.missing < MissingThreshold
    BY <1>3, RowConstants DEF CopyType
  <2> QED
    BY <1>3, <2>1 DEF AfterAbsence, CopyType
<1>4. ASSUME NEW f \in Catalog
      PROVE  /\ AfterReady(c, f).pid = c.pid /\ AfterReady(c, f).missing = 0
             /\ AfterReady(c, f).state \in Moving \cup {"Failed"}
  BY DEF AfterReady, CopyType, Moving
<1> QED
  BY <1>1, <1>2, <1>3, <1>4

\* One more false absence only widens what a row may say.
LEMMA GoodWider ==
  ASSUME NEW j, NEW s, NEW id, NEW m \in Nat, NEW p, NEW rec, NEW gl \in Nat,
         Good(j, s, id, m, p, rec, gl), NEW gm \in Nat, gl <= gm
  PROVE  Good(j, s, id, m, p, rec, gm)
<1>1. m <= gl \/ id \notin Live(p)
  BY DEF Good
<1>2. m <= gm \/ id \notin Live(p)
  BY <1>1
<1> QED
  BY <1>2 DEF Good

LEMMA PollDecides ==
  ASSUME SoleInv, NEW w \in Worker, pc[w] = "poll",
         UNCHANGED <<rowVars, provider, recorded>>, NEW d,
         Goto(w, "write", held[w], d),
         \/ UNCHANGED glitches
         \/ glitches' = [glitches EXCEPT ![held[w]] = @ + 1],
         WriteGood(held[w], d, provider[held[w]], recorded[held[w]], glitches'[held[w]])
  PROVE  JobsGood' /\ PassGood(w)'
<1> DEFINE j == held[w]
<1>0. TypeOK /\ JobsGood /\ UNCHANGED row
  BY DEF SoleInv, rowVars
<1>1. /\ j \in Job /\ row[j] \in Row /\ glitches[j] \in Nat /\ JobGood(j)
  BY PassFacts
<1>2. /\ glitches'[j] \in Nat /\ glitches[j] <= glitches'[j]
      /\ \A k \in Job \ {j} : glitches'[k] = glitches[k]
  BY <1>0, <1>1 DEF TypeOK
<1>3. row[j].missing \in Nat
  BY <1>1 DEF Row
<1>4. Good(j, row[j].state, row[j].pid, row[j].missing, provider[j], recorded[j], glitches'[j])
  BY <1>1, <1>2, <1>3, GoodWider DEF JobGood, GoodRow
<1>5. NextGood(j)
  BY <1>0, <1>1, <1>4 DEF JobGood, NextGood, GoodRow
<1>6. JobsGood'
  BY <1>0, <1>1, <1>2, <1>5, JobsFrame
<1>7. Holds("write", j, d, row'[j], provider'[j], recorded'[j], glitches'[j])
  BY DEF Holds, BeforePost
<1> QED
  BY <1>0, <1>6, <1>7, PassGoes

LEMMA PollStep ==
  ASSUME SoleInv, NEW w \in Worker, Poll(w)
  PROVE  JobsGood' /\ PassGood(w)'
<1> DEFINE j == held[w]
           c == copy[w]
           p == provider[j]
           status == StatusOf(j, c.pid)
           reset == [c EXCEPT !.missing = 0, !.delay = Lease]
           failed == [c EXCEPT !.state = "Failed", !.missing = 0, !.delay = Lease]
           active == [c EXCEPT !.state = "Downloading", !.missing = 0, !.delay = 0]
<1>1. /\ pc[w] = "poll" /\ UNCHANGED <<rowVars, provider, recorded>>
      /\ \/ Goto(w, "write", j, reset) /\ UNCHANGED glitches
         \/ Goto(w, "write", j, failed) /\ UNCHANGED glitches
         \/ /\ status \in {"queued", "evicted", "gone"}
            /\ Goto(w, "write", j, AfterAbsence(c)) /\ UNCHANGED glitches
         \/ FalseAbsence(j) /\ Goto(w, "write", j, AfterAbsence(c))
         \/ Goto(w, "write", j, active) /\ UNCHANGED glitches
         \/ \E f \in Catalog : Goto(w, "write", j, AfterReady(c, f)) /\ UNCHANGED glitches
  BY DEF Poll
<1>2. /\ TypeOK /\ j \in Job /\ c \in CopyType /\ PlacedOk(j, p) /\ glitches[j] \in Nat
      /\ c.state \in Moving
      /\ Good(j, c.state, c.pid, c.missing, p, recorded[j], glitches[j])
  BY <1>1, PassFacts DEF SoleInv, Holds, BeforePost, JobGood, GoodRow
<1>3. ASSUME NEW d, Goto(w, "write", j, d), UNCHANGED glitches,
             d.state \in Moving \cup {"Failed"}, d.pid = c.pid, d.missing = 0
      PROVE  JobsGood' /\ PassGood(w)'
  <2>1. WriteGood(j, d, p, recorded[j], glitches'[j])
    BY <1>2, <1>3, GoodReset DEF WriteGood
  <2> QED
    BY <1>1, <1>3, <2>1, PollDecides
<1>4. /\ reset.state = c.state /\ reset.pid = c.pid /\ reset.missing = 0
      /\ failed.state = "Failed" /\ failed.pid = c.pid /\ failed.missing = 0
      /\ active.state = "Downloading" /\ active.pid = c.pid /\ active.missing = 0
  BY <1>2 DEF CopyType
<1> HIDE DEF reset, failed, active
<1>5. CASE \/ Goto(w, "write", j, reset) /\ UNCHANGED glitches
           \/ Goto(w, "write", j, failed) /\ UNCHANGED glitches
           \/ Goto(w, "write", j, active) /\ UNCHANGED glitches
  BY <1>2, <1>3, <1>4, <1>5 DEF Moving
<1>6. ASSUME NEW f \in Catalog, Goto(w, "write", j, AfterReady(c, f)), UNCHANGED glitches
      PROVE  JobsGood' /\ PassGood(w)'
  BY <1>2, <1>3, <1>6, DecisionFields
<1> DEFINE absent == AfterAbsence(c)
<1>7. /\ absent.pid = c.pid /\ absent.state \in {"Missing", "Failed", "Queued"}
      /\ absent.missing = IF c.missing < MissingThreshold THEN c.missing + 1 ELSE c.missing
      /\ c.missing + 1 < MissingThreshold => absent.state = "Missing"
  BY <1>2, DecisionFields
<1> HIDE DEF absent
<1>8. CASE ~(c.pid \in Live(p)) /\ Goto(w, "write", j, absent)
           /\ (UNCHANGED glitches \/ glitches' = [glitches EXCEPT ![j] = @ + 1])
  <2>1. \A s \in {"Missing", "Failed", "Queued"} : \A n, gm :
          Good(j, s, c.pid, n, p, recorded[j] \cup {c.pid}, gm)
    <3>1. c.pid \notin Live(p)
      BY <1>8
    <3>2. c.state \in Moving /\ Good(j, c.state, c.pid, c.missing, p, recorded[j], glitches[j])
      BY <1>2
    <3> QED
      BY <1>2, <3>1, <3>2, GoodAbsent, Z3
  <2>2. WriteGood(j, absent, p, recorded[j], glitches'[j])
    BY <1>7, <2>1 DEF WriteGood
  <2> QED
    BY <1>1, <1>8, <2>2, PollDecides
<1>9. CASE /\ status \in {"queued", "evicted", "gone"}
           /\ Goto(w, "write", j, absent) /\ UNCHANGED glitches
  <2>1. c.pid \in Nat /\ c.pid <= Len(p) /\ c.pid # 0 /\ p[c.pid] # "queued"
    BY <1>2 DEF Good
  <2>2. c.pid \in DOMAIN p
    BY <1>2, <2>1, DomainFacts DEF PlacedOk
  <2>3. p[c.pid] \in {"evicted", "gone"}
    BY <1>9, <2>1, <2>2 DEF StatusOf, Placements
  <2>4. c.pid \notin Live(p)
    BY <2>3 DEF Live, LiveState, Serving
  <2> QED
    BY <1>8, <1>9, <2>4
<1>10. CASE FalseAbsence(j) /\ Goto(w, "write", j, absent)
  <2>1. /\ glitches' = [glitches EXCEPT ![j] = @ + 1]
        /\ glitches'[j] = glitches[j] + 1 /\ glitches[j] + 1 < MissingThreshold
    BY <1>2, <1>10 DEF FalseAbsence, TypeOK
  <2>2. CASE c.pid \notin Live(p)
    BY <1>8, <1>10, <2>1, <2>2
  <2>3. CASE c.pid \in Live(p)
    <3>1. c.missing \in Nat /\ c.missing <= glitches[j]
      BY <1>2, <2>3 DEF Good, CopyType
    <3>2. c.missing < MissingThreshold /\ c.missing + 1 < MissingThreshold
      BY <1>2, <2>1, <3>1, RowConstants
    <3>3. /\ absent.state = "Missing" /\ absent.missing # 0
          /\ absent.missing <= glitches'[j]
      BY <1>2, <1>7, <2>1, <3>1, <3>2
    <3>4. WriteGood(j, absent, p, recorded[j], glitches'[j])
      BY <1>2, <1>7, <3>3, GoodFalse DEF WriteGood
    <3> QED
      BY <1>1, <1>10, <2>1, <3>4, PollDecides
  <2> QED
    BY <2>2, <2>3
<1> QED
  BY <1>1, <1>5, <1>6, <1>9, <1>10 DEF absent

LEMMA UpdateStep ==
  ASSUME SoleInv, NEW w \in Worker, UpdateGatewayJob(w)
  PROVE  JobsGood' /\ PassGood(w)'
<1> DEFINE j == held[w]
           c == copy[w]
           p == provider[j]
           gl == IF c.missing = 0 THEN 0 ELSE glitches[j]
           r == UpdatedRow(row[j], c, c.delay)
<1>0. TypeOK /\ JobsGood
  BY DEF SoleInv
<1>1. /\ pc[w] = "write" /\ Return(w) /\ UNCHANGED provider
      /\ row' = [row EXCEPT ![j] = r]
      /\ recorded' = [recorded EXCEPT ![j] = @ \cup {c.pid}]
      /\ glitches' = IF c.missing = 0 THEN [glitches EXCEPT ![j] = 0] ELSE glitches
  BY DEF UpdateGatewayJob
<1>2. /\ j \in Job /\ row[j] \in Row /\ JobGood(j)
      /\ WriteGood(j, c, p, recorded[j], glitches[j])
  BY <1>1, PassFacts DEF Holds, BeforePost
<1>3. /\ row'[j] = r /\ recorded'[j] = recorded[j] \cup {c.pid} /\ glitches'[j] = gl
      /\ \A k \in Job \ {j} : /\ row'[k] = row[k] /\ recorded'[k] = recorded[k]
                              /\ glitches'[k] = glitches[k]
  BY <1>0, <1>1, <1>2 DEF TypeOK
<1>4. /\ r.pid = c.pid /\ r.missing = c.missing
      /\ r.state = c.state \/ (c.state = "Mounting" /\ r.state = "Completed")
  BY <1>2, UpdatedFields
<1>5. Good(j, c.state, c.pid, c.missing, p, recorded[j] \cup {c.pid}, gl)
  BY <1>2 DEF WriteGood
<1> HIDE DEF r, gl
<1>6. Good(j, r.state, c.pid, c.missing, p, recorded[j] \cup {c.pid}, gl)
  BY <1>4, <1>5, GoodState
<1>7. NextGood(j)
  BY <1>1, <1>2, <1>3, <1>4, <1>6 DEF JobGood, NextGood, GoodRow
<1>8. JobsGood'
  BY <1>0, <1>1, <1>2, <1>3, <1>7, JobsFrame
<1> QED
  BY <1>0, <1>1, <1>8, PassEnds

\* A step of a worker, when no other worker runs.
LEMMA WorkerStep ==
  ASSUME SoleInv, SoleWorker, NEW w \in Worker, WorkerNext(w) \/ Abandon(w)
  PROVE  JobsGood' /\ \A v \in Worker : PassGood(v)'
<1> SUFFICES JobsGood' /\ PassGood(w)'
  <2>1. \A v \in Worker : v = w
    BY DEF SoleWorker
  <2> QED
    BY <2>1 DEF PassGood
<1>1. CASE Abandon(w)
  <2>1. TypeOK /\ JobsGood /\ Return(w) /\ UNCHANGED <<rowVars, provider, history>>
    BY <1>1 DEF SoleInv, Abandon
  <2> QED
    BY <2>1, JobsSame, PassEnds
<1>2. CASE \/ ClaimUnknownGatewayTorrent(w) \/ NoUnknownTorrent(w)
           \/ FindActive(w) \/ RecordUnknownGatewayLookup(w)
           \/ ResolveUnknownGatewayTorrent(w)
  BY <1>2, LookupSteps
<1>3. CASE ClaimGatewayJob(w)
  BY <1>3, ClaimStep
<1>4. CASE Preflight(w)
  BY <1>4, PreflightStep
<1>5. CASE DeferGatewaySubmission(w)
  BY <1>5, DeferStep
<1>6. CASE Post(w)
  BY <1>6, PostStep
<1>7. CASE Poll(w)
  BY <1>7, PollStep
<1>8. CASE UpdateGatewayJob(w)
  BY <1>8, UpdateStep
<1> QED
  BY <1>1, <1>2, <1>3, <1>4, <1>5, <1>6, <1>7, <1>8 DEF WorkerNext

--------------------------------------------------------------------------------
(***************************************************************************)
(* The clients, the controller, TorBox and time.                           *)
(***************************************************************************)

\* A statement that leaves what a pass depends on leaves the pass alone.
LEMMA PassKept ==
  ASSUME SoleInv, NEW w \in Worker, UNCHANGED <<pc, held, copy, provider, recorded, glitches>>,
         \A j \in Job : row[j].state \in Unsettled => /\ row'[j].state = row[j].state
                                                      /\ row'[j].pid = row[j].pid
  PROVE  PassGood(w)'
<1> SUFFICES ASSUME pc[w] \notin {"idle", "claim"}
             PROVE  Holds(pc[w], held[w], copy[w], row'[held[w]], provider[held[w]],
                          recorded[held[w]], glitches[held[w]])
  BY DEF PassGood
<1>1. /\ held[w] \in Job
      /\ Holds(pc[w], held[w], copy[w], row[held[w]], provider[held[w]], recorded[held[w]],
               glitches[held[w]])
  BY PassFacts
<1>2. row[held[w]].state \in Unsettled => /\ row'[held[w]].state = row[held[w]].state
                                          /\ row'[held[w]].pid = row[held[w]].pid
  BY <1>1
<1> QED
  BY <1>1, <1>2 DEF Holds, Unsettled

\* What a statement of the environment may make of a row.
Advanced(r, n) ==
  /\ n.pid = r.pid /\ n.missing = r.missing /\ n.files = r.files
  /\ \/ n.state = r.state
     \/ r.state = "Absent" /\ n.state = "Queued"
     \/ r.state = "Mounting" /\ n.state = "Completed"

LEMMA AdvancedStep ==
  ASSUME SoleInv, UNCHANGED <<pc, held, copy, provider, recorded, glitches>>,
         \A j \in Job : Advanced(row[j], row'[j])
  PROVE  JobsGood' /\ \A w \in Worker : PassGood(w)'
<1>1. ASSUME NEW j \in Job PROVE NextGood(j)
  <2>1. Advanced(row[j], row'[j]) /\ PlacedOk(j, provider[j])
    BY <1>1 DEF SoleInv, JobsGood
  <2>2. Good(j, row[j].state, row[j].pid, row[j].missing, provider[j], recorded[j], glitches[j])
    BY <1>1 DEF SoleInv, JobsGood, GoodRow
  <2>3. Good(j, row'[j].state, row[j].pid, row[j].missing, provider[j], recorded[j], glitches[j])
    BY <2>1, <2>2, GoodState DEF Advanced
  <2> QED
    BY <2>1, <2>3 DEF NextGood, GoodRow, Advanced
<1>2. JobsGood'
  BY <1>1 DEF JobsGood, NextGood
<1>3. ASSUME NEW w \in Worker PROVE PassGood(w)'
  BY <1>3, PassKept DEF Advanced, Unsettled
<1> QED
  BY <1>2, <1>3

LEMMA RowAdvances ==
  ASSUME NEW r \in Row
  PROVE  /\ Advanced(r, r) /\ Advanced(r, AddedRow(r)) /\ Advanced(r, WokenRow(r))
         /\ Advanced(r, VerifiedRow(r)) /\ \A n : Advanced(r, [r EXCEPT !.wait = n])
  BY EnvironmentFields DEF Advanced

LEMMA ProviderMoves ==
  ASSUME SoleInv, NEW i \in Job, NEW id \in Placements(i), ProviderStep(i, id)
  PROVE  JobsGood' /\ \A w \in Worker : PassGood(w)'
<1> DEFINE p == provider[i]
           q == provider'[i]
<1>0. TypeOK /\ JobsGood /\ UNCHANGED <<row, pc, held, copy, recorded, glitches>>
  BY DEF SoleInv, ProviderStep, rowVars, workerVars, history
<1>1. PICK move \in ProviderMove :
        p[id] = move[1] /\ provider' = [provider EXCEPT ![i][id] = move[2]]
  BY DEF ProviderStep
<1>2. p \in Seq(Placement) /\ id \in DOMAIN p
  BY <1>0 DEF TypeOK, Placements
<1>3. q = [p EXCEPT ![id] = move[2]] /\ \A k \in Job \ {i} : provider'[k] = provider[k]
  BY <1>0, <1>1 DEF TypeOK
<1>4. /\ q \in Seq(Placement) /\ DOMAIN q = DOMAIN p /\ Len(q) = Len(p)
      /\ Live(q) \subseteq Live(p) /\ Ups(i, q) = Ups(i, p)
      /\ \A k \in DOMAIN p : /\ p[k] # "queued" => q[k] # "queued"
                             /\ p[k] = "gone" => q[k] = "gone"
  BY <1>1, <1>2, <1>3, ProviderChange
<1> HIDE DEF q
<1>5. ASSUME NEW s, NEW n, NEW m, NEW rec, NEW gl, Good(i, s, n, m, p, rec, gl)
      PROVE  Good(i, s, n, m, q, rec, gl)
  BY <1>2, <1>4, <1>5, GoodKept
<1>6. PlacedOk(i, p) /\ PlacedOk(i, q)
  BY <1>0, <1>4, PlacedKept DEF JobsGood
<1>7. NextGood(i)
  BY <1>0, <1>5, <1>6 DEF JobsGood, NextGood, GoodRow, q
<1>8. JobsGood'
  BY <1>0, <1>3, <1>7, JobsFrame DEF JobsGood, JobGood
<1>9. ASSUME NEW w \in Worker PROVE PassGood(w)'
  <2> SUFFICES ASSUME pc[w] \notin {"idle", "claim"}
               PROVE  Holds(pc[w], held[w], copy[w], row[held[w]], provider'[held[w]],
                            recorded[held[w]], glitches[held[w]])
    BY <1>0 DEF PassGood
  <2>1. /\ held[w] \in Job
        /\ Holds(pc[w], held[w], copy[w], row[held[w]], provider[held[w]], recorded[held[w]],
                 glitches[held[w]])
    BY <1>9, PassFacts
  <2>2. CASE held[w] # i
    BY <1>3, <2>1, <2>2
  <2>3. CASE held[w] = i
    <3>1. Holds(pc[w], i, copy[w], row[i], p, recorded[i], glitches[i])
      BY <2>1, <2>3
    <3>2. /\ pc[w] \in BeforePost => GoodRow(i, copy[w], q, recorded[i], glitches[i])
          /\ pc[w] = "poll" => GoodRow(i, copy[w], q, recorded[i], glitches[i])
          /\ pc[w] = "write" => WriteGood(i, copy[w], q, recorded[i], glitches[i])
      BY <1>5, <3>1 DEF Holds, GoodRow, WriteGood
    <3>3. pc[w] = "resolve" =>
            /\ copy[w].pid \in DOMAIN q /\ q[copy[w].pid] # "queued"
            /\ Live(q) \subseteq {copy[w].pid} /\ Ups(i, q) \subseteq {copy[w].pid}
      BY <1>4, <3>1 DEF Holds
    <3>4. pc[w] = "post" => Live(q) = {} /\ \A b \in Base(i) : q[b] = "gone"
      BY <1>4, <1>6, <3>1 DEF Holds, PlacedOk
    <3>5. Holds(pc[w], i, copy[w], row[i], q, recorded[i], glitches[i])
      BY <3>1, <3>2, <3>3, <3>4 DEF Holds
    <3> QED
      BY <2>3, <3>5 DEF q
  <2> QED
    BY <2>2, <2>3
<1> QED
  BY <1>8, <1>9

LEMMA EnvironmentStep ==
  ASSUME SoleInv,
         \/ \E j \in Job : AddGatewaySource(j) \/ WakeGatewayJob(j) \/ FinishGatewayMount(j)
         \/ \E j \in Job : \E id \in Placements(j) : ProviderStep(j, id)
         \/ Tick
  PROVE  JobsGood' /\ \A w \in Worker : PassGood(w)'
<1>0. row \in [Job -> Row]
  BY DEF SoleInv, TypeOK
<1>1. ASSUME NEW j \in Job, AddGatewaySource(j) \/ WakeGatewayJob(j) \/ FinishGatewayMount(j)
      PROVE  JobsGood' /\ \A w \in Worker : PassGood(w)'
  <2>1. /\ UNCHANGED <<pc, held, copy, provider, recorded, glitches>>
        /\ \/ row' = [row EXCEPT ![j] = AddedRow(@)]
           \/ row' = [row EXCEPT ![j] = WokenRow(@)]
           \/ row' = [row EXCEPT ![j] = VerifiedRow(@)]
    BY <1>1 DEF AddGatewaySource, WakeGatewayJob, FinishGatewayMount, workerVars, history
  <2>2. \A k \in Job : Advanced(row[k], row'[k])
    BY <1>0, <1>1, <2>1, RowAdvances
  <2> QED
    BY <2>1, <2>2, AdvancedStep
<1>2. ASSUME NEW j \in Job, NEW id \in Placements(j), ProviderStep(j, id)
      PROVE  JobsGood' /\ \A w \in Worker : PassGood(w)'
  BY <1>2, ProviderMoves
<1>3. CASE Tick
  <2>1. /\ UNCHANGED <<pc, held, copy, provider, recorded, glitches>>
        /\ row' = [j \in Job |-> [row[j] EXCEPT !.wait = CountDown(@)]]
    BY <1>3 DEF Tick, history
  <2>2. \A k \in Job : Advanced(row[k], row'[k])
    BY <1>0, <2>1, RowAdvances
  <2> QED
    BY <2>1, <2>2, AdvancedStep
<1> QED
  BY <1>1, <1>2, <1>3

--------------------------------------------------------------------------------
(***************************************************************************)
(* The invariant, and what follows from it.                                *)
(***************************************************************************)

LEMMA SoleInit == Init => SoleInv
<1> SUFFICES ASSUME Init PROVE SoleInv
  OBVIOUS
<1>1. ASSUME NEW j \in Job PROVE JobGood(j)
  <2> DEFINE p == provider[j]
  <2>1. /\ p = (IF j \in OnAccount THEN <<"active">> ELSE <<>>)
        /\ row[j] = NoRow /\ recorded[j] = {} /\ glitches[j] = 0
    BY DEF Init
  <2>2. /\ p \in Seq(Placement) /\ Len(p) = Known(j) /\ DOMAIN p = 1 .. Known(j)
        /\ \A id \in DOMAIN p : id = 1 /\ p[id] = "active" /\ j \in OnAccount
    <3>1. CASE j \in OnAccount
      <4>1. p = <<"active">> /\ Known(j) = 1
        BY <2>1, <3>1 DEF Known
      <4> HIDE DEF p
      <4>2. p \in Seq(Placement) /\ Len(p) = 1 /\ DOMAIN p = 1 .. 1 /\ p[1] = "active"
        BY <4>1 DEF Placement
      <4> QED
        BY <3>1, <4>1, <4>2
    <3>2. CASE j \notin OnAccount
      <4>1. p = <<>> /\ Known(j) = 0
        BY <2>1, <3>2 DEF Known
      <4> HIDE DEF p
      <4>2. p \in Seq(Placement) /\ Len(p) = 0 /\ DOMAIN p = 1 .. 0
        BY <4>1
      <4> QED
        BY <4>1, <4>2
    <3> QED
      BY <3>1, <3>2
  <2>3. Ups(j, p) = {} /\ Live(p) \subseteq Base(j) /\ Base(j) = DOMAIN p
    BY <2>2 DEF Ups, Live, Base, Known
  <2> HIDE DEF p
  <2>4. PlacedOk(j, p)
    BY <2>2, <2>3 DEF PlacedOk, Live
  <2>5. Good(j, "Absent", 0, 0, p, {}, 0)
    BY <2>2, <2>3 DEF Good, Moving, Unsettled, Known
  <2> QED
    BY <2>1, <2>4, <2>5 DEF JobGood, GoodRow, NoRow, p
<1>2. \A w \in Worker : pc[w] = "idle"
  BY DEF Init
<1> QED
  BY <1>1, <1>2, InitType DEF SoleInv, JobsGood, JobGood, PassGood

LEMMA SoleStep ==
  ASSUME SoleWorker, SoleInv, [Next]_vars
  PROVE  SoleInv'
<1>1. TypeOK'
  BY NextType DEF SoleInv
<1>2. CASE \E w \in Worker : WorkerNext(w) \/ Abandon(w)
  BY <1>1, <1>2, WorkerStep DEF SoleInv
<1>3. CASE \/ \E j \in Job : AddGatewaySource(j) \/ WakeGatewayJob(j) \/ FinishGatewayMount(j)
           \/ \E j \in Job : \E id \in Placements(j) : ProviderStep(j, id)
           \/ Tick
  BY <1>1, <1>3, EnvironmentStep DEF SoleInv
<1>4. CASE UNCHANGED vars
  BY <1>1, <1>4 DEF SoleInv, JobsGood, PassGood, vars
<1> QED
  BY <1>2, <1>3, <1>4 DEF Next

LEMMA SoleAlways ==
  ASSUME SoleWorker
  PROVE  Spec => []SoleInv
<1>1. SoleInv /\ [Next]_vars => SoleInv'
  BY SoleStep
<1> QED
  BY <1>1, SoleInit, PTL DEF Spec

\* What the account has of a job and what is uploaded for it are never live
\* together, and neither are two uploads: a job is uploaded anew only after
\* TorBox really lost the placement before.
THEOREM CopiesSingle ==
  ASSUME SoleWorker
  PROVE  Spec => []AtMostOneLiveCopy
<1>1. SoleInv => AtMostOneLiveCopy
  BY DEF SoleInv, JobsGood, PlacedOk, AtMostOneLiveCopy, Placements, Live, LiveState
<1> QED
  BY <1>1, SoleAlways, PTL

\* Only the upload adds a placement, and it starts from a queued copy, whose
\* earlier uploads are all on record.
THEOREM RetriesInformed ==
  ASSUME SoleWorker
  PROVE  Spec => NoBlindRetry
<1> DEFINE Informed == \A j \in Job : Len(provider'[j]) > Len(provider[j])
                                        => Uploads(j) \subseteq recorded[j]
<1>1. ASSUME SoleInv, [Next]_vars PROVE Informed
  <2> SUFFICES ASSUME NEW j \in Job, Len(provider'[j]) > Len(provider[j])
               PROVE  Ups(j, provider[j]) \subseteq recorded[j]
    BY DEF Ups, Uploads, Placements
  <2>1. provider \in [Job -> Seq(Placement)]
    BY <1>1 DEF SoleInv, TypeOK
  <2>2. provider[j] \in Seq(Placement) /\ Len(provider[j]) \in Nat
    BY <2>1
  <2>3. ASSUME NEW i \in Job, NEW id \in Placements(i), ProviderStep(i, id) PROVE FALSE
    <3>1. PICK m : provider' = [provider EXCEPT ![i][id] = m] /\ m \in Placement
      BY <2>3 DEF ProviderStep, ProviderMove, Placement
    <3>2. /\ provider[i] \in Seq(Placement) /\ id \in DOMAIN provider[i]
          /\ provider'[i] = [provider[i] EXCEPT ![id] = m]
          /\ \A k \in Job \ {i} : provider'[k] = provider[k]
      BY <2>1, <2>3, <3>1 DEF Placements
    <3>3. Len(provider'[i]) = Len(provider[i])
      BY <3>1, <3>2
    <3> QED
      BY <2>2, <3>2, <3>3
  <2>4. ASSUME provider' = provider PROVE FALSE
    BY <2>2, <2>4
  <2>5. PICK w \in Worker : Post(w)
    <3>1. ASSUME NEW w \in Worker, WorkerNext(w) \/ Abandon(w), ~Post(w)
          PROVE  provider' = provider
      BY <3>1
         DEF WorkerNext, ClaimUnknownGatewayTorrent, NoUnknownTorrent, FindActive,
             RecordUnknownGatewayLookup, ResolveUnknownGatewayTorrent, ClaimGatewayJob,
             Preflight, DeferGatewaySubmission, Poll, UpdateGatewayJob, Abandon
    <3>2. ASSUME \/ \E i \in Job : \/ AddGatewaySource(i) \/ WakeGatewayJob(i)
                                   \/ FinishGatewayMount(i)
                 \/ Tick \/ UNCHANGED vars
          PROVE  provider' = provider
      BY <3>2 DEF AddGatewaySource, WakeGatewayJob, FinishGatewayMount, Tick, vars
    <3> QED
      BY <1>1, <2>3, <2>4, <3>1, <3>2 DEF Next
  <2>6. /\ held[w] \in Job /\ copy[w].state = "Queued"
        /\ GoodRow(held[w], copy[w], provider[held[w]], recorded[held[w]], glitches[held[w]])
    BY <1>1, <2>5, PassFacts DEF Post, Holds, BeforePost
  <2>7. \A k \in Job \ {held[w]} : provider'[k] = provider[k]
    BY <2>1, <2>5, <2>6 DEF Post
  <2>8. j = held[w]
    BY <2>2, <2>7
  <2> QED
    BY <2>6, <2>8 DEF GoodRow, Good, Unsettled
<1>2. SoleInv /\ [Next]_vars => [Informed]_vars
  BY <1>1
<1> QED
  BY <1>2, SoleAlways, PTL DEF Spec, NoBlindRetry

--------------------------------------------------------------------------------
(***************************************************************************)
(* Published file lists.                                                   *)
(***************************************************************************)

\* What has published list f still lists its files, in g.
KeepsList(g, f) == f # NoFiles => g # NoFiles /\ SameCatalog(g, f)

\* A pass that may write its copy back lists the files its row publishes.
Carrying == BeforePost \cup {"poll", "write"}
CarriesList(w) == pc[w] \in Carrying => KeepsList(copy[w].files, row[held[w]].files)
ListsCarried == \A w \in Worker : CarriesList(w)

SameFiles == \A j \in Job : row'[j].files = row[j].files
FilesKept == \A j \in Job : KeepsList(row'[j].files, row[j].files)

LEMMA SameKept == SameFiles => FilesKept
  BY DEF SameFiles, FilesKept, KeepsList, SameCatalog

LEMMA CarriedOn ==
  ASSUME TypeOK, SameFiles, NEW w \in Worker, NEW s, NEW j \in Job, NEW c,
         KeepsList(c.files, row[j].files), Goto(w, s, j, c)
  PROVE  FilesKept /\ CarriesList(w)'
<1>1. pc'[w] = s /\ held'[w] = j /\ copy'[w] = c
  BY DEF TypeOK, Goto
<1> QED
  BY <1>1, SameKept DEF CarriesList, SameFiles

LEMMA CarriedAway ==
  ASSUME TypeOK, NEW w \in Worker, Return(w)
  PROVE  CarriesList(w)'
<1>1. pc'[w] = "idle"
  BY DEF TypeOK, Return
<1> QED
  BY <1>1 DEF CarriesList, Carrying, BeforePost

LEMMA PassCarries ==
  ASSUME TypeOK, ListsCarried, NEW w \in Worker, WorkerNext(w) \/ Abandon(w)
  PROVE  FilesKept /\ CarriesList(w)'
<1> DEFINE j == held[w]
           c == copy[w]
<1>1. /\ row \in [Job -> Row] /\ c \in CopyType
      /\ pc[w] \in Carrying => j \in Job
      /\ pc[w] \in Carrying => KeepsList(c.files, row[j].files)
  BY DEF TypeOK, ListsCarried, CarriesList, Carrying, BeforePost
<1>2. UNCHANGED row => SameFiles
  BY DEF SameFiles
<1>3. SameFiles => FilesKept
  BY SameKept
<1>4. CASE ClaimUnknownGatewayTorrent(w)
  <2>1. pc'[w] = "lookup"
    BY <1>4 DEF TypeOK, ClaimUnknownGatewayTorrent
  <2>2. PICK i \in Torrent : row' = [row EXCEPT ![i].wait = Lease]
    BY <1>4 DEF ClaimUnknownGatewayTorrent
  <2>3. SameFiles
    BY <1>1, <2>2, EnvironmentFields DEF SameFiles, Torrent
  <2> QED
    BY <1>3, <2>1, <2>3 DEF CarriesList, Carrying, BeforePost
<1>5. CASE NoUnknownTorrent(w)
  <2>1. pc'[w] = "claim" /\ UNCHANGED row
    BY <1>5 DEF TypeOK, NoUnknownTorrent, rowVars
  <2> QED
    BY <1>2, <1>3, <2>1 DEF CarriesList, Carrying, BeforePost
<1>6. CASE FindActive(w)
  <2>1. pc'[w] = "resolve" /\ UNCHANGED row
    BY <1>6 DEF TypeOK, FindActive, Goto, rowVars
  <2> QED
    BY <1>2, <1>3, <2>1 DEF CarriesList, Carrying, BeforePost
<1>7. CASE RecordUnknownGatewayLookup(w) \/ Abandon(w)
  BY <1>2, <1>3, <1>7, CarriedAway DEF RecordUnknownGatewayLookup, Abandon, rowVars
<1>8. CASE ResolveUnknownGatewayTorrent(w)
  <2>1. j \in Job /\ row' = [row EXCEPT ![j] = ResolvedRow(@, c.pid)] /\ Return(w)
    BY <1>8 DEF ResolveUnknownGatewayTorrent, TypeOK
  <2>2. ResolvedRow(row[j], c.pid).files = row[j].files
    BY <1>1, <2>1 DEF ResolvedRow, Row
  <2>3. SameFiles
    BY <1>1, <2>1, <2>2 DEF SameFiles
  <2> QED
    BY <1>3, <2>1, <2>3, CarriedAway
<1>9. CASE ClaimGatewayJob(w)
  <2> DEFINE swept == [i \in Job |-> Swept(row[i])]
  <2>1. \/ row' = swept /\ Return(w)
        \/ \E i \in Job :
             /\ row' = [swept EXCEPT ![i] = ClaimedRow(@)]
             /\ \/ \E s : Goto(w, s, i, [CopyOf(swept[i]) EXCEPT !.attempts = @ + 1])
                \/ Goto(w, "poll", i, CopyOf(swept[i]))
    BY <1>9 DEF ClaimGatewayJob
  <2>2. /\ swept \in [Job -> Row]
        /\ \A i \in Job : swept[i].files = row[i].files
    BY <1>1, SweptTypes, SweptFields
  <2> HIDE DEF swept
  <2>3. CASE row' = swept /\ Return(w)
    BY <1>3, <2>2, <2>3, CarriedAway DEF SameFiles
  <2>4. ASSUME NEW i \in Job, row' = [swept EXCEPT ![i] = ClaimedRow(@)],
               NEW s, NEW n, n.files = swept[i].files, Goto(w, s, i, n)
        PROVE  FilesKept /\ CarriesList(w)'
    <3>1. SameFiles
      BY <2>2, <2>4, ClaimedFields DEF SameFiles
    <3>2. KeepsList(n.files, row[i].files)
      BY <2>2, <2>4 DEF KeepsList, SameCatalog
    <3> QED
      BY <2>4, <3>1, <3>2, CarriedOn
  <2>5. \A i \in Job : /\ [CopyOf(swept[i]) EXCEPT !.attempts = @ + 1].files = swept[i].files
                       /\ CopyOf(swept[i]).files = swept[i].files
    BY <2>2, CopyOfFields
  <2> QED
    BY <2>1, <2>3, <2>4, <2>5
<1>10. ASSUME NEW s, NEW d, d.files = c.files, pc[w] \in Carrying, UNCHANGED row,
              Goto(w, s, j, d)
       PROVE  FilesKept /\ CarriesList(w)'
  BY <1>1, <1>2, <1>10, CarriedOn
<1>11. CASE Preflight(w)
  <2>1. /\ pc[w] \in Carrying /\ UNCHANGED row
        /\ \/ Goto(w, "write", j, Unanswered(c)) \/ Goto(w, "defer", j, c)
           \/ \E id : Goto(w, "write", j, Accepted(c, id)) \/ Goto(w, "post", j, c)
    BY <1>11 DEF Preflight, Carrying, BeforePost, rowVars
  <2> QED
    BY <1>1, <1>10, <2>1, OutcomeFields
<1>12. CASE DeferGatewaySubmission(w)
  <2>1. /\ j \in Job /\ row' = [row EXCEPT ![j] = DeferredRow(@)] /\ Return(w)
    BY <1>1, <1>12 DEF DeferGatewaySubmission, Carrying, BeforePost
  <2>2. DeferredRow(row[j]).files = row[j].files
    BY <1>1, <2>1 DEF DeferredRow, Row
  <2>3. SameFiles
    BY <1>1, <2>1, <2>2 DEF SameFiles
  <2> QED
    BY <1>3, <2>1, <2>3, CarriedAway
<1>13. CASE Post(w)
  <2>1. /\ pc[w] \in Carrying /\ UNCHANGED row
        /\ \/ Goto(w, "write", j, Unanswered(c))
           \/ \E id : Goto(w, "write", j, Accepted(c, id))
    BY <1>13 DEF Post, Carrying, BeforePost, rowVars
  <2> QED
    BY <1>1, <1>10, <2>1, OutcomeFields
<1>14. CASE Poll(w)
  <2> DEFINE reset == [c EXCEPT !.missing = 0, !.delay = Lease]
             failed == [c EXCEPT !.state = "Failed", !.missing = 0, !.delay = Lease]
             active == [c EXCEPT !.state = "Downloading", !.missing = 0, !.delay = 0]
  <2>1. /\ pc[w] \in Carrying /\ UNCHANGED row
        /\ \/ Goto(w, "write", j, reset) \/ Goto(w, "write", j, failed)
           \/ Goto(w, "write", j, AfterAbsence(c)) \/ Goto(w, "write", j, active)
           \/ \E f \in Catalog : Goto(w, "write", j, AfterReady(c, f))
    BY <1>14 DEF Poll, Carrying, rowVars
  <2>2. /\ reset.files = c.files /\ failed.files = c.files /\ active.files = c.files
        /\ AfterAbsence(c).files = c.files
    BY <1>1, DecisionFields DEF CopyType
  <2>3. ASSUME NEW f \in Catalog, Goto(w, "write", j, AfterReady(c, f))
        PROVE  FilesKept /\ CarriesList(w)'
    <3>1. AfterReady(c, f).files =
            IF c.files # NoFiles /\ ~SameCatalog(c.files, f) THEN c.files ELSE f
      BY <1>1 DEF AfterReady, CopyType
    <3>2. f # NoFiles
      BY RowConstants
    <3>3. KeepsList(AfterReady(c, f).files, row[j].files)
      BY <1>1, <2>1, <3>1, <3>2 DEF KeepsList, SameCatalog
    <3> QED
      BY <1>1, <1>2, <2>1, <2>3, <3>3, CarriedOn
  <2> HIDE DEF reset, failed, active
  <2> QED
    BY <1>10, <2>1, <2>2, <2>3
<1>15. CASE UpdateGatewayJob(w)
  <2>1. /\ j \in Job /\ row' = [row EXCEPT ![j] = UpdatedRow(@, c, c.delay)] /\ Return(w)
        /\ KeepsList(c.files, row[j].files)
    BY <1>1, <1>15 DEF UpdateGatewayJob, Carrying
  <2>2. UpdatedRow(row[j], c, c.delay).files = c.files
    BY <1>1, <2>1, UpdatedFields
  <2>3. FilesKept
    BY <1>1, <2>1, <2>2 DEF FilesKept, KeepsList, SameCatalog
  <2> QED
    BY <2>1, <2>3, CarriedAway
<1> QED
  BY <1>4, <1>5, <1>6, <1>7, <1>8, <1>9, <1>11, <1>12, <1>13, <1>14, <1>15 DEF WorkerNext

\* Nothing but a pass touches a file list.
LEMMA OthersCarry ==
  ASSUME TypeOK, ListsCarried,
         \/ \E j \in Job : AddGatewaySource(j) \/ WakeGatewayJob(j) \/ FinishGatewayMount(j)
         \/ \E j \in Job : \E id \in Placements(j) : ProviderStep(j, id)
         \/ Tick \/ UNCHANGED vars
  PROVE  FilesKept /\ ListsCarried'
<1>0. row \in [Job -> Row] /\ \A w \in Worker : pc[w] \in Carrying => held[w] \in Job
  BY DEF TypeOK, Carrying, BeforePost
<1>1. pc' = pc /\ held' = held /\ copy' = copy
  BY DEF AddGatewaySource, WakeGatewayJob, FinishGatewayMount, ProviderStep, Tick, vars,
         workerVars, history
<1>2. \/ \E j \in Job : \/ row' = [row EXCEPT ![j] = AddedRow(@)]
                        \/ row' = [row EXCEPT ![j] = WokenRow(@)]
                        \/ row' = [row EXCEPT ![j] = VerifiedRow(@)]
      \/ row' = [j \in Job |-> [row[j] EXCEPT !.wait = CountDown(@)]]
      \/ UNCHANGED row
  BY DEF AddGatewaySource, WakeGatewayJob, FinishGatewayMount, ProviderStep, Tick, vars,
         rowVars
<1>3. SameFiles
  <2>1. ASSUME NEW j \in Job, \/ row' = [row EXCEPT ![j] = AddedRow(@)]
                              \/ row' = [row EXCEPT ![j] = WokenRow(@)]
                              \/ row' = [row EXCEPT ![j] = VerifiedRow(@)]
        PROVE  \A k \in Job : Advanced(row[k], row'[k])
    BY <1>0, <2>1, RowAdvances
  <2>2. CASE row' = [j \in Job |-> [row[j] EXCEPT !.wait = CountDown(@)]]
    <3>1. \A k \in Job : Advanced(row[k], row'[k])
      BY <1>0, <2>2, RowAdvances
    <3> QED
      BY <3>1 DEF SameFiles, Advanced
  <2>3. CASE UNCHANGED row
    BY <2>3 DEF SameFiles
  <2> QED
    BY <1>2, <2>1, <2>2, <2>3 DEF SameFiles, Advanced
<1>4. ASSUME NEW w \in Worker PROVE CarriesList(w)'
  <2>1. /\ CarriesList(w)
        /\ pc[w] \in Carrying => row'[held[w]].files = row[held[w]].files
    BY <1>0, <1>3 DEF SameFiles, ListsCarried
  <2> QED
    BY <1>1, <2>1 DEF CarriesList
<1> QED
  BY <1>3, <1>4, SameKept DEF ListsCarried

\* A published list outlives recovery, later polls and lost passes: whatever a
\* pass writes back holds the files its row published, as no other pass comes
\* between.
THEOREM CatalogsKept ==
  ASSUME SoleWorker
  PROVE  Spec => CatalogStable
<1>1. Init => ListsCarried
  BY DEF Init, ListsCarried, CarriesList, Carrying, BeforePost
<1>2. ASSUME TypeOK, ListsCarried, [Next]_vars PROVE FilesKept /\ ListsCarried'
  <2>1. ASSUME NEW w \in Worker, WorkerNext(w) \/ Abandon(w)
        PROVE  FilesKept /\ ListsCarried'
    <3>1. FilesKept /\ CarriesList(w)'
      BY <1>2, <2>1, PassCarries
    <3>2. \A v \in Worker : v = w
      BY DEF SoleWorker
    <3> QED
      BY <3>1, <3>2 DEF ListsCarried, CarriesList
  <2> QED
    BY <1>2, <2>1, OthersCarry DEF Next
<1>3. TypeOK /\ ListsCarried /\ [Next]_vars => [FilesKept]_vars
  BY <1>2
<1>4. CatalogStable <=> [][FilesKept]_vars
  BY DEF CatalogStable, FilesKept, KeepsList
<1> QED
  BY <1>1, <1>2, <1>3, <1>4, TypeCorrect, PTL DEF Spec

--------------------------------------------------------------------------------
(***************************************************************************)
(* The job a release may rely on.  What is behind it: a row is Mounting or *)
(* Completed only with a list that it got from a ready placement, which    *)
(* never becomes active again, and only a missing row counts absences, so  *)
(* the copy of a completed job can neither go back to Downloading nor be   *)
(* queued before it was Missing.                                           *)
(***************************************************************************)

\* One absent answer does not confirm a loss (three do).
Confirmed == MissingThreshold > 1

Shown == {"ready", "evicted", "gone"}
StatusIn(p, id) == IF id \in DOMAIN p THEN p[id] ELSE "gone"

Settled(r, p) ==
  /\ r.state \in {"Downloading", "Mounting", "Completed"} => r.missing = 0
  /\ r.state \in {"Mounting", "Completed"} =>
       r.files # NoFiles /\ StatusIn(p, r.pid) \in Shown

\* A row and the placements p of its job.
RowOk(r, p) ==
  /\ r.state \in {"Absent", "Queued"} => r.attempts < MaxAttempts
  /\ r.state \notin {"Absent", "Queued"} => r.attempts > 0
  /\ Settled(r, p)

\* The copy c of row r that a poll decides on, and the one that is written back.
PollOk(c, r) ==
  /\ r.state \in Moving
  /\ c.state = r.state \/ (c.state = "Mounting" /\ r.state = "Completed")
  /\ c.pid = r.pid /\ c.files = r.files /\ c.missing = r.missing /\ c.attempts = r.attempts

PolledOk(c, r) ==
  /\ r.state \in Moving /\ c.state \in Moving \cup {"Queued", "Failed"}
  /\ c.state = "Queued" => r.state = "Missing" /\ r.attempts < MaxAttempts
  /\ c.state = "Downloading" => r.state \in {"Downloading", "Missing"}
  /\ c.state = "Completed" => r.state = "Completed"

SubmittedOk(c, r) == r.state = "Submitting" /\ c.state \in {"Downloading", "SubmissionUnknown"}

WriteOk(c, r, p) == Settled(c, p) /\ (SubmittedOk(c, r) \/ PolledOk(c, r))

PassOk(w) ==
  /\ pc[w] = "poll" => PollOk(copy[w], row[held[w]])
  /\ pc[w] = "write" => WriteOk(copy[w], row[held[w]], provider[held[w]])

RowsOk == \A j \in Job : RowOk(row[j], provider[j])
JobsInv == RowsOk /\ \A w \in Worker : PassOk(w)

\* What a step may make of a row, as its release sees it.
Follows(r, n) ==
  \/ PhaseOf(n) = PhaseOf(r) /\ Resubmitted(n) = Resubmitted(r)
  \/ <<PhaseOf(r), PhaseOf(n)>> \in Jobs!Move /\ Resubmitted(n) = Resubmitted(r)
  \/ PhaseOf(r) = "Missing" /\ PhaseOf(n) = "Queued" /\ Resubmitted(n) = Resubmitted(r) + 1

\* The rows after a step.
NextRows == \A j \in Job : RowOk(row'[j], provider'[j]) /\ Follows(row[j], row'[j])

--------------------------------------------------------------------------------
\* What a release sees of a row.
LEMMA PhaseFacts ==
  ASSUME NEW r
  PROVE  /\ r.state \in {"Queued", "Submitting"} => PhaseOf(r) = "Queued"
         /\ r.state \in {"Downloading", "Mounting"} => PhaseOf(r) = "Working"
         /\ r.state = "SubmissionUnknown" => PhaseOf(r) = "Unknown"
         /\ r.state \in {"Absent", "Missing", "Completed", "Failed"} => PhaseOf(r) = r.state
<1>1. CASE r.state \in {"Queued", "Submitting"}
  BY <1>1 DEF PhaseOf
<1>2. CASE r.state \in {"Downloading", "Mounting"}
  BY <1>2 DEF PhaseOf
<1>3. CASE r.state = "SubmissionUnknown"
  BY <1>3 DEF PhaseOf
<1>4. CASE r.state \in {"Absent", "Missing", "Completed", "Failed"}
  BY <1>4 DEF PhaseOf
<1> QED
  BY <1>1, <1>2, <1>3, <1>4

LEMMA ResubmittedFacts ==
  ASSUME NEW r \in Row, NEW p, RowOk(r, p)
  PROVE  /\ r.attempts \in Nat /\ MaxAttempts \in Nat
         /\ r.state \in {"Absent", "Queued"} => Resubmitted(r) = r.attempts
         /\ r.state \notin {"Absent", "Queued"} =>
              Resubmitted(r) = r.attempts - 1 /\ r.attempts > 0
         /\ Resubmitted(r) \in 0 .. (MaxAttempts - 1)
<1>1. MaxAttempts \in Nat
  BY RowConstants
<1>2. r.attempts \in 0 .. MaxAttempts
  BY DEF Row
<1>3. r.attempts \in Nat /\ r.attempts <= MaxAttempts
  BY <1>1, <1>2
<1>4. ASSUME r.state \in {"Absent", "Queued"}
      PROVE  Resubmitted(r) = r.attempts /\ r.attempts < MaxAttempts
  BY <1>4 DEF Resubmitted, RowOk
<1>5. ASSUME r.state \notin {"Absent", "Queued"}
      PROVE  Resubmitted(r) = r.attempts - 1 /\ r.attempts > 0
  <2>1. r.attempts > 0
    BY <1>5 DEF RowOk
  <2>2. r.attempts # 0
    BY <1>3, <2>1
  <2> QED
    BY <1>5, <2>1, <2>2 DEF Resubmitted
<1>6. Resubmitted(r) \in 0 .. (MaxAttempts - 1)
  BY <1>1, <1>3, <1>4, <1>5
<1> QED
  BY <1>1, <1>3, <1>4, <1>5, <1>6

\* A statement that leaves the attempts and takes the state from s to t.
StateMove(s, t) ==
  \/ s = t
  \/ s = "Absent" /\ t = "Queued"
  \/ s = "Submitting" /\ t \in {"SubmissionUnknown", "Downloading"}
  \/ s = "SubmissionUnknown" /\ t = "Downloading"
  \/ s \in Moving /\ t \in {"Missing", "Failed"}
  \/ s \in {"Downloading", "Mounting", "Missing"} /\ t \in {"Downloading", "Mounting"}
  \/ s = "Mounting" /\ t = "Completed"
  \/ s = "Completed" /\ t = "Mounting"

LEMMA MoveFollows ==
  ASSUME NEW r \in Row, NEW p, RowOk(r, p), NEW n \in Row, NEW q, RowOk(n, q),
         n.attempts = r.attempts, StateMove(r.state, n.state)
  PROVE  Follows(r, n)
<1> DEFINE sub == Resubmitted(n) = Resubmitted(r)
<1>1. (r.state \in {"Absent", "Queued"} <=> n.state \in {"Absent", "Queued"}) => sub
  BY ResubmittedFacts
<1>2. sub
  BY <1>1 DEF StateMove, Moving
<1> HIDE DEF sub
<1>3. PhaseOf(n) = PhaseOf(r) \/ <<PhaseOf(r), PhaseOf(n)>> \in Jobs!Move
  <2>1. CASE r.state = n.state
    BY <2>1 DEF PhaseOf
  <2>2. CASE r.state = "Absent" /\ n.state = "Queued"
    BY <2>2, PhaseFacts DEF Jobs!Move
  <2>3. CASE r.state = "Submitting" /\ n.state \in {"SubmissionUnknown", "Downloading"}
    BY <2>3, PhaseFacts DEF Jobs!Move
  <2>4. CASE r.state = "SubmissionUnknown" /\ n.state = "Downloading"
    BY <2>4, PhaseFacts DEF Jobs!Move
  <2>5. CASE r.state \in Moving /\ n.state \in {"Missing", "Failed"}
    <3>1. PhaseOf(n) \in {"Missing", "Failed"}
      BY <2>5, PhaseFacts
    <3>2. PhaseOf(r) \in {"Working", "Missing", "Completed"}
      BY <2>5, PhaseFacts DEF Moving
    <3> QED
      BY <3>1, <3>2 DEF Jobs!Move
  <2>6. CASE /\ r.state \in {"Downloading", "Mounting", "Missing"}
             /\ n.state \in {"Downloading", "Mounting"}
    <3>1. PhaseOf(n) = "Working" /\ PhaseOf(r) \in {"Working", "Missing"}
      BY <2>6, PhaseFacts
    <3> QED
      BY <3>1 DEF Jobs!Move
  <2>7. CASE r.state = "Mounting" /\ n.state = "Completed"
    BY <2>7, PhaseFacts DEF Jobs!Move
  <2>8. CASE r.state = "Completed" /\ n.state = "Mounting"
    BY <2>8, PhaseFacts DEF Jobs!Move
  <2> QED
    BY <2>1, <2>2, <2>3, <2>4, <2>5, <2>6, <2>7, <2>8 DEF StateMove
<1> QED
  BY <1>2, <1>3 DEF Follows, sub

--------------------------------------------------------------------------------
\* The statements of the clients, the controller and time.
LEMMA AdvancedOk ==
  ASSUME NEW r \in Row, NEW n \in Row, NEW p, RowOk(r, p),
         Advanced(r, n), n.attempts = r.attempts
  PROVE  RowOk(n, p) /\ Follows(r, n)
<1>1. \/ n.state = r.state
      \/ r.state = "Absent" /\ n.state = "Queued"
      \/ r.state = "Mounting" /\ n.state = "Completed"
  BY DEF Advanced
<1>2. RowOk(n, p)
  BY <1>1 DEF Advanced, RowOk, Settled
<1>3. StateMove(r.state, n.state)
  BY <1>1 DEF StateMove
<1> QED
  BY <1>2, <1>3, MoveFollows

\* A sweep fails no job: a queued one has attempts left.
LEMMA SweptOk ==
  ASSUME NEW r \in Row, NEW p, RowOk(r, p)
  PROVE  /\ RowOk(Swept(r), p) /\ Follows(r, Swept(r))
         /\ Swept(r).attempts = r.attempts
         /\ r.state # "Submitting" => Swept(r).state = r.state
<1> DEFINE e == ExpireSubmission(r)
           n == Swept(r)
<1>1. /\ e \in Row /\ e.attempts = r.attempts
      /\ e.state = r.state \/ (r.state = "Submitting" /\ e.state = "SubmissionUnknown")
  BY RowTypes DEF ExpireSubmission, Row
<1>2. n = FailExhausted(e) /\ n \in Row
  BY SweptTypes DEF Swept
<1>3. r.attempts \in Nat /\ MaxAttempts \in Nat
  BY ResubmittedFacts
<1>4. e.state = "Queued" => ~(e.attempts >= MaxAttempts)
  BY <1>1, <1>3 DEF RowOk
<1> HIDE DEF e
<1>5. n = e
  BY <1>2, <1>4 DEF FailExhausted
<1>6. /\ n.pid = r.pid /\ n.missing = r.missing /\ n.files = r.files
      /\ n.attempts = r.attempts
      /\ n.state = r.state \/ (r.state = "Submitting" /\ n.state = "SubmissionUnknown")
  BY <1>1, <1>5, SweptFields
<1> HIDE DEF n
<1>7. RowOk(n, p)
  BY <1>6 DEF RowOk, Settled
<1>8. StateMove(r.state, n.state)
  BY <1>6 DEF StateMove
<1>9. Follows(r, n)
  BY <1>2, <1>6, <1>7, <1>8, MoveFollows
<1> QED
  BY <1>6, <1>7, <1>9 DEF n

LEMMA ClaimedOk ==
  ASSUME NEW r \in Row, NEW s \in Row, NEW p, RowOk(r, p), RowOk(s, p), Follows(r, s),
         s.attempts = r.attempts, s.state = "Queued" => r.state = "Queued",
         ClaimedRow(s) \in Row
  PROVE  RowOk(ClaimedRow(s), p) /\ Follows(r, ClaimedRow(s))
<1> DEFINE n == ClaimedRow(s)
<1>1. /\ n.pid = s.pid /\ n.missing = s.missing /\ n.files = s.files
      /\ n.state = IF s.state = "Queued" THEN "Submitting" ELSE s.state
  BY ClaimedFields
<1>2. n.attempts = IF s.state = "Queued" THEN s.attempts + 1 ELSE s.attempts
  BY DEF ClaimedRow, Row
<1>3. s.attempts \in Nat
  BY ResubmittedFacts
<1> HIDE DEF n
<1>4. CASE s.state = "Queued"
  <2>1. n.state = "Submitting" /\ n.attempts = s.attempts + 1
    BY <1>1, <1>2, <1>4
  <2>2. RowOk(n, p)
    BY <1>3, <2>1 DEF RowOk, Settled
  <2>3. PhaseOf(n) = PhaseOf(r)
    BY <1>4, <2>1, PhaseFacts
  <2>4. Resubmitted(r) = r.attempts
    BY <1>4, ResubmittedFacts
  <2>5. Resubmitted(n) = n.attempts - 1
    BY <2>1, <2>2, ResubmittedFacts DEF n
  <2>6. Resubmitted(n) = Resubmitted(r)
    BY <1>3, <2>1, <2>4, <2>5
  <2> QED
    BY <2>2, <2>3, <2>6 DEF Follows, n
<1>5. CASE s.state # "Queued"
  <2>1. n.state = s.state /\ n.attempts = s.attempts
    BY <1>1, <1>2, <1>5
  <2>2. RowOk(n, p)
    BY <1>1, <2>1 DEF RowOk, Settled
  <2>3. PhaseOf(n) = PhaseOf(s) /\ Resubmitted(n) = Resubmitted(s)
    BY <2>1 DEF PhaseOf, Resubmitted
  <2> QED
    BY <2>2, <2>3 DEF Follows, n
<1> QED
  BY <1>4, <1>5

LEMMA DeferredOk ==
  ASSUME NEW r \in Row, NEW p, RowOk(r, p), r.state = "Submitting"
  PROVE  RowOk(DeferredRow(r), p) /\ Follows(r, DeferredRow(r))
<1> DEFINE n == DeferredRow(r)
<1>1. n \in Row
  BY RowTypes
<1>2. r.attempts \in Nat /\ r.attempts > 0 /\ MaxAttempts \in Nat /\ r.attempts <= MaxAttempts
  BY RowConstants DEF RowOk, Row
<1>3. n.state = "Queued" /\ n.attempts = r.attempts - 1
  BY <1>2 DEF DeferredRow, Row
<1> HIDE DEF n
<1>4. RowOk(n, p)
  BY <1>2, <1>3 DEF RowOk, Settled
<1>5. PhaseOf(n) = PhaseOf(r)
  BY <1>3, PhaseFacts
<1>6. Resubmitted(n) = r.attempts - 1
  BY <1>1, <1>3, <1>4, ResubmittedFacts
<1>7. Resubmitted(r) = r.attempts - 1
  BY ResubmittedFacts
<1> QED
  BY <1>4, <1>5, <1>6, <1>7 DEF Follows, n

LEMMA ResolvedOk ==
  ASSUME NEW r \in Row, NEW p, RowOk(r, p), r.state = "SubmissionUnknown", r.pid = 0,
         r.missing = 0, NEW id \in Nat
  PROVE  RowOk(ResolvedRow(r, id), p) /\ Follows(r, ResolvedRow(r, id))
<1> DEFINE n == ResolvedRow(r, id)
<1>1. n \in Row
  BY RowTypes
<1>2. n.state = "Downloading" /\ n.attempts = r.attempts /\ n.missing = 0
  BY DEF ResolvedRow, Row
<1> HIDE DEF n
<1>3. RowOk(n, p)
  BY <1>2 DEF RowOk, Settled
<1>4. StateMove(r.state, n.state)
  BY <1>2 DEF StateMove
<1> QED
  BY <1>1, <1>2, <1>3, <1>4, MoveFollows DEF n

\* The write-back.  A completed row outlives the copy that says Mounting, or is
\* to be verified again when the copy lists its files in another order.
LEMMA UpdatedOk ==
  ASSUME NEW r \in Row, NEW c \in CopyType, NEW d, NEW p, RowOk(r, p), WriteOk(c, r, p),
         UpdatedRow(r, c, d) \in Row
  PROVE  RowOk(UpdatedRow(r, c, d), p) /\ Follows(r, UpdatedRow(r, c, d))
<1> DEFINE n == UpdatedRow(r, c, d)
<1>1. /\ n.pid = c.pid /\ n.missing = c.missing /\ n.files = c.files
      /\ n.state = c.state \/ (c.state = "Mounting" /\ n.state = "Completed")
  BY UpdatedFields
<1>2. n.attempts = r.attempts
  BY DEF UpdatedRow, Row
<1>3. n.state = "Completed" => r.state = "Completed"
  <2>1. n.state = IF /\ r.state = "Completed" /\ c.state = "Mounting"
                     /\ r.pid = c.pid /\ r.files = c.files
                  THEN "Completed" ELSE c.state
    BY DEF UpdatedRow, Row
  <2>2. c.state = "Completed" => r.state = "Completed"
    BY DEF WriteOk, SubmittedOk, PolledOk
  <2> QED
    BY <2>1, <2>2
<1> HIDE DEF n
<1>4. Settled(n, p)
  BY <1>1 DEF WriteOk, Settled
<1>5. r.attempts > 0
  <2>1. r.state \notin {"Absent", "Queued"}
    BY DEF WriteOk, SubmittedOk, PolledOk, Moving
  <2> QED
    BY <2>1 DEF RowOk
<1>6. CASE c.state = "Queued"
  <2>1. n.state = "Queued" /\ r.state = "Missing" /\ r.attempts < MaxAttempts
    BY <1>1, <1>6 DEF WriteOk, SubmittedOk, PolledOk
  <2>2. RowOk(n, p)
    BY <1>2, <1>4, <2>1 DEF RowOk
  <2>3. PhaseOf(r) = "Missing" /\ PhaseOf(n) = "Queued"
    BY <2>1, PhaseFacts
  <2>4. Resubmitted(r) = r.attempts - 1 /\ r.attempts \in Nat
    BY <2>1, ResubmittedFacts
  <2>5. Resubmitted(n) = r.attempts
    BY <1>2, <2>1, <2>2, ResubmittedFacts DEF n
  <2>6. Resubmitted(n) = Resubmitted(r) + 1
    BY <2>4, <2>5
  <2> QED
    BY <2>2, <2>3, <2>6 DEF Follows, n
<1>7. CASE c.state # "Queued"
  <2>1. c.state # "Absent"
    BY DEF CopyType, JobState
  <2>2. n.state \notin {"Absent", "Queued"}
    BY <1>1, <1>7, <2>1
  <2>3. RowOk(n, p)
    BY <1>2, <1>4, <1>5, <2>2 DEF RowOk
  <2>4. StateMove(r.state, n.state)
    <3>1. CASE SubmittedOk(c, r)
      BY <1>1, <3>1 DEF SubmittedOk, StateMove
    <3>2. CASE PolledOk(c, r)
      <4>1. CASE n.state \in {"Missing", "Failed"}
        BY <3>2, <4>1 DEF PolledOk, StateMove
      <4>2. CASE n.state = "Completed"
        BY <1>3, <4>2 DEF StateMove
      <4>3. CASE n.state = "Mounting"
        <5>1. r.state \in Moving
          BY <3>2 DEF PolledOk
        <5> QED
          BY <4>3, <5>1 DEF Moving, StateMove
      <4>4. CASE n.state = "Downloading"
        <5>1. c.state = "Downloading"
          BY <1>1, <4>4
        <5>2. r.state \in {"Downloading", "Missing"}
          BY <3>2, <5>1 DEF PolledOk
        <5> QED
          BY <4>4, <5>2 DEF StateMove
      <4>5. c.state \in Moving \cup {"Failed"}
        BY <1>7, <3>2 DEF PolledOk
      <4>6. n.state \in {"Missing", "Failed", "Completed", "Mounting", "Downloading"}
        BY <1>1, <4>5 DEF Moving
      <4> QED
        BY <4>1, <4>2, <4>3, <4>4, <4>6
    <3> QED
      BY <3>1, <3>2 DEF WriteOk
  <2>5. Follows(r, n)
    BY <1>2, <2>3, <2>4, MoveFollows DEF n
  <2> QED
    BY <2>3, <2>5 DEF n
<1> QED
  BY <1>6, <1>7

\* TorBox: a placement that was ready stays so, or is lost.
LEMMA ProvidedOk ==
  ASSUME NEW r, NEW p, RowOk(r, p), NEW q,
         \A id : StatusIn(p, id) \in Shown => StatusIn(q, id) \in Shown
  PROVE  RowOk(r, q)
  BY DEF RowOk, Settled

--------------------------------------------------------------------------------
\* How a step is put together.
LEMMA OneRow ==
  ASSUME TypeOK, RowsOk, NEW j \in Job, NEW n, row' = [row EXCEPT ![j] = n],
         UNCHANGED provider, RowOk(n, provider[j]), Follows(row[j], n)
  PROVE  NextRows
<1>1. row'[j] = n /\ \A k \in Job \ {j} : row'[k] = row[k]
  BY DEF TypeOK
<1> QED
  BY <1>1 DEF RowsOk, NextRows, Follows

LEMMA SameRows ==
  ASSUME RowsOk, UNCHANGED <<row, provider>>
  PROVE  NextRows
  BY DEF RowsOk, NextRows, Follows

LEMMA OkEnds ==
  ASSUME TypeOK, NEW w \in Worker, Return(w)
  PROVE  PassOk(w)'
<1>1. pc'[w] = "idle"
  BY DEF TypeOK, Return
<1> QED
  BY <1>1 DEF PassOk

LEMMA OkGoes ==
  ASSUME TypeOK, NEW w \in Worker, NEW s, NEW j, NEW c, Goto(w, s, j, c),
         s = "poll" => PollOk(c, row'[j]),
         s = "write" => WriteOk(c, row'[j], provider'[j])
  PROVE  PassOk(w)'
<1>1. pc'[w] = s /\ held'[w] = j /\ copy'[w] = c
  BY DEF TypeOK, Goto
<1> QED
  BY <1>1 DEF PassOk

LEMMA LookupOk ==
  ASSUME SoleInv, JobsInv, NEW w \in Worker,
         \/ ClaimUnknownGatewayTorrent(w) \/ NoUnknownTorrent(w)
         \/ FindActive(w) \/ RecordUnknownGatewayLookup(w)
         \/ ResolveUnknownGatewayTorrent(w)
  PROVE  NextRows /\ PassOk(w)'
<1> DEFINE j == held[w]
           c == copy[w]
<1>0. TypeOK /\ RowsOk /\ row \in [Job -> Row]
  BY DEF SoleInv, JobsInv, TypeOK
<1>1. CASE ClaimUnknownGatewayTorrent(w)
  <2>1. PICK i \in Torrent : row' = [row EXCEPT ![i].wait = Lease]
    BY <1>1 DEF ClaimUnknownGatewayTorrent
  <2> DEFINE n == [row[i] EXCEPT !.wait = Lease]
  <2>2. i \in Job /\ row[i] \in Row /\ RowOk(row[i], provider[i])
    BY <1>0 DEF Torrent, RowsOk
  <2>3. n \in Row /\ Advanced(row[i], n) /\ n.attempts = row[i].attempts
    BY <2>2, RowFields, Delays, RowAdvances DEF Row
  <2>4. row' = [row EXCEPT ![i] = n] /\ UNCHANGED provider
    BY <1>1, <2>1 DEF ClaimUnknownGatewayTorrent
  <2> HIDE DEF n
  <2>5. NextRows
    BY <1>0, <2>2, <2>3, <2>4, AdvancedOk, OneRow
  <2>6. pc'[w] = "lookup"
    BY <1>0, <1>1 DEF TypeOK, ClaimUnknownGatewayTorrent
  <2> QED
    BY <2>5, <2>6 DEF PassOk
<1>2. CASE NoUnknownTorrent(w)
  <2>1. pc'[w] = "claim" /\ UNCHANGED <<row, provider>>
    BY <1>0, <1>2 DEF TypeOK, NoUnknownTorrent, rowVars
  <2> QED
    BY <1>0, <2>1, SameRows DEF PassOk
<1>3. CASE FindActive(w)
  <2>1. pc'[w] = "resolve" /\ UNCHANGED <<row, provider>>
    BY <1>0, <1>3 DEF TypeOK, FindActive, Goto, rowVars
  <2> QED
    BY <1>0, <2>1, SameRows DEF PassOk
<1>4. CASE RecordUnknownGatewayLookup(w)
  <2>1. Return(w) /\ UNCHANGED <<row, provider>>
    BY <1>4 DEF RecordUnknownGatewayLookup, rowVars
  <2> QED
    BY <1>0, <2>1, SameRows, OkEnds
<1>5. CASE ResolveUnknownGatewayTorrent(w)
  <2>1. /\ j \in Job /\ row[j] \in Row /\ c \in CopyType
        /\ row[j].state = "SubmissionUnknown" /\ row[j].pid = 0 /\ JobGood(j)
    BY <1>5, PassFacts DEF ResolveUnknownGatewayTorrent, Holds
  <2>2. row[j].missing = 0
    BY <2>1 DEF JobGood, GoodRow, Good
  <2>3. /\ row' = [row EXCEPT ![j] = ResolvedRow(@, c.pid)] /\ Return(w) /\ UNCHANGED provider
    BY <1>5 DEF ResolveUnknownGatewayTorrent
  <2>4. c.pid \in Nat
    BY <2>1 DEF CopyType
  <2>5. RowOk(row[j], provider[j])
    BY <1>0, <2>1 DEF RowsOk
  <2>6. /\ RowOk(ResolvedRow(row[j], c.pid), provider[j])
        /\ Follows(row[j], ResolvedRow(row[j], c.pid))
    BY <2>1, <2>2, <2>4, <2>5, ResolvedOk
  <2>7. NextRows
    BY <1>0, <2>1, <2>3, <2>6, OneRow
  <2> QED
    BY <1>0, <2>3, <2>7, OkEnds
<1> QED
  BY <1>1, <1>2, <1>3, <1>4, <1>5

LEMMA ClaimOk ==
  ASSUME SoleInv, JobsInv, NEW w \in Worker, ClaimGatewayJob(w)
  PROVE  NextRows /\ PassOk(w)'
<1> DEFINE swept == [j \in Job |-> Swept(row[j])]
<1>0. TypeOK /\ RowsOk /\ UNCHANGED provider
  BY DEF SoleInv, JobsInv, ClaimGatewayJob
<1>1. \A j \in Job : /\ row[j] \in Row /\ swept[j] \in Row
                     /\ RowOk(swept[j], provider[j]) /\ Follows(row[j], swept[j])
                     /\ swept[j].attempts = row[j].attempts
                     /\ swept[j].state = "Queued" => row[j].state = "Queued"
  <2> SUFFICES ASSUME NEW j \in Job
               PROVE  /\ row[j] \in Row /\ Swept(row[j]) \in Row
                      /\ RowOk(Swept(row[j]), provider[j]) /\ Follows(row[j], Swept(row[j]))
                      /\ Swept(row[j]).attempts = row[j].attempts
                      /\ Swept(row[j]).state = "Queued" => row[j].state = "Queued"
    OBVIOUS
  <2>1. row[j] \in Row /\ RowOk(row[j], provider[j])
    BY <1>0 DEF TypeOK, RowsOk
  <2> QED
    BY <2>1, SweptOk, SweptTypes, SweptFields
<1>2. swept \in [Job -> Row]
  BY <1>1
<1>3. \/ \E j \in Job :
          /\ Claimable(swept[j], gate = 0)
          /\ row' = [swept EXCEPT ![j] = ClaimedRow(@)]
          /\ IF swept[j].state = "Queued"
             THEN \E s \in {"post", "preflight"} : \E d : Goto(w, s, j, d)
             ELSE Goto(w, "poll", j, CopyOf(swept[j]))
      \/ row' = swept /\ Return(w)
  BY DEF ClaimGatewayJob
<1> HIDE DEF swept
<1>4. CASE row' = swept /\ Return(w)
  <2>1. NextRows
    BY <1>0, <1>1, <1>4 DEF NextRows
  <2> QED
    BY <1>0, <1>4, <2>1, OkEnds
<1>5. ASSUME NEW j \in Job, Claimable(swept[j], gate = 0),
             row' = [swept EXCEPT ![j] = ClaimedRow(@)],
             IF swept[j].state = "Queued"
             THEN \E s \in {"post", "preflight"} : \E d : Goto(w, s, j, d)
             ELSE Goto(w, "poll", j, CopyOf(swept[j]))
      PROVE  NextRows /\ PassOk(w)'
  <2> DEFINE n == ClaimedRow(swept[j])
  <2>1. row'[j] = n /\ \A k \in Job \ {j} : row'[k] = swept[k]
    BY <1>2, <1>5
  <2>2. n \in Row
    <3>1. row' \in [Job -> Row]
      BY <1>0, NextType DEF Next, WorkerNext, TypeOK
    <3> QED
      BY <2>1, <3>1
  <2>3. RowOk(n, provider[j]) /\ Follows(row[j], n)
    <3>1. RowOk(row[j], provider[j])
      BY <1>0 DEF RowsOk
    <3> QED
      BY <1>1, <2>2, <3>1, ClaimedOk
  <2>4. NextRows
    BY <1>0, <1>1, <2>1, <2>3 DEF NextRows
  <2>5. CASE swept[j].state = "Queued"
    BY <1>0, <1>5, <2>4, <2>5, OkGoes
  <2>6. CASE swept[j].state # "Queued"
    <3> DEFINE d == CopyOf(swept[j])
    <3>1. Goto(w, "poll", j, d)
      BY <1>5, <2>6
    <3>2. swept[j].state \in Moving
      BY <1>1, <1>5, <2>6, ClaimableState
    <3>3. /\ d.state = swept[j].state /\ d.pid = swept[j].pid /\ d.missing = swept[j].missing
          /\ d.files = swept[j].files /\ d.attempts = swept[j].attempts
      BY DEF CopyOf
    <3>4. /\ n.state = swept[j].state /\ n.pid = swept[j].pid /\ n.missing = swept[j].missing
          /\ n.files = swept[j].files
      BY <1>1, <2>6, ClaimedFields
    <3>5. n.attempts = swept[j].attempts
      BY <1>1, <2>6 DEF ClaimedRow, Row
    <3> HIDE DEF d, n
    <3>6. PollOk(d, row'[j])
      BY <2>1, <3>2, <3>3, <3>4, <3>5 DEF PollOk
    <3> QED
      BY <1>0, <2>4, <3>1, <3>6, OkGoes
  <2> QED
    BY <2>5, <2>6
<1> QED
  BY <1>3, <1>4, <1>5

\* A submission settles for nothing its row would have to answer for.
LEMMA SubmissionOk ==
  ASSUME NEW c \in CopyType, NEW r, r.state = "Submitting", NEW p
  PROVE  WriteOk(Unanswered(c), r, p) /\ \A id : WriteOk(Accepted(c, id), r, p)
  BY OutcomeFields DEF WriteOk, SubmittedOk, Settled

LEMMA SubmitOk ==
  ASSUME SoleInv, JobsInv, NEW w \in Worker,
         Preflight(w) \/ DeferGatewaySubmission(w) \/ Post(w)
  PROVE  NextRows /\ PassOk(w)'
<1> DEFINE j == held[w]
           c == copy[w]
<1>0. TypeOK /\ RowsOk
  BY DEF SoleInv, JobsInv
<1>1. /\ j \in Job /\ c \in CopyType /\ row[j] \in Row /\ row[j].state = "Submitting"
      /\ RowOk(row[j], provider[j])
  BY <1>0, PassFacts DEF Preflight, DeferGatewaySubmission, Post, Holds, BeforePost, RowsOk
<1>2. CASE Preflight(w)
  <2>1. /\ UNCHANGED <<row, provider>>
        /\ \/ Goto(w, "write", j, Unanswered(c)) \/ Goto(w, "defer", j, c)
           \/ \E id : Goto(w, "write", j, Accepted(c, id)) \/ Goto(w, "post", j, c)
    BY <1>2 DEF Preflight, rowVars
  <2>2. /\ WriteOk(Unanswered(c), row'[j], provider'[j])
        /\ \A id : WriteOk(Accepted(c, id), row'[j], provider'[j])
    BY <1>1, <2>1, SubmissionOk
  <2>3. ASSUME Goto(w, "write", j, Unanswered(c)) PROVE PassOk(w)'
    BY <1>0, <2>2, <2>3, OkGoes
  <2>4. ASSUME Goto(w, "defer", j, c) PROVE PassOk(w)'
    BY <1>0, <2>4, OkGoes
  <2>5. ASSUME NEW id, Goto(w, "write", j, Accepted(c, id)) PROVE PassOk(w)'
    BY <1>0, <2>2, <2>5, OkGoes
  <2>6. ASSUME Goto(w, "post", j, c) PROVE PassOk(w)'
    BY <1>0, <2>6, OkGoes
  <2>7. NextRows
    BY <1>0, <2>1, SameRows
  <2> QED
    BY <2>1, <2>3, <2>4, <2>5, <2>6, <2>7
<1>3. CASE DeferGatewaySubmission(w)
  <2>1. row' = [row EXCEPT ![j] = DeferredRow(@)] /\ Return(w) /\ UNCHANGED provider
    BY <1>3 DEF DeferGatewaySubmission
  <2>2. RowOk(DeferredRow(row[j]), provider[j]) /\ Follows(row[j], DeferredRow(row[j]))
    BY <1>1, DeferredOk
  <2>3. NextRows
    BY <1>0, <1>1, <2>1, <2>2, OneRow
  <2> QED
    BY <1>0, <2>1, <2>3, OkEnds
<1>4. CASE Post(w)
  <2>1. /\ UNCHANGED row
        /\ \E outcome : provider' = [provider EXCEPT ![j] = Append(@, outcome)]
        /\ \/ \E id : Goto(w, "write", j, Accepted(c, id))
           \/ Goto(w, "write", j, Unanswered(c))
    BY <1>4 DEF Post, rowVars
  <2>2. \A k \in Job \ {j} : provider'[k] = provider[k]
    BY <1>0, <2>1 DEF TypeOK
  <2>3. RowOk(row[j], provider'[j])
    BY <1>1 DEF RowOk, Settled
  <2>4. NextRows
    BY <1>0, <2>1, <2>2, <2>3 DEF RowsOk, NextRows, Follows
  <2>5. /\ WriteOk(Unanswered(c), row'[j], provider'[j])
        /\ \A id : WriteOk(Accepted(c, id), row'[j], provider'[j])
    BY <1>1, <2>1, SubmissionOk
  <2>6. ASSUME Goto(w, "write", j, Unanswered(c)) PROVE PassOk(w)'
    BY <1>0, <2>5, <2>6, OkGoes
  <2>7. ASSUME NEW id, Goto(w, "write", j, Accepted(c, id)) PROVE PassOk(w)'
    BY <1>0, <2>5, <2>7, OkGoes
  <2> QED
    BY <2>1, <2>4, <2>6, <2>7
<1> QED
  BY <1>2, <1>3, <1>4

--------------------------------------------------------------------------------
\* What a poll may decide for row r, whose copy is c.
LEMMA PolledFailed ==
  ASSUME NEW c, NEW r, PollOk(c, r), NEW d, d.state = "Failed", NEW p
  PROVE  WriteOk(d, r, p)
  BY DEF PollOk, WriteOk, PolledOk, Settled

LEMMA PolledAgain ==
  ASSUME NEW c, NEW r, PollOk(c, r), NEW p, RowOk(r, p),
         NEW d, d.state = c.state, d.pid = c.pid, d.files = c.files, d.missing = 0
  PROVE  WriteOk(d, r, p)
<1>1. r.state \in Moving /\ d.state \in Moving
  BY DEF PollOk, Moving
<1>2. d.state = r.state \/ (d.state = "Mounting" /\ r.state = "Completed")
  BY DEF PollOk
<1>3. d.pid = r.pid /\ d.files = r.files
  BY DEF PollOk
<1>4. PolledOk(d, r)
  BY <1>1, <1>2, <1>3 DEF PolledOk, Moving
<1>5. Settled(d, p)
  BY <1>2, <1>3 DEF RowOk, Settled
<1> QED
  BY <1>4, <1>5 DEF WriteOk

\* An active placement was never ready: its row has not been Mounting.
LEMMA PolledActive ==
  ASSUME NEW c, NEW r, PollOk(c, r), NEW p, RowOk(r, p), StatusIn(p, c.pid) \notin Shown,
         NEW d, d.state = "Downloading", d.missing = 0
  PROVE  WriteOk(d, r, p)
<1>1. r.state \in {"Downloading", "Missing"}
  BY DEF PollOk, RowOk, Settled, Moving
<1> QED
  BY <1>1 DEF WriteOk, PolledOk, Settled, Moving

\* The last of the absences finds a missing job.
LEMMA PolledAbsent ==
  ASSUME Confirmed, NEW c \in CopyType, NEW r, PollOk(c, r), NEW p, RowOk(r, p)
  PROVE  WriteOk(AfterAbsence(c), r, p)
<1> DEFINE d == AfterAbsence(c)
<1>1. /\ c.missing \in Nat /\ MissingThreshold \in Nat
      /\ d.state \in {"Missing", "Failed", "Queued"}
      /\ c.missing + 1 < MissingThreshold => d.state = "Missing"
  BY RowConstants, DecisionFields DEF CopyType
<1>2. d.state = "Queued" => ~(c.attempts >= MaxAttempts)
  BY DEF AfterAbsence, CopyType
<1> HIDE DEF d
<1>3. ASSUME d.state = "Queued" PROVE r.state = "Missing" /\ r.attempts < MaxAttempts
  <2>1. c.missing > 0
    BY <1>1, <1>3 DEF Confirmed
  <2>2. r.missing # 0
    BY <1>1, <2>1 DEF PollOk
  <2>3. r.state = "Missing"
    BY <2>2 DEF PollOk, RowOk, Settled, Moving
  <2>4. c.attempts \in Nat /\ MaxAttempts \in Nat
    BY RowConstants DEF CopyType
  <2>5. c.attempts < MaxAttempts
    BY <1>2, <1>3, <2>4
  <2> QED
    BY <2>3, <2>5 DEF PollOk
<1>4. PolledOk(d, r)
  BY <1>1, <1>3 DEF PolledOk, PollOk, Moving
<1>5. Settled(d, p)
  BY <1>1 DEF Settled
<1> QED
  BY <1>4, <1>5 DEF WriteOk, d

LEMMA PolledReady ==
  ASSUME NEW c \in CopyType, NEW r, PollOk(c, r), NEW p, RowOk(r, p),
         StatusIn(p, c.pid) = "ready", NEW f \in Catalog
  PROVE  WriteOk(AfterReady(c, f), r, p)
<1> DEFINE d == AfterReady(c, f)
<1>1. CASE c.files # NoFiles /\ ~SameCatalog(c.files, f)
  <2>1. d.state = "Failed"
    BY <1>1 DEF AfterReady, CopyType
  <2> QED
    BY <2>1, PolledFailed
<1>2. CASE ~(c.files # NoFiles /\ ~SameCatalog(c.files, f))
  <2>1. /\ d.state = IF c.state = "Completed" THEN "Completed" ELSE "Mounting"
        /\ d.files = f /\ d.pid = c.pid /\ d.missing = 0
    BY <1>2 DEF AfterReady, CopyType
  <2>2. f # NoFiles
    BY RowConstants
  <2> HIDE DEF d
  <2>3. d.state = "Completed" => r.state = "Completed"
    BY <2>1 DEF PollOk
  <2>4. PolledOk(d, r)
    BY <2>1, <2>3 DEF PolledOk, PollOk, Moving
  <2>5. Settled(d, p)
    BY <2>1, <2>2 DEF Settled, Shown
  <2> QED
    BY <2>4, <2>5 DEF WriteOk, d
<1> QED
  BY <1>1, <1>2

LEMMA PollStepOk ==
  ASSUME Confirmed, SoleInv, JobsInv, NEW w \in Worker, Poll(w)
  PROVE  NextRows /\ PassOk(w)'
<1> DEFINE j == held[w]
           c == copy[w]
           p == provider[j]
           status == StatusOf(j, c.pid)
           reset == [c EXCEPT !.missing = 0, !.delay = Lease]
           failed == [c EXCEPT !.state = "Failed", !.missing = 0, !.delay = Lease]
           active == [c EXCEPT !.state = "Downloading", !.missing = 0, !.delay = 0]
<1>1. /\ pc[w] = "poll" /\ UNCHANGED <<row, provider>>
      /\ \/ Goto(w, "write", j, reset) \/ Goto(w, "write", j, failed)
         \/ Goto(w, "write", j, AfterAbsence(c))
         \/ status = "active" /\ Goto(w, "write", j, active)
         \/ \E f \in Catalog : status = "ready" /\ Goto(w, "write", j, AfterReady(c, f))
  BY DEF Poll, rowVars
<1>2. TypeOK /\ RowsOk /\ NextRows
  BY <1>1, SameRows DEF SoleInv, JobsInv
<1>3. /\ j \in Job /\ c \in CopyType /\ RowOk(row[j], p) /\ PollOk(c, row[j])
  BY <1>1, <1>2, PassFacts DEF RowsOk, JobsInv, PassOk
<1>4. ASSUME NEW d, Goto(w, "write", j, d), WriteOk(d, row[j], p) PROVE PassOk(w)'
  BY <1>1, <1>2, <1>4, OkGoes
<1>5. status = StatusIn(p, c.pid)
  BY DEF StatusOf, StatusIn, Placements
<1>6. /\ reset.state = c.state /\ reset.pid = c.pid /\ reset.files = c.files
      /\ reset.missing = 0 /\ failed.state = "Failed"
      /\ active.state = "Downloading" /\ active.missing = 0
  BY <1>3 DEF CopyType
<1> HIDE DEF reset, failed, active, status
<1>7. /\ WriteOk(reset, row[j], p) /\ WriteOk(failed, row[j], p)
      /\ WriteOk(AfterAbsence(c), row[j], p)
  BY <1>3, <1>6, PolledAgain, PolledFailed, PolledAbsent
<1>8. status = "active" => WriteOk(active, row[j], p)
  BY <1>3, <1>5, <1>6, PolledActive DEF Shown
<1>9. \A f \in Catalog : status = "ready" => WriteOk(AfterReady(c, f), row[j], p)
  BY <1>3, <1>5, PolledReady
<1> QED
  BY <1>1, <1>2, <1>4, <1>7, <1>8, <1>9

LEMMA UpdateOk ==
  ASSUME SoleInv, JobsInv, NEW w \in Worker, UpdateGatewayJob(w)
  PROVE  NextRows /\ PassOk(w)'
<1> DEFINE j == held[w]
           c == copy[w]
           n == UpdatedRow(row[j], c, c.delay)
<1>0. TypeOK /\ RowsOk
  BY DEF SoleInv, JobsInv
<1>1. /\ pc[w] = "write" /\ row' = [row EXCEPT ![j] = n] /\ Return(w) /\ UNCHANGED provider
  BY DEF UpdateGatewayJob
<1>2. /\ j \in Job /\ row[j] \in Row /\ c \in CopyType /\ RowOk(row[j], provider[j])
      /\ WriteOk(c, row[j], provider[j])
  BY <1>0, <1>1, PassFacts DEF RowsOk, JobsInv, PassOk
<1>3. n \in Row
  <2>1. c.delay \in 0 .. Lease
    BY <1>2, Delays DEF CopyType
  <2> QED
    BY <1>2, <2>1, UpdatedType
<1>4. RowOk(n, provider[j]) /\ Follows(row[j], n)
  BY <1>2, <1>3, UpdatedOk
<1> HIDE DEF n
<1>5. NextRows
  BY <1>0, <1>1, <1>2, <1>4, OneRow
<1> QED
  BY <1>0, <1>1, <1>5, OkEnds

LEMMA WorkerOk ==
  ASSUME Confirmed, SoleInv, JobsInv, NEW w \in Worker, WorkerNext(w) \/ Abandon(w)
  PROVE  NextRows /\ PassOk(w)'
<1>1. CASE Abandon(w)
  <2>1. TypeOK /\ RowsOk /\ Return(w) /\ UNCHANGED <<row, provider>>
    BY <1>1 DEF SoleInv, JobsInv, Abandon, rowVars
  <2> QED
    BY <2>1, SameRows, OkEnds
<1>2. CASE WorkerNext(w)
  BY <1>2, LookupOk, ClaimOk, SubmitOk, PollStepOk, UpdateOk DEF WorkerNext
<1> QED
  BY <1>1, <1>2

--------------------------------------------------------------------------------
\* The other actors leave a copy what it was of its row.
LEMMA AdvancedKeeps ==
  ASSUME NEW c, NEW r, NEW n, Advanced(r, n), n.attempts = r.attempts, NEW p
  PROVE  /\ PollOk(c, r) => PollOk(c, n)
         /\ WriteOk(c, r, p) => WriteOk(c, n, p)
<1>1. ASSUME PollOk(c, r) PROVE PollOk(c, n)
  BY <1>1 DEF PollOk, Advanced, Moving
<1>2. ASSUME SubmittedOk(c, r) PROVE SubmittedOk(c, n)
  BY <1>2 DEF SubmittedOk, Advanced
<1>3. ASSUME PolledOk(c, r) PROVE PolledOk(c, n)
  BY <1>3 DEF PolledOk, Advanced, Moving
<1> QED
  BY <1>1, <1>2, <1>3 DEF WriteOk

LEMMA RowsAdvanceOk ==
  ASSUME SoleInv, JobsInv, TypeOK', UNCHANGED <<pc, held, copy, provider>>,
         \A j \in Job : Advanced(row[j], row'[j]) /\ row'[j].attempts = row[j].attempts
  PROVE  NextRows /\ \A w \in Worker : PassOk(w)'
<1>1. \A j \in Job : row[j] \in Row /\ row'[j] \in Row /\ RowOk(row[j], provider[j])
  BY DEF SoleInv, TypeOK, JobsInv, RowsOk
<1>2. NextRows
  BY <1>1, AdvancedOk DEF NextRows
<1>3. ASSUME NEW w \in Worker PROVE PassOk(w)'
  <2> SUFFICES ASSUME pc[w] \in {"poll", "write"} PROVE PassOk(w)'
    BY DEF PassOk
  <2>1. held[w] \in Job
    BY PassFacts
  <2>2. PassOk(w)
    BY <1>3 DEF JobsInv
  <2>3. /\ PollOk(copy[w], row[held[w]]) => PollOk(copy[w], row'[held[w]])
        /\ WriteOk(copy[w], row[held[w]], provider[held[w]])
             => WriteOk(copy[w], row'[held[w]], provider[held[w]])
    BY <2>1, AdvancedKeeps
  <2> QED
    BY <2>2, <2>3 DEF PassOk
<1> QED
  BY <1>2, <1>3

LEMMA ProviderOk ==
  ASSUME SoleInv, JobsInv, NEW i \in Job, NEW id \in Placements(i), ProviderStep(i, id)
  PROVE  NextRows /\ \A w \in Worker : PassOk(w)'
<1>0. /\ UNCHANGED <<row, pc, held, copy>>
      /\ \A j \in Job : provider[j] \in Seq(Placement) /\ RowOk(row[j], provider[j])
  BY DEF SoleInv, TypeOK, JobsInv, RowsOk, ProviderStep, rowVars, workerVars
<1>1. PICK move \in ProviderMove :
        /\ provider[i][id] = move[1]
        /\ provider' = [provider EXCEPT ![i][id] = move[2]]
  BY DEF ProviderStep
<1>2. move[1] \in Shown => move[2] \in Shown
  BY DEF ProviderMove, Shown
<1>3. ASSUME NEW j \in Job, NEW x, StatusIn(provider[j], x) \in Shown
      PROVE  StatusIn(provider'[j], x) \in Shown
  <2>1. CASE j # i
    BY <1>1, <1>3, <2>1 DEF SoleInv, TypeOK
  <2>2. CASE j = i
    <3>1. provider'[i] = [provider[i] EXCEPT ![id] = move[2]]
      BY <1>1 DEF SoleInv, TypeOK
    <3>2. /\ DOMAIN provider'[i] = DOMAIN provider[i] /\ id \in DOMAIN provider[i]
          /\ \A y \in DOMAIN provider[i] :
               provider'[i][y] = IF y = id THEN move[2] ELSE provider[i][y]
      BY <3>1 DEF Placements
    <3> QED
      BY <1>1, <1>2, <1>3, <2>2, <3>2 DEF StatusIn
  <2> QED
    BY <2>1, <2>2
<1>4. NextRows
  <2>1. ASSUME NEW j \in Job PROVE RowOk(row[j], provider'[j])
    <3>1. RowOk(row[j], provider[j])
      BY <1>0
    <3>2. \A x : StatusIn(provider[j], x) \in Shown => StatusIn(provider'[j], x) \in Shown
      BY <1>3
    <3> QED
      BY <3>1, <3>2, ProvidedOk
  <2> QED
    BY <1>0, <2>1 DEF NextRows, Follows
<1>5. ASSUME NEW w \in Worker PROVE PassOk(w)'
  <2> SUFFICES ASSUME pc[w] \in {"poll", "write"} PROVE PassOk(w)'
    BY <1>0 DEF PassOk
  <2>1. held[w] \in Job
    BY PassFacts
  <2>2. PassOk(w)
    BY <1>5 DEF JobsInv
  <2>3. Settled(copy[w], provider[held[w]]) => Settled(copy[w], provider'[held[w]])
    BY <1>3, <2>1 DEF Settled
  <2> QED
    BY <1>0, <2>2, <2>3 DEF PassOk, WriteOk
<1> QED
  BY <1>4, <1>5

LEMMA EnvironmentOk ==
  ASSUME SoleInv, JobsInv, TypeOK',
         \/ \E j \in Job : AddGatewaySource(j) \/ WakeGatewayJob(j) \/ FinishGatewayMount(j)
         \/ \E j \in Job : \E id \in Placements(j) : ProviderStep(j, id)
         \/ Tick \/ UNCHANGED vars
  PROVE  NextRows /\ \A w \in Worker : PassOk(w)'
<1>0. row \in [Job -> Row]
  BY DEF SoleInv, TypeOK
<1>1. \A r \in Row : /\ AddedRow(r).attempts = r.attempts
                     /\ WokenRow(r).attempts = r.attempts
                     /\ VerifiedRow(r).attempts = r.attempts
                     /\ \A n : [r EXCEPT !.wait = n].attempts = r.attempts
  BY DEF AddedRow, WokenRow, VerifiedRow, Row
<1>2. ASSUME NEW j \in Job, AddGatewaySource(j) \/ WakeGatewayJob(j) \/ FinishGatewayMount(j)
      PROVE  NextRows /\ \A w \in Worker : PassOk(w)'
  <2>1. /\ UNCHANGED <<pc, held, copy, provider>>
        /\ \/ row' = [row EXCEPT ![j] = AddedRow(@)]
           \/ row' = [row EXCEPT ![j] = WokenRow(@)]
           \/ row' = [row EXCEPT ![j] = VerifiedRow(@)]
    BY <1>2 DEF AddGatewaySource, WakeGatewayJob, FinishGatewayMount, workerVars
  <2>2. \A k \in Job : Advanced(row[k], row'[k]) /\ row'[k].attempts = row[k].attempts
    BY <1>0, <1>1, <1>2, <2>1, RowAdvances
  <2> QED
    BY <2>1, <2>2, RowsAdvanceOk
<1>3. ASSUME NEW j \in Job, NEW id \in Placements(j), ProviderStep(j, id)
      PROVE  NextRows /\ \A w \in Worker : PassOk(w)'
  BY <1>3, ProviderOk
<1>4. CASE Tick
  <2>1. /\ UNCHANGED <<pc, held, copy, provider>>
        /\ row' = [j \in Job |-> [row[j] EXCEPT !.wait = CountDown(@)]]
    BY <1>4 DEF Tick
  <2>2. \A k \in Job : Advanced(row[k], row'[k]) /\ row'[k].attempts = row[k].attempts
    BY <1>0, <1>1, <2>1, RowAdvances
  <2> QED
    BY <2>1, <2>2, RowsAdvanceOk
<1>5. CASE UNCHANGED vars
  <2>1. UNCHANGED <<row, provider, pc, held, copy>>
    BY <1>5 DEF vars
  <2>2. NextRows
    BY <2>1, SameRows DEF JobsInv
  <2> QED
    BY <2>1, <2>2 DEF JobsInv, PassOk
<1> QED
  BY <1>2, <1>3, <1>4, <1>5

LEMMA JobsStep ==
  ASSUME Confirmed, SoleWorker, SoleInv, JobsInv, [Next]_vars
  PROVE  NextRows /\ JobsInv'
<1>1. TypeOK'
  BY NextType DEF SoleInv
<1>2. NextRows /\ \A w \in Worker : PassOk(w)'
  <2>1. ASSUME NEW w \in Worker, WorkerNext(w) \/ Abandon(w)
        PROVE  NextRows /\ \A v \in Worker : PassOk(v)'
    <3>1. NextRows /\ PassOk(w)'
      BY <2>1, WorkerOk
    <3>2. \A v \in Worker : v = w
      BY DEF SoleWorker
    <3> QED
      BY <3>1, <3>2 DEF PassOk
  <2> QED
    BY <1>1, <2>1, EnvironmentOk DEF Next
<1>3. RowsOk'
  BY <1>2 DEF NextRows, RowsOk
<1> QED
  BY <1>2, <1>3 DEF JobsInv

--------------------------------------------------------------------------------
\* The rows, seen by their releases.
LEMMA JobsSimulated ==
  ASSUME TypeOK, RowsOk, TypeOK', RowsOk', NextRows
  PROVE  [Jobs!JobsNext]_(Jobs!jobs)
<1>1. ASSUME NEW r \in Row PROVE PhaseOf(r) \in Jobs!JobPhase
  <2>1. r.state \in JobState \cup {"Absent"}
    BY DEF Row
  <2>2. PhaseOf(r) \in {"Queued", "Working", "Unknown", "Absent", "Missing", "Completed", "Failed"}
    BY <2>1, PhaseFacts DEF JobState
  <2> QED
    BY <2>2 DEF Jobs!JobPhase
<1>2. \A j \in Job : /\ row'[j] \in Row
                     /\ PhaseOf(row'[j]) \in Jobs!JobPhase
                     /\ Resubmitted(row'[j]) \in 0 .. (MaxAttempts - 1)
  BY <1>1, ResubmittedFacts DEF TypeOK, RowsOk
<1>3. Jobs!JobsTyped'
  BY <1>2 DEF Jobs!JobsTyped
<1>4. ASSUME NEW j \in Job PROVE Jobs!Stays(j) \/ Jobs!Moves(j) \/ Jobs!Recovers(j)
  <2>1. Follows(row[j], row'[j])
    BY <1>4 DEF NextRows
  <2> QED
    BY <1>4, <2>1 DEF Follows, Jobs!Stays, Jobs!Moves, Jobs!Recovers
<1> QED
  BY <1>3, <1>4 DEF Jobs!JobsNext

LEMMA JobsInitial == Init => JobsInv /\ Jobs!JobsInit
<1> SUFFICES ASSUME Init PROVE JobsInv /\ Jobs!JobsInit
  OBVIOUS
<1>1. row = [j \in Job |-> NoRow] /\ \A w \in Worker : pc[w] = "idle"
  BY DEF Init
<1>2. PhaseOf(NoRow) = "Absent" /\ Resubmitted(NoRow) = 0 /\ \A p : RowOk(NoRow, p)
  BY RowConstants DEF NoRow, PhaseOf, Resubmitted, RowOk, Settled
<1>3. JobsInv
  BY <1>1, <1>2 DEF JobsInv, RowsOk, PassOk
<1>4. Jobs!JobsInit
  BY <1>1, <1>2 DEF Jobs!JobsInit
<1> QED
  BY <1>3, <1>4

\* With one worker and more than one confirmation, the worker implements the
\* jobs a release relies on: no poll completes a job by its write-back, none
\* starts a completed one afresh, and a job is submitted again only from Missing
\* and within the limit, never after a failure or an unknown outcome.
THEOREM JobsImplemented ==
  ASSUME SoleWorker, Confirmed
  PROVE  Spec => ImplementsReleaseJobs
<1>1. Init => JobsInv /\ Jobs!JobsInit
  BY JobsInitial
<1>2. SoleInv /\ JobsInv /\ [Next]_vars => JobsInv'
  BY JobsStep
<1>3. SoleInv /\ JobsInv /\ [Next]_vars => [Jobs!JobsNext]_(Jobs!jobs)
  <2> SUFFICES ASSUME SoleInv, JobsInv, [Next]_vars
               PROVE  [Jobs!JobsNext]_(Jobs!jobs)
    OBVIOUS
  <2>1. NextRows /\ JobsInv'
    BY JobsStep
  <2>2. TypeOK /\ TypeOK'
    BY NextType DEF SoleInv
  <2> QED
    BY <2>1, <2>2, JobsSimulated DEF JobsInv
<1> QED
  BY <1>1, <1>2, <1>3, SoleAlways, PTL DEF Spec, ImplementsReleaseJobs, Jobs!JobsSpec
================================================================================
