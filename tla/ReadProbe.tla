--------------------------------- MODULE ReadProbe ---------------------------------
(***************************************************************************)
(* Reads of a mount that may not answer (csi.ReadProbe): a check starts a  *)
(* goroutine that reads, and leaves it behind when its own time is over.   *)
(* The goroutine keeps its slot and its path until the read returns.       *)
(***************************************************************************)
EXTENDS Naturals, FiniteSets

CONSTANTS Checker, ProbePath, NoPath, Slots

ASSUME ProbeConstants == NoPath \notin ProbePath /\ Slots \in Nat

VARIABLES
  active,  \* ReadProbe.active
  taken,   \* slots that are taken
  reads,   \* goroutines that read: whose check started them, and the path
  asked    \* asked[c]: the path c waits for

probeVars == <<active, taken, reads, asked>>

ProbeTypeOK ==
  /\ active \subseteq ProbePath
  /\ taken \in Nat
  /\ reads \subseteq Checker \X ProbePath
  /\ asked \in [Checker -> ProbePath \cup {NoPath}]

ProbeInit ==
  /\ active = {} /\ taken = 0 /\ reads = {}
  /\ asked = [c \in Checker |-> NoPath]

\* Mutation of Free: a path that is still being read is read again.
FreeSlot(p) == taken < Slots

\* Otherwise the check fails with ErrProbePathBusy or ErrProbeBusy.
Free(p) == p \notin active /\ taken < Slots

\* Check, up to the wait.
ProbeStarts(c, p) ==
  /\ asked[c] = NoPath /\ Free(p)
  /\ active' = active \cup {p} /\ taken' = taken + 1
  /\ reads' = reads \cup {<<c, p>>}
  /\ asked' = [asked EXCEPT ![c] = p]

\* Mutation of Given: the slot is given back twice.
GivenTwice(n) == n - 2

\* The slots taken after one is given back.
Given(n) == n - 1

ReadReturns(c, p) ==
  /\ <<c, p>> \in reads
  /\ reads' = reads \ {<<c, p>>}
  /\ active' = active \ {p} /\ taken' = Given(taken)
  /\ asked' = IF asked[c] = p THEN [asked EXCEPT ![c] = NoPath] ELSE asked

\* ctx.Done: the read is left behind.
CheckTimesOut(c) ==
  /\ asked[c] # NoPath
  /\ asked' = [asked EXCEPT ![c] = NoPath]
  /\ UNCHANGED <<active, taken, reads>>

ProbeNext ==
  \/ \E c \in Checker, p \in ProbePath : ProbeStarts(c, p) \/ ReadReturns(c, p)
  \/ \E c \in Checker : CheckTimesOut(c)

ProbeSpec == ProbeInit /\ [][ProbeNext]_probeVars

--------------------------------------------------------------------------------
\* However many checks have given up on reads that hang, no path is read twice
\* at a time, and what is outstanding is bounded by the slots and accounts for
\* all of them (ReadProbe: "bounds outstanding filesystem work even when FUSE
\* ignores deadlines", "paths are never duplicated").
ProbeBounded ==
  /\ \A r, q \in reads : r[2] = q[2] => r = q
  /\ Cardinality(reads) = taken /\ taken <= Slots
================================================================================
