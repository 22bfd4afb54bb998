------------------------------ MODULE DeliveryLinks ------------------------------
(***************************************************************************)
(* How the gateway's WebDAV server streams a file (gateway/dav.go DAV,     *)
(* stream, deliveryLink): it finds the file in the catalog of jobs, takes  *)
(* a delivery link from its cache or from the provider, and asks once for  *)
(* a new one when the first is refused.                                    *)
(*                                                                         *)
(* One mutex guards the cache, and is held while the provider is asked.    *)
(* The links of a file are numbered; the provider refuses those it has     *)
(* revoked.                                                                *)
(***************************************************************************)
EXTENDS Naturals

CONSTANTS
  Streamed,    \* files of the catalog whose jobs are Completed or Mounting
  Reader,      \* requests to stream one
  NoReader, NoFile,
  MaxLinks     \* bound on the links minted for a file

ASSUME DeliveryAssumption ==
  NoReader \notin Reader /\ NoFile \notin Streamed /\ MaxLinks \in Nat

VARIABLES
  minted,    \* links the provider has made for a file
  revoked,   \* how many of them, the oldest, it refuses
  cache,     \* the cache: a file's link, 0 when there is none that is fresh
  holder,    \* the reader that has the cache's mutex
  reader     \* a request: its step, file and attempt, the link in hand, and
             \* (history) the links minted for the file before it came

deliveryVars == <<minted, revoked, cache, holder, reader>>

ReadStepName == {"idle", "locking", "linking", "asking", "refused"}
Read == [step : ReadStepName, file : Streamed \cup {NoFile}, attempt : {0, 1},
         link : 0 .. MaxLinks, since : 0 .. MaxLinks]

\* What is cached has been made, and who has the mutex asks the provider.
DeliveryTypeOK ==
  /\ minted \in [Streamed -> 0 .. MaxLinks]
  /\ revoked \in [Streamed -> Nat] /\ cache \in [Streamed -> Nat]
  /\ \A f \in Streamed : revoked[f] <= minted[f] /\ cache[f] <= minted[f]
  /\ holder \in Reader \cup {NoReader}
  /\ reader \in [Reader -> Read]
  /\ \A r \in Reader : reader[r].step = "linking" <=> holder = r

NotCached == 0
NoRead == [step |-> "idle", file |-> NoFile, attempt |-> 0, link |-> 0, since |-> 0]
Ended == {"idle", "refused"}
Waiting == {"locking", "linking"}

DeliveryInit ==
  /\ minted = [f \in Streamed |-> 0]
  /\ revoked = [f \in Streamed |-> 0]
  /\ cache = [f \in Streamed |-> NotCached]
  /\ holder = NoReader
  /\ reader = [r \in Reader |-> NoRead]

--------------------------------------------------------------------------------
\* A file that is not in the catalog, or not placed yet, is refused at once,
\* and so is everything but reading a file: neither changes any state.
ReadStarts(r, f) ==
  /\ reader[r].step \in Ended
  /\ reader' = [reader EXCEPT ![r] =
       [NoRead EXCEPT !.step = "locking", !.file = f, !.since = minted[f]]]
  /\ UNCHANGED <<minted, revoked, cache, holder>>

\* Mutation of FromCache: the second attempt takes a cached link too.
FromCacheAgain(r) == cache[reader[r].file] # NotCached

\* The cached link serves a first attempt.
FromCache(r) == reader[r].attempt = 0 /\ cache[reader[r].file] # NotCached

TakeLink(r) ==
  /\ reader[r].step = "locking" /\ holder = NoReader
  /\ IF FromCache(r)
     THEN /\ reader' = [reader EXCEPT ![r].step = "asking",
                                      ![r].link = cache[reader[r].file]]
          /\ UNCHANGED holder
     ELSE /\ reader' = [reader EXCEPT ![r].step = "linking"]
          /\ holder' = r
  /\ UNCHANGED <<minted, revoked, cache>>

\* The provider makes a link: it is cached, and the mutex is released.  What
\* is no longer fresh is dropped from the cache, which nobody can tell.
LinkMade(r) ==
  LET f == reader[r].file
      new == minted[f] + 1
  IN /\ reader[r].step = "linking" /\ minted[f] < MaxLinks
     /\ minted' = [minted EXCEPT ![f] = new]
     /\ cache' = [cache EXCEPT ![f] = new]
     /\ reader' = [reader EXCEPT ![r].step = "asking", ![r].link = new]
     /\ holder' = NoReader
     /\ UNCHANGED revoked

\* Mutation of LinkFails: the mutex is not released.
LinkFailsLocked(r) ==
  /\ reader[r].step = "linking"
  /\ reader' = [reader EXCEPT ![r] = NoRead]
  /\ UNCHANGED <<minted, revoked, cache, holder>>

LinkFails(r) ==
  /\ reader[r].step = "linking"
  /\ reader' = [reader EXCEPT ![r] = NoRead]
  /\ holder' = NoReader
  /\ UNCHANGED <<minted, revoked, cache>>

\* The delivery server answers and its file is copied to the client; or it
\* fails, or the client goes away.
Delivered(r) ==
  /\ reader[r].step = "asking"
  /\ reader[r].link > revoked[reader[r].file]
  /\ reader' = [reader EXCEPT ![r] = NoRead]
  /\ UNCHANGED <<minted, revoked, cache, holder>>

DeliveryFails(r) ==
  /\ reader[r].step = "asking"
  /\ reader' = [reader EXCEPT ![r] = NoRead]
  /\ UNCHANGED <<minted, revoked, cache, holder>>

\* It refuses the link: a first attempt is made again with a new one.
LinkRefused(r) ==
  /\ reader[r].step = "asking"
  /\ reader[r].link <= revoked[reader[r].file]
  /\ reader' = IF reader[r].attempt = 0
               THEN [reader EXCEPT ![r].step = "locking", ![r].attempt = 1]
               ELSE [reader EXCEPT ![r].step = "refused"]
  /\ UNCHANGED <<minted, revoked, cache, holder>>

GatewayRestarts ==
  /\ cache' = [f \in Streamed |-> NotCached]
  /\ holder' = NoReader
  /\ reader' = [r \in Reader |-> NoRead]
  /\ UNCHANGED <<minted, revoked>>

--------------------------------------------------------------------------------
(* The provider and the cache's clock. *)

LinksRevoked(f) ==
  /\ revoked[f] < minted[f]
  /\ revoked' = [revoked EXCEPT ![f] = minted[f]]
  /\ UNCHANGED <<minted, cache, holder, reader>>

\* Twenty minutes after it was made.
LinkAges(f) ==
  /\ cache[f] # NotCached
  /\ cache' = [cache EXCEPT ![f] = NotCached]
  /\ UNCHANGED <<minted, revoked, holder, reader>>

ReaderStep(r) ==
  \/ \E f \in Streamed : ReadStarts(r, f)
  \/ TakeLink(r) \/ LinkMade(r) \/ LinkFails(r)
  \/ Delivered(r) \/ DeliveryFails(r) \/ LinkRefused(r)

DeliveryNext ==
  \/ \E r \in Reader : ReaderStep(r)
  \/ \E f \in Streamed : LinksRevoked(f) \/ LinkAges(f)
  \/ GatewayRestarts

\* The provider makes a link or fails: its client has a time limit of 45
\* seconds.  Go's mutex starves nobody who waits for it.  Nothing is assumed of
\* the delivery server: streamHTTPClient limits the wait for the headers only,
\* so connecting and copying the file may last for ever.
DeliveryFairness ==
  \A r \in Reader :
    /\ WF_deliveryVars(LinkMade(r) \/ LinkFails(r))
    /\ SF_deliveryVars(TakeLink(r))

DeliverySpec == DeliveryInit /\ [][DeliveryNext]_deliveryVars /\ DeliveryFairness

--------------------------------------------------------------------------------
\* A reader is turned away for a refused link only when the link was made for
\* its own request and revoked while it was served: one that went stale in the
\* cache, or that another reader has replaced, costs it a second attempt at
\* most.
OnlyNewLinksRefused ==
  \A r \in Reader : reader[r].step = "refused" => reader[r].link > reader[r].since

\* The cache's mutex is passed on: every attempt to stream a file gets a link
\* or fails, whatever the provider answers to it or to a request that has the
\* mutex before it, and however many deliveries never end.
WaitersServed ==
  \A r \in Reader :
    reader[r].step \in Waiting ~> reader[r].step \notin Waiting
================================================================================
