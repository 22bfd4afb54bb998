----------------------------- MODULE AccountListing -----------------------------
(***************************************************************************)
(* How the gateway learns whether a torrent is already on the TorBox       *)
(* account (torbox/health.go availability, LookupTorrent; FindActive of    *)
(* torbox/torrent_gateway.go): it reads the account's list page by page    *)
(* until an entry of the hash turns up, or until an empty page proves it   *)
(* absent; only then may it be submitted.                                  *)
(*                                                                         *)
(* The list changes while it is read.  A page may hold fewer entries than  *)
(* asked for, and the server may ignore the offset.                        *)
(***************************************************************************)
EXTENDS Naturals, FiniteSets, Sequences, SequencesExt

CONSTANTS
  Entry,       \* entries of the account, by their ids
  Wanted,      \* those with the hash looked for
  Limit,       \* entries asked for at a time (1000)
  PageLimit    \* pages read before giving up (100)

ASSUME ListingAssumption ==
  /\ IsFiniteSet(Entry) /\ Wanted \subseteq Entry
  /\ Limit \in Nat \ {0} /\ PageLimit \in Nat \ {0}

VARIABLES
  account,   \* entries in the order they are listed
  status,    \* how an entry reads: present, unfinished, or gone from disk
  paged,     \* the server heeds the offset
  lookup,    \* the lookup: its step, offset, page, ids seen, observation
  steady,    \* history: entries listed and usable since the lookup began
  removed    \* history: some entry was removed since then

listingVars == <<account, status, paged, lookup, steady, removed>>

Reading == {"available", "unknown", "unavailable"}
Usable == {"available", "unknown"}
NoLookup == [step |-> "idle", offset |-> 0, page |-> 0, seen |-> {}, found |-> "unavailable"]

\* The lookup and the list keep to their ranges.
ListingTypeOK ==
  /\ account \in Seq(Entry) /\ status \in [Entry -> Reading] /\ paged \in BOOLEAN
  /\ lookup \in [step : {"idle", "listing", "present", "absent", "error"}, offset : Nat,
                 page : 0 .. PageLimit - 1, seen : SUBSET Entry, found : Reading]
  /\ steady \subseteq Entry /\ removed \in BOOLEAN

OnAccount == ToSet(account)
Candidates == {e \in OnAccount : status[e] \in Usable}

ListingInit ==
  /\ account \in SetToAllKPermutations(Entry)
  /\ status \in [Entry -> Reading]
  /\ paged \in BOOLEAN
  /\ lookup = NoLookup
  /\ steady = {} /\ removed = FALSE

--------------------------------------------------------------------------------
LookupStarts ==
  /\ lookup.step # "listing"
  /\ lookup' = [NoLookup EXCEPT !.step = "listing"]
  /\ steady' = Candidates /\ removed' = FALSE
  /\ UNCHANGED <<account, status, paged>>

\* What the server may answer: some entries from the offset on, none only at
\* the end.
Pages(offset) ==
  LET from == IF paged THEN offset ELSE 0
      rest == SubSeq(account, from + 1, Len(account))
  IN {SubSeq(rest, 1, n) : n \in {k \in 0 .. Limit : k <= Len(rest) /\ (k = 0 => rest = <<>>)}}

\* The observation after a page: an entry on disk settles it, an unfinished
\* one is only outdone by that.
Observed(found, data) ==
  LET read == {status[e] : e \in ToSet(data) \cap Wanted} \cup {found}
  IN IF "available" \in read THEN "available"
     ELSE IF "unknown" \in read THEN "unknown"
     ELSE "unavailable"

\* Mutation of NextOffset: a page is taken to be as long as was asked for.
NextOffsetByLimit(offset, data) == offset + Limit

\* The offset of the next page.
NextOffset(offset, data) == offset + Len(data)

\* One page: a match ends the lookup, then an empty page; a page with no new
\* id, and one page too many, are errors.
PageRead ==
  /\ lookup.step = "listing"
  /\ \E data \in Pages(lookup.offset) :
       LET found == Observed(lookup.found, data)
           new == ToSet(data) \ lookup.seen
           step == CASE found \in Usable -> "present"
                     [] found \notin Usable /\ data = <<>> -> "absent"
                     [] found \notin Usable /\ data # <<>> ->
                          IF new = {} \/ lookup.page + 1 = PageLimit
                          THEN "error" ELSE "listing"
       IN lookup' = IF step = "listing"
                    THEN [step |-> step, offset |-> NextOffset(lookup.offset, data),
                          page |-> lookup.page + 1, seen |-> lookup.seen \cup new,
                          found |-> found]
                    ELSE [NoLookup EXCEPT !.step = step]
  /\ UNCHANGED <<account, status, paged, steady, removed>>

\* A request that fails, or an answer that is incomplete or has a bad entry.
LookupFails ==
  /\ lookup.step = "listing"
  /\ lookup' = [NoLookup EXCEPT !.step = "error"]
  /\ UNCHANGED <<account, status, paged, steady, removed>>

--------------------------------------------------------------------------------
(* TorBox and the account's other users. *)

\* A torrent is added, at either end of the list.
EntryAdded(e) ==
  /\ e \notin OnAccount
  /\ account' \in {Append(account, e), <<e>> \o account}
  /\ UNCHANGED <<status, paged, lookup, steady, removed>>

EntryRemoved(e) ==
  /\ \E k \in DOMAIN account : account[k] = e /\ account' = RemoveAt(account, k)
  /\ steady' = steady \ {e} /\ removed' = TRUE
  /\ UNCHANGED <<status, paged, lookup>>

\* An unfinished entry is complete or expires; one on disk is expired.
EntryChanges(e) ==
  \E s \in Reading \ {status[e]} :
    /\ s # "unknown"
    /\ status' = [status EXCEPT ![e] = s]
    /\ steady' = IF s = "unavailable" THEN steady \ {e} ELSE steady
    /\ UNCHANGED <<account, paged, lookup, removed>>

ListingNext ==
  \/ LookupStarts \/ PageRead \/ LookupFails
  \/ \E e \in Entry : EntryAdded(e) \/ EntryRemoved(e) \/ EntryChanges(e)

ListingSpec == ListingInit /\ [][ListingNext]_listingVars

--------------------------------------------------------------------------------
\* A lookup answers "absent" only when no usable entry of the hash has been on
\* the account throughout, unless an entry was removed meanwhile, which moves
\* later entries to pages already read.  Short pages, entries added at either
\* end and a server that ignores the offset must not hide one: an unfounded
\* absence lets the gateway submit the torrent a second time.
AbsenceIsReal ==
  lookup.step = "absent" => removed \/ steady \cap Wanted = {}
================================================================================
