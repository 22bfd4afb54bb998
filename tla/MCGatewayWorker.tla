---------------------------- MODULE MCGatewayWorker ----------------------------
(***************************************************************************)
(* Constants of GatewayWorker for TLC.  Ticks are minutes: a pass of 55    *)
(* seconds lasts at most one tick, the gate opens after two and the lease  *)
(* and every long delay last two.  c1 and c1r list the same files.         *)
(***************************************************************************)
EXTENDS GatewayWorker, TLC

CONSTANTS nzb, torrent, w1, w2, c1, c1r, c2

MCOneNzb == {nzb}
MCOneTorrent == {torrent}
MCBothJobs == {nzb, torrent}
MCNone == {}
MCOneWorker == {w1}
MCTwoWorkers == {w1, w2}
MCCatalog == {c1, c1r, c2}
MCOneCatalog == {c1}
MCContent == [f \in MCCatalog |-> f = c2]
MCSymmetry == Permutations({w1, w2})

--------------------------------------------------------------------------------
\* One run over two instances that share their constants: each behaviour uses
\* the jobs in chosen; the others are never added.  With two jobs, one attempt
\* is enough (InFlightNext).
VARIABLE chosen
MCvars == <<vars, chosen>>
Idle == \A j \in Job \ chosen : row'[j].state = "Absent" /\ provider'[j] = provider[j]

\* The list published first is c1: with c1r it is the same, renamed, and with
\* c2 there is no other list of the same files.
FirstListing == \A w \in Worker :
  copy'[w].files \in {c1r, c2} => row[held'[w]].files # NoFiles

OneOfEach == Init /\ \E j \in Job : chosen = {j}
OneAtATime ==
  OneOfEach /\ [][Next /\ Idle /\ FirstListing /\ UNCHANGED chosen]_MCvars /\ Fairness
AllJobs == Init /\ chosen = Job /\ [][Next /\ UNCHANGED chosen]_MCvars /\ Fairness

FirstSubmissions ==
  Cardinality(chosen) > 1 =>
    \A j \in Job : /\ row'[j].attempts <= 1 /\ row'[j].missing = 0
                   /\ \A id \in Placements(j) : provider'[j][id] = provider[j][id]
TorrentOrBoth == Init /\ chosen \in {Torrent, Job}
TorrentAndBoth ==
  TorrentOrBoth /\ [][Next /\ Idle /\ FirstSubmissions /\ UNCHANGED chosen]_MCvars
================================================================================
