----------------------------- MODULE RecentList -----------------------------
(***************************************************************************)
(* What the wake allowlist promises: the peers learned, each once, the most *)
(* recently seen last; when the list is full the one not seen for longest   *)
(* makes room.  A copy is kept that a power cycle falls back to; it is      *)
(* replaced by the present list or lost, never by anything else.            *)
(***************************************************************************)
EXTENDS Naturals, Sequences

CONSTANTS Peer, MaxPeers

VARIABLES known, stored

ListInit == known = <<>> /\ stored = <<>>

(* The list without its entry i, and the one that has room for another. *)
Without(i) == SubSeq(known, 1, i - 1) \o SubSeq(known, i + 1, Len(known))
Newest == IF Len(known) = MaxPeers THEN Tail(known) ELSE known

SeeNew(p) ==
    /\ \A i \in DOMAIN known : known[i] # p
    /\ known' = Append(Newest, p)

SeeAgain(p) == \E i \in DOMAIN known : known[i] = p /\ known' = Append(Without(i), p)

See(p) == (SeeNew(p) \/ SeeAgain(p)) /\ UNCHANGED stored

ForgetAll  == known' = <<>> /\ UNCHANGED stored
Store      == stored' = known /\ UNCHANGED known
LoseStore  == stored' = <<>> /\ UNCHANGED known
PowerCycle == known' = stored /\ UNCHANGED stored

ListNext == (\E p \in Peer : See(p)) \/ ForgetAll \/ Store \/ LoseStore \/ PowerCycle

ListSpec == ListInit /\ [][ListNext]_<<known, stored>>
=============================================================================
