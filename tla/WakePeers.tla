------------------------------ MODULE WakePeers ------------------------------
(***************************************************************************)
(* The learned wake peers of src/src/wake_policy.c: the table of BLE        *)
(* addresses kept in order of use, and its delayed, one-shot save into one  *)
(* flash sector, with the power failing at any moment.                      *)
(*                                                                          *)
(* Everything runs in the main loop, so nothing but time and a power        *)
(* failure happens between the erasing and the programming of the sector.   *)
(***************************************************************************)
EXTENDS Platform, Sequences, FiniteSets

CONSTANTS
    Peer,           \* address type and address
    Free,           \* an entry that is not in_use
    MaxPeers,       \* MAX_KNOWN_BLE_PEERS
    SaveDelayTicks  \* WAKE_PEER_SAVE_DELAY_MS

ASSUME PeerBounds ==
    /\ Free \notin Peer
    /\ MaxPeers \in Nat \ {0}
    /\ SaveDelayTicks \in Nat

VARIABLES
    peers,       \* known_ble_peers
    dirty,       \* peers_dirty
    dirtyTimer,  \* peers_dirty_at
    saving,      \* where save_known_ble_peers is
    flash,       \* external: the table in flash, or no valid one
    saveFailed   \* history: the last save since power up failed

peerVars == <<peers, dirty, dirtyTimer, saving, flash, saveFailed>>

Index   == 1..MaxPeers
Table   == [Index -> Peer \cup {Free}]
NoTable == <<>>  \* erased, half written, or with a wrong checksum

NoPeers == [i \in Index |-> Free]

InUse(table) == {i \in Index : table[i] # Free}
Count(table) == Cardinality(InUse(table))

-----------------------------------------------------------------------------
(* load_known_ble_peers: the used entries among the first count stored     *)
(* ones, moved together.                                                   *)
Place(table, i) == Cardinality({j \in InUse(table) : j <= i})

Load(store) ==
    IF store = NoTable
    THEN NoPeers
    ELSE [k \in Index |->
            IF \E i \in InUse(store) : i <= Count(store) /\ Place(store, i) = k
            THEN store[CHOOSE i \in InUse(store) : Place(store, i) = k]
            ELSE Free]

Init ==
    /\ peers = NoPeers
    /\ dirty = FALSE /\ dirtyTimer = 0
    /\ saving = "no"
    /\ flash = NoTable
    /\ saveFailed = FALSE

(* A faulty variant: the delay is added to the one that still runs. *)
FaultyMarkDirty == dirty' = TRUE /\ dirtyTimer' = dirtyTimer + SaveDelayTicks

MarkDirty == dirty' = TRUE /\ dirtyTimer' = SaveDelayTicks

(* A faulty variant: the last entry is not cleared. *)
FaultyRemoved(table, i) ==
    [j \in Index |-> IF j < i THEN table[j]
                     ELSE IF j < MaxPeers THEN table[j + 1] ELSE table[j]]

(* remove_known_ble_peer_at: the later entries move down. *)
Removed(table, i) ==
    [j \in Index |-> IF j < i THEN table[j]
                     ELSE IF j < MaxPeers THEN table[j + 1] ELSE Free]

(* The entry after the used ones, where a peer is written. *)
Written(table, p) == [table EXCEPT ![Count(table) + 1] = p]

(* A faulty variant: a full table loses its newest entry. *)
FaultyAppended(table, p) ==
    IF Count(table) >= MaxPeers
    THEN Written(Removed(table, MaxPeers), p)
    ELSE Written(table, p)

(* append_known_ble_peer: a full table loses its first entry. *)
Appended(table, p) ==
    IF Count(table) >= MaxPeers
    THEN Written(Removed(table, 1), p)
    ELSE Written(table, p)

(* ble_addr_equal finds the first entry that matches. *)
FirstMatch(p) == {i \in Index : peers[i] = p /\ \A j \in 1..(i - 1) : peers[j] # p}

(* remember_ble_peer, after a connection in host mode or a Stadia          *)
(* advertisement in standby.                                               *)
LearnNew(p) ==
    /\ FirstMatch(p) = {}
    /\ peers' = Appended(peers, p)
    /\ MarkDirty

(* A faulty variant: a new order is not worth saving. *)
FaultyRefresh(p) ==
    \E i \in FirstMatch(p) :
        /\ i # Count(peers)
        /\ peers' = Written(Removed(peers, i), p)
        /\ UNCHANGED <<dirty, dirtyTimer>>

Refresh(p) ==
    \E i \in FirstMatch(p) :
        /\ i # Count(peers)
        /\ peers' = Written(Removed(peers, i), p)
        /\ MarkDirty

(* A faulty variant: every sighting marks the table. *)
FaultyAlreadyNewest(p) == Count(peers) \in FirstMatch(p) /\ MarkDirty /\ UNCHANGED peers

AlreadyNewest(p) == Count(peers) \in FirstMatch(p) /\ UNCHANGED <<peers, dirty, dirtyTimer>>

Remember(p) ==
    /\ saving = "no"
    /\ LearnNew(p) \/ Refresh(p) \/ AlreadyNewest(p)
    /\ UNCHANGED <<saving, flash, saveFailed>>

-----------------------------------------------------------------------------
(* wake_policy_task: the flag is cleared before the save, whose result is  *)
(* not looked at.                                                          *)
SaveDue == dirty /\ dirtyTimer = 0

TaskSaves ==
    /\ saving = "no"
    /\ SaveDue
    /\ dirty' = FALSE
    /\ saving' = "started"
    /\ UNCHANGED <<peers, dirtyTimer, flash, saveFailed>>

(* wake_policy_clear_known_peers saves at once. *)
ClearKnownPeers ==
    /\ saving = "no"
    /\ peers' = NoPeers
    /\ dirty' = FALSE
    /\ saving' = "started"
    /\ UNCHANGED <<dirtyTimer, flash, saveFailed>>

(* flash_safe_execute runs save_known_ble_peers_flash_op or fails. *)
SaveRefused ==
    /\ saving = "started"
    /\ saving' = "no"
    /\ saveFailed' = TRUE
    /\ UNCHANGED <<peers, dirty, dirtyTimer, flash>>

Erase ==
    /\ saving = "started"
    /\ flash' = NoTable
    /\ saving' = "erased"
    /\ UNCHANGED <<peers, dirty, dirtyTimer, saveFailed>>

Program ==
    /\ saving = "erased"
    /\ flash' = peers
    /\ saving' = "no"
    /\ saveFailed' = FALSE
    /\ UNCHANGED <<peers, dirty, dirtyTimer>>

(* The sector does not hold what was programmed: the verification fails,   *)
(* and a later load rejects the table.                                     *)
ProgramFails ==
    /\ saving = "erased"
    /\ saving' = "no"
    /\ saveFailed' = TRUE
    /\ UNCHANGED <<peers, dirty, dirtyTimer, flash>>

(* The power fails, at any step, and comes back: wake_policy_init. *)
PowerCycle ==
    /\ peers' = Load(flash)
    /\ dirty' = FALSE /\ dirtyTimer' = 0
    /\ saving' = "no"
    /\ saveFailed' = FALSE
    /\ UNCHANGED flash

PeerTick ==
    /\ dirtyTimer' = Down(dirtyTimer)
    /\ UNCHANGED <<peers, dirty, saving, flash, saveFailed>>

SaveStep == TaskSaves \/ SaveRefused \/ Erase \/ Program \/ ProgramFails

Next ==
    \/ \E p \in Peer : Remember(p)
    \/ SaveStep \/ ClearKnownPeers \/ PowerCycle \/ PeerTick

Spec == Init /\ [][Next]_peerVars

-----------------------------------------------------------------------------
TypeOK ==
    /\ peers \in Table
    /\ dirty \in BOOLEAN
    /\ dirtyTimer \in 0..SaveDelayTicks
    /\ saving \in {"no", "started", "erased"}
    /\ flash \in Table \cup {NoTable}
    /\ saveFailed \in BOOLEAN

(* The table is always a prefix of distinct peers: count, the place of the *)
(* next entry and "is it already the newest" are all computed from this.   *)
Compact(table) ==
    /\ \A i, j \in InUse(table) : table[i] = table[j] => i = j
    /\ \A i \in InUse(table) : \A j \in 1..i : j \in InUse(table)

PeersCompact == Compact(peers) /\ (flash # NoTable => Compact(flash))

Entries(table) == [i \in 1..Count(table) |-> table[i]]

(* The table and its copy in flash are a list in order of use that evicts  *)
(* the peer not seen for longest, and survives a power cycle.              *)
Recent == INSTANCE RecentList WITH
    known  <- Entries(peers),
    stored <- Entries(Load(flash))
ImplementsRecentList == Recent!ListSpec

(* Nothing learned is left unsaved by mistake: when no save is due or      *)
(* running and the last one did not fail, the flash holds the table.       *)
StoreIsCurrent ==
    ~dirty /\ saving = "no" /\ ~saveFailed => Load(flash) = peers

(* The delayed save comes: once the table stops changing, it is not left   *)
(* marked for saving for ever by peers that are seen again and again.      *)
DirtyIsSaved == <>[][FALSE]_peers => <>[]~dirty

(* README.md, Wake Behavior: "Learned BLE peers are stored in flash so they *)
(* survive power cycles" and holding BOOTSEL clears the persisted list:     *)
(* when nothing is left to be saved, a power cycle brings back the table.  *)
PeersSurvivePowerCycle == ~dirty /\ saving = "no" => Load(flash) = peers
=============================================================================
