------------------------- MODULE AdvertisingReference -------------------------
(***************************************************************************)
(* What AdvertisingReports has to find, said of reports and AD structures   *)
(* instead of bytes and positions, and a bounded set of packets to compare  *)
(* the two on: every report is put into bytes, and the packet cut anywhere. *)
(***************************************************************************)
EXTENDS AdvertisingReports, SequencesExt

(* AD structures and the options they are a reason under.  The empty one    *)
(* ends the data.                                                           *)
Structure == {
    [bytes |-> <<0>>,                     by |-> {}],
    [bytes |-> <<1, 9>>,                  by |-> {}],
    [bytes |-> <<2, 9, 65>>,              by |-> {}],
    [bytes |-> <<2, 9, StadiaWord>>,      by |-> {"stadia", "name"}],
    [bytes |-> <<3, 8, 65, StadiaWord>>,  by |-> {"name"}],
    [bytes |-> <<5, 3, 0, 0, 18, 24>>,    by |-> {"hid"}],
    [bytes |-> <<5, 2, 0, 18, 24, 0>>,    by |-> {}],
    [bytes |-> <<3, 22, 18, 24>>,         by |-> {"hid"}],
    [bytes |-> <<3, 25, 193, 3>>,         by |-> {"hid"}],
    [bytes |-> <<3, 25, 128, 3>>,         by |-> {}]}

(* A report: an event, the type and cell of an address, and AD structures,  *)
(* of which the last may be cut by a byte.                                  *)
AllData(r) == FlattenSeq([i \in DOMAIN r.ads |-> r.ads[i].bytes])
Data(r)    == SubSeq(AllData(r), 1, Len(AllData(r)) - r.cut)

Header(layout, r) ==
    [i \in 1..layout.header |->
        CASE i = 1 -> r.event
          [] i = layout.addrType -> r.type
          [] i = layout.header -> Len(Data(r))
          [] i \in layout.addr..(layout.addr + 5) -> r.addr
          [] layout = Extended /\ i = 2 -> 0
          [] OTHER -> 127]

ReportBytes(layout, r) ==
    Header(layout, r) \o Data(r) \o [i \in 1..layout.trailer |-> 200]

(* These reports, and a packet of them that claims a number of them and     *)
(* keeps only the first bytes.                                              *)
ReportsBytes(layout, reports) ==
    FlattenSeq([i \in DOMAIN reports |-> ReportBytes(layout, reports[i])])

PacketOf(layout, bytes, claimed, kept) ==
    <<62, 255, layout.subevent, claimed>> \o SubSeq(bytes, 1, kept)

-----------------------------------------------------------------------------
(* A structure counts if it is whole and none before it ends the data. *)
Counts(r, i) ==
    /\ i < Len(r.ads) \/ r.cut = 0
    /\ \A j \in 1..i : r.ads[j].bytes # <<0>>

(* The options a report gives a reason under by its first structure that    *)
(* gives one.                                                               *)
DataReasons(on, r) ==
    LET hits == {i \in DOMAIN r.ads : Counts(r, i) /\ r.ads[i].by \cap on # {}}
    IN IF hits = {} THEN {}
       ELSE r.ads[Min(hits)].by \cap on

AddressOf(r) == Peer16(r.type, r.addr)

ByAddress(on, known, layout, r) ==
    \/ "known" \in on /\ AddressOf(r) \in known
    \/ "connectable" \in on /\ Connectable(layout, r.event)

(* The bytes of the packet's first n reports, the last without its trailer. *)
Extent(layout, reports, n) ==
    Len(ReportsBytes(layout, SubSeq(reports, 1, n))) - layout.trailer

(* The first report that is there as a whole and gives a reason wakes the   *)
(* PC, and teaches its own peer, no other, if that reason is its name and   *)
(* the only one.                                                            *)
Expected(on, known, layout, reports, claimed, kept) ==
    LET waking == {n \in 1..claimed :
            /\ n <= Len(reports) /\ Extent(layout, reports, n) <= kept
            /\ \/ ByAddress(on, known, layout, reports[n])
               \/ DataReasons(on, reports[n]) # {}}
    IN IF layout = Legacy /\ "any" \in on THEN Wakes
       ELSE IF waking = {} THEN Ignored
       ELSE LET r == reports[Min(waking)] IN
            [wake  |-> TRUE,
             learn |-> IF ~ByAddress(on, known, layout, r) /\ "stadia" \in DataReasons(on, r)
                       THEN {AddressOf(r)} ELSE {}]

Agree(on, known, layout, reports, bytes, claimed, kept) ==
    PacketMatches(on, known, PacketOf(layout, bytes, claimed, kept))
        = Expected(on, known, layout, reports, claimed, kept)

-----------------------------------------------------------------------------
(* One report with any two structures, and three with few. *)
Single == {<<[event |-> 3, type |-> 0, addr |-> 1, ads |-> ads, cut |-> cut]>> :
              ads \in {<<a, b>> : a, b \in Structure}, cut \in {0, 1}}

Plain  == [bytes |-> <<2, 9, 65>>, by |-> {}]
Stadia == [bytes |-> <<2, 9, StadiaWord>>, by |-> {"stadia", "name"}]
Few == {[event |-> 2, type |-> 0, addr |-> 1, ads |-> <<Plain>>, cut |-> 0],
        [event |-> 2, type |-> 1, addr |-> 1, ads |-> <<Plain, Stadia>>, cut |-> 0],
        [event |-> 3, type |-> 0, addr |-> 2, ads |-> <<Stadia>>, cut |-> 0],
        [event |-> 4, type |-> 1, addr |-> 2, ads |-> <<>>, cut |-> 0]}
Several == {<<a, b, a>> : a, b \in Few}

(* Any structures, under any options about them. *)
StructuresAgree ==
    \A layout \in {Legacy, Extended}, reports \in Single :
        LET bytes == ReportsBytes(layout, reports) IN
        \A on \in SUBSET {"stadia", "hid", "name", "any"} :
            Agree(on, {}, layout, reports, bytes, 1, Len(bytes))

(* Directed reports have sixteen bytes, of which the first is the event. *)
DirectedBytes(events) ==
    FlattenSeq([i \in DOMAIN events |-> <<events[i]>> \o [k \in 1..15 |-> 1]])

DirectedAgree ==
    \A events \in [1..2 -> {0, 1}] :
        LET bytes == DirectedBytes(events) IN
        \A claimed \in 1..3, kept \in 0..Len(bytes) :
            PacketMatches({"directed"}, {}, <<62, 255, 11, claimed>> \o SubSeq(bytes, 1, kept)).wake
                <=> \E n \in 1..claimed : 16 * n <= kept /\ events[n] = 1

(* Any cut, with fewer or as many reports claimed. *)
SequencesAgree(known) ==
    \A layout \in {Legacy, Extended}, reports \in Several :
        LET bytes == ReportsBytes(layout, reports) IN
        \A on \in {{"known", "connectable"}, {"known", "stadia"}} :
            \A claimed \in {2, 3}, kept \in 0..Len(bytes) :
                Agree(on, known, layout, reports, bytes, claimed, kept)
=============================================================================
