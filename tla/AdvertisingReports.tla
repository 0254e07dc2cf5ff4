-------------------------- MODULE AdvertisingReports --------------------------
(***************************************************************************)
(* Which packet of the controller is a reason to wake the PC, and which     *)
(* peer it teaches: the pure half of src/src/wake_policy.c, over packets as *)
(* the sequences of bytes that they are.                                    *)
(*                                                                          *)
(* The parameter "on" is the set of the WAKE_ON_... options of the build,   *)
(* "known" the peers in the table.  A name is abstracted to single cells: a *)
(* cell is the prefix "Stadia", another word a controller is named by, or a *)
(* character.  Of the six bytes of an address the first one counts.         *)
(***************************************************************************)
EXTENDS Integers, Sequences

WakeOption == {"known", "connectable", "directed", "stadia", "hid", "name", "any"}

StadiaWord == 83
GamepadWord == 71
HidService == 6162  \* 0x1812
HidCategory == 15

Peer16(addrType, addr) == 2 * addr + addrType
Uint16(d, i) == d[i] + 256 * d[i + 1]

Ignored == [wake |-> FALSE, learn |-> {}]
Wakes   == [wake |-> TRUE, learn |-> {}]

-----------------------------------------------------------------------------
(* le_advertising_data_matches.  An AD structure is a length, a type and a  *)
(* payload d.                                                               *)
IsStadia(t, d) == t \in {8, 9} /\ d # <<>> /\ d[1] = StadiaWord

IsHid(t, d) ==
    \/ t \in {2, 3} /\ \E i \in 1..(Len(d) - 1) : i % 2 = 1 /\ Uint16(d, i) = HidService
    \/ t = 22 /\ Len(d) >= 2 /\ Uint16(d, 1) = HidService
    \/ t = 25 /\ Len(d) >= 2 /\ Uint16(d, 1) \div 64 = HidCategory

IsController(t, d) ==
    t \in {8, 9} /\ \E i \in DOMAIN d : d[i] \in {StadiaWord, GamepadWord}

(* What one structure of an advertisement of peer p makes of it. *)
StructureMatches(on, p, t, d) ==
    IF "stadia" \in on /\ IsStadia(t, d) THEN [wake |-> TRUE, learn |-> {p}]
    ELSE IF ("hid" \in on /\ IsHid(t, d)) \/ ("name" \in on /\ IsController(t, d)) THEN Wakes
    ELSE Ignored

(* A faulty variant: the length byte is not counted. *)
FaultyNextStructure(data, pos) == pos + data[pos]

NextStructure(data, pos) == pos + 1 + data[pos]

(* Where no structure begins: the data has ended, or the structure says it  *)
(* is empty or longer than what is left.                                    *)
NoStructure(data, pos) ==
    pos > Len(data) \/ data[pos] = 0 \/ data[pos] > Len(data) - pos

StructureAt(on, p, data, pos) ==
    StructureMatches(on, p, data[pos + 1], SubSeq(data, pos + 2, pos + data[pos]))

DataMatches(on, p, data) ==
    LET from[pos \in 1..(Len(data) + 1)] ==
          IF NoStructure(data, pos) THEN Ignored
          ELSE IF StructureAt(on, p, data, pos).wake THEN StructureAt(on, p, data, pos)
          ELSE from[NextStructure(data, pos)]
    IN from[1]

-----------------------------------------------------------------------------
(* The two layouts of reports: the last byte of a header is the length of  *)
(* the data that follows, and after the data of a legacy report its RSSI.   *)
Legacy   == [subevent |-> 2,  header |-> 9,  addrType |-> 2, addr |-> 3, trailer |-> 1]
Extended == [subevent |-> 13, header |-> 24, addrType |-> 3, addr |-> 4, trailer |-> 0]

Connectable(layout, event) ==
    IF layout = Legacy THEN event \in {0, 1} ELSE (event % 2 = 1) \/ ((event \div 4) % 2 = 1)

(* le_advertising_report_matches and le_extended_advertising_report_matches *)
(* over the parameters of the event: the first report that is a reason      *)
(* decides, a report that is cut short ends the search.                     *)
ReportMatches(on, known, layout, params, pos) ==
    LET p == Peer16(params[pos + layout.addrType], params[pos + layout.addr])
    IN IF \/ "known" \in on /\ p \in known
          \/ "connectable" \in on /\ Connectable(layout, params[pos + 1])
       THEN Wakes
       ELSE DataMatches(on, p, SubSeq(params, pos + layout.header + 1,
                                      pos + layout.header + params[pos + layout.header]))

(* Where no whole report begins, and the report after one. *)
NoReport(layout, params, pos) ==
    \/ pos + layout.header > Len(params)
    \/ pos + layout.header + params[pos + layout.header] > Len(params)

NextReport(layout, params, pos) ==
    pos + layout.header + params[pos + layout.header] + layout.trailer

ReportsMatch(on, known, layout, params) ==
    LET from[left \in 0..params[2]] ==
          [pos \in Nat |->
              IF left = 0 \/ NoReport(layout, params, pos) THEN Ignored
              ELSE IF ReportMatches(on, known, layout, params, pos).wake
              THEN ReportMatches(on, known, layout, params, pos)
              ELSE from[left - 1][NextReport(layout, params, pos)]]
    IN from[params[2]][2]

(* le_directed_advertising_report_matches. *)
DirectedMatches(on, params) ==
    /\ "directed" \in on
    /\ \E n \in 1..params[2] : 2 + 16 * n <= Len(params) /\ params[16 * n - 13] = 1

(* wake_policy_packet_matches, of an event packet. *)
PacketMatches(on, known, packet) ==
    LET params == SubSeq(packet, 3, Len(packet)) IN
    IF Len(packet) >= 2 /\ packet[1] = 4 THEN Wakes
    ELSE IF Len(packet) < 4 \/ packet[1] # 62 THEN Ignored
    ELSE CASE params[1] = 2 -> IF "any" \in on THEN Wakes
                               ELSE ReportsMatch(on, known, Legacy, params)
           [] params[1] = 11 -> IF DirectedMatches(on, params) THEN Wakes ELSE Ignored
           [] params[1] = 13 -> ReportsMatch(on, known, Extended, params)
           [] OTHER -> Ignored

(* wake_policy_observe_host_packet: a connection of the PC that succeeded. *)
LearnedByHost(packet) ==
    IF Len(packet) >= 14 /\ packet[1] = 62 /\ packet[3] \in {1, 10} /\ packet[4] = 0
    THEN {Peer16(packet[8], packet[9])}
    ELSE {}
=============================================================================
