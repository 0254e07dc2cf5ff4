----------------------------- MODULE StandbyHost -----------------------------
(***************************************************************************)
(* The standby HCI host, src/src/hci_host_minimal.c, over the transports of *)
(* backend_cyw43.c and backend_esp32_uart.c: one command at a time, an      *)
(* answer awaited for a while, and a configuration that main.c repeats      *)
(* until it succeeds.                                                       *)
(*                                                                          *)
(* A controller that is slow answers after the timeout, when the host waits *)
(* for something else, perhaps for the same command of a later try.  It may *)
(* be silent for any time; it takes its commands in order.                  *)
(***************************************************************************)
EXTENDS Naturals, Sequences

CONSTANTS
    Backends,      \* the builds looked at, of those in Backend
    MaxRxPackets,  \* CYW43_MAX_RX_PACKETS_PER_TASK
    MaxOwed        \* model bound: commands and answers under way

Backend == {"cyw43", "esp32 with reset pin", "esp32"}

ASSUME StandbyHostBounds ==
    /\ Backends \subseteq Backend
    /\ MaxRxPackets \in Nat \ {0}
    /\ MaxOwed \in Nat \ {0}

VARIABLES
    backend,     \* the build: it never changes
    at,          \* the command of Script that is being waited for; 0 is none
    configured,  \* standby_configured of main.c
    commands,    \* external: commands on their way to the controller
    events,      \* external: answers the transport can deliver
    scanning,    \* external: the controller scans
    flushed      \* history: the reset left nothing older under way

hostVars == <<backend, at, configured, commands, events, scanning, flushed>>

(* The configuration; a CYW43 is reset by a command, the first.            *)
Script == <<"RESET", "READ_LOCAL_VERSION", "READ_BD_ADDR", "SET_EVENT_MASK",
            "LE_SET_EVENT_MASK", "WRITE_SCAN_ENABLE",
            "LE_SET_SCAN_PARAMETERS", "LE_SET_SCAN_ENABLE">>

(* The commands whose failure ends it. *)
Required == {"SET_EVENT_MASK", "LE_SET_SCAN_PARAMETERS", "LE_SET_SCAN_ENABLE"}

(* "own" is history: the command belongs to the present configuration. *)
Sent(n) == [op |-> Script[n], own |-> TRUE]
Older(queue) == [i \in DOMAIN queue |-> [queue[i] EXCEPT !.own = FALSE]]

(* A command that is written may be lost: its result is not looked at. *)
Written(queue, n) ==
    {queue} \cup (IF Len(queue) + Len(events) < MaxOwed THEN {Append(queue, Sent(n))} ELSE {})

Init ==
    /\ backend \in Backends
    /\ at = 0 /\ configured = FALSE
    /\ commands = <<>> /\ events = <<>>
    /\ scanning \in BOOLEAN
    /\ flushed = FALSE

-----------------------------------------------------------------------------
(* Faulty variants: the reset is sent and not waited for, or not sent.     *)
FaultyNotAwaited ==
    /\ backend = "cyw43"
    /\ at' = 2
    /\ commands' \in {Append(q, Sent(2)) : q \in Written(Older(commands), 1)}
    /\ events' = Older(events)
    /\ flushed' = TRUE
    /\ UNCHANGED scanning

FaultyNotSent ==
    /\ backend = "cyw43"
    /\ at' = 2
    /\ commands' \in Written(Older(commands), 2)
    /\ events' = Older(events)
    /\ flushed' = FALSE
    /\ UNCHANGED scanning

(* cyw43_backend_reset_controller; a write that fails ends the try at once, *)
(* which is no step.                                                        *)
ResetByCommand ==
    /\ backend = "cyw43"
    /\ at' = 1
    /\ commands' \in Written(Older(commands), 1) \ {Older(commands)}
    /\ events' = Older(events)
    /\ flushed' = FALSE
    /\ UNCHANGED scanning

(* esp32_reset_controller empties the ring and restarts the controller, if *)
(* its reset is wired.                                                      *)
ResetByPin ==
    /\ backend = "esp32 with reset pin"
    /\ commands' \in Written(<<>>, 2)
    /\ scanning' = FALSE
    /\ flushed' = TRUE

NoReset ==
    /\ backend = "esp32"
    /\ commands' \in Written(Older(commands), 2)
    /\ flushed' = (commands = <<>>)
    /\ UNCHANGED scanning

(* hci_host_configure_standby_wake begins. *)
Configure ==
    /\ at = 0 /\ ~configured
    /\ \/ ResetByCommand
       \/ (ResetByPin \/ NoReset) /\ events' = <<>> /\ at' = 2
    /\ UNCHANGED <<backend, configured>>

(* The configuration returns. *)
Finish(result) ==
    /\ at' = 0
    /\ configured' = result
    /\ UNCHANGED commands

NextCommand ==
    /\ at' = at + 1
    /\ commands' \in Written(commands, at + 1)
    /\ UNCHANGED configured

(* A faulty variant: the result of the last command is ignored. *)
FaultyReturned(ok) ==
    IF ~ok /\ Script[at] \in Required /\ at # Len(Script)
    THEN Finish(FALSE)
    ELSE IF at = Len(Script) THEN Finish(TRUE) ELSE NextCommand

(* hci_host_send_cmd_sync returns ok. *)
Returned(ok) ==
    IF ~ok /\ Script[at] \in Required
    THEN Finish(FALSE)
    ELSE IF at = Len(Script) THEN Finish(TRUE) ELSE NextCommand

(* cyw43_backend_wait_command_complete takes one packet at a time and drops *)
(* all but the answer to the reset.                                         *)
AwaitReset ==
    /\ at = 1 /\ events # <<>>
    /\ events' = Tail(events)
    /\ LET e == Head(events) IN
       IF e.op # "RESET"
       THEN UNCHANGED <<at, configured, commands, flushed>>
       ELSE flushed' = e.own /\ IF e.ok THEN NextCommand ELSE Finish(FALSE)
    /\ UNCHANGED <<backend, scanning>>

(* One call of the transport's task: hci_host_minimal_packet looks at all   *)
(* packets it delivers, and the last answer to the opcode counts.           *)
Delivered ==
    IF backend = "cyw43" /\ Len(events) > MaxRxPackets THEN MaxRxPackets ELSE Len(events)

Answers == {i \in 1..Delivered : events[i].op = Script[at]}

Poll ==
    /\ at > 1 /\ events # <<>>
    /\ events' = SubSeq(events, Delivered + 1, Len(events))
    /\ \/ Answers = {} /\ UNCHANGED <<at, configured, commands>>
       \/ \E last \in Answers :
             (\A i \in Answers : i <= last) /\ Returned(events[last].ok)
    /\ UNCHANGED <<backend, scanning, flushed>>

(* Faulty variants: without an answer the host waits on, or leaves the      *)
(* command out, the last one too.                                           *)
FaultyTimeout ==
    /\ at = 1
    /\ Finish(FALSE)
    /\ UNCHANGED <<backend, events, scanning, flushed>>

FaultySkips ==
    /\ at # 0
    /\ at' = at + 1
    /\ UNCHANGED <<backend, configured, commands, events, scanning, flushed>>

(* The deadline of the reset or of a command has passed. *)
Timeout ==
    /\ at # 0
    /\ IF at = 1 THEN Finish(FALSE) ELSE Returned(FALSE)
    /\ UNCHANGED <<backend, events, scanning, flushed>>

(* Nobody waits: the main loop polls the transport, and answers are ignored. *)
IdlePoll ==
    /\ at = 0 /\ events # <<>>
    /\ events' = SubSeq(events, Delivered + 1, Len(events))
    /\ UNCHANGED <<backend, at, configured, commands, scanning, flushed>>

-----------------------------------------------------------------------------
(* The controller executes its next command and answers.  It refuses scan   *)
(* parameters while it scans ("Command Disallowed"), and may refuse any     *)
(* command, but for HCI Reset, which it does not refuse, and those whose   *)
(* result makes no difference.                                              *)
Disallowed == scanning /\ Head(commands).op = "LE_SET_SCAN_PARAMETERS"

Executes(ok) ==
    /\ commands # <<>>
    /\ LET op == Head(commands).op IN
       /\ op \notin Required => ok
       /\ Disallowed => ~ok
       /\ events' = Append(events, [op |-> op, ok |-> ok, own |-> Head(commands).own])
       /\ scanning' = CASE op = "RESET" -> FALSE
                        [] op = "LE_SET_SCAN_ENABLE" /\ ok -> TRUE
                        [] OTHER -> scanning
    /\ commands' = Tail(commands)
    /\ UNCHANGED <<backend, at, configured, flushed>>

(* Standby is left, and the controller used by the PC until the next one;   *)
(* nothing stops the scanner on either side.                                *)
LeaveStandby ==
    /\ at = 0
    /\ configured' = FALSE
    /\ scanning' \in BOOLEAN
    /\ UNCHANGED <<backend, at, commands, events, flushed>>

Answer == AwaitReset \/ Poll

Next ==
    \/ Configure \/ Answer \/ Timeout \/ IdlePoll
    \/ \E ok \in BOOLEAN : Executes(ok)
    \/ LeaveStandby

Spec == Init /\ [][Next]_hostVars

(* The loop goes on and time passes, so a wait comes to an end; main.c      *)
(* repeats a configuration that failed.  Nothing is asked of the controller. *)
FairSpec ==
    /\ Spec
    /\ WF_hostVars(Configure) /\ WF_hostVars(IdlePoll) /\ WF_hostVars(Answer \/ Timeout)

-----------------------------------------------------------------------------
Command == {Script[n] : n \in DOMAIN Script}

TypeOK ==
    /\ backend \in Backends
    /\ at \in 0..Len(Script)
    /\ configured \in BOOLEAN
    /\ commands \in Seq([op : Command, own : BOOLEAN])
    /\ events \in Seq([op : Command, ok : BOOLEAN, own : BOOLEAN])
    /\ Len(commands) + Len(events) <= MaxOwed
    /\ scanning \in BOOLEAN /\ flushed \in BOOLEAN

(* A reset that was answered in its own try has flushed the line: whatever  *)
(* is still under way belongs to this configuration, whose commands are all *)
(* different, so no late answer of an earlier try is taken for a new one.   *)
ResetFlushes ==
    at > 1 /\ flushed =>
        /\ \A i \in DOMAIN commands : commands[i].own
        /\ \A i \in DOMAIN events : events[i].own

(* A configuration that reports success ("standby BLE scan enabled") has    *)
(* the scanner on, whatever was lost, late or refused on the way, unless it *)
(* took a late answer of an earlier reset for its own.                      *)
ConfiguredScans == configured /\ flushed => scanning

(* docs/standby_hci_host_mode.md has the controller reset before it is      *)
(* configured, which matters when the PC has left its scanner on: scan      *)
(* parameters never reach a scanner that runs, which would refuse them in   *)
(* every try.  A build without a reset, an ESP32 whose reset pin is not     *)
(* wired, cannot promise it.                                                *)
ScannerOffWhenConfigured ==
    /\ at # 0 /\ backend # "esp32"
    /\ commands # <<>> /\ Head(commands) = Sent(7)
    => ~scanning

(* The controller answers in time, refuses only what it must and loses      *)
(* nothing, and the PC stays off; the wait is in vain only for a command    *)
(* that was lost before.                                                    *)
InTime ==
    /\ Executes(FALSE) => Disallowed
    /\ ~LeaveStandby
    /\ Timeout => /\ \A i \in DOMAIN commands : commands[i] # Sent(at)
                  /\ \A i \in DOMAIN events : events[i].op # Script[at]
    /\ at' > 1 /\ at' # at => commands' # <<>> /\ commands'[Len(commands')] = Sent(at')

(* However many tries have failed, and whatever they left in the line, the  *)
(* next ones then succeed; but not on an ESP32 without a reset whose        *)
(* scanner was left on.                                                     *)
ConfigurationSucceeds ==
    <>[][InTime]_hostVars /\ []<>(commands = <<>>)
        => <>[](configured \/ (backend = "esp32" /\ scanning))
=============================================================================
