-------------------------- MODULE StandbyHostProofs --------------------------
(***************************************************************************)
(* Proofs about the standby host, for every number of commands and answers  *)
(* under way and every batch of the CYW43: the types, that a reset flushes  *)
(* the line, that a configuration reported as a success has the scanner on, *)
(* and that its scan parameters never reach a scanner that runs.            *)
(***************************************************************************)
EXTENDS StandbyHost, SequenceTheorems, TLAPS

LineCommand == [op : Command, own : BOOLEAN]
LineEvent   == [op : Command, ok : BOOLEAN, own : BOOLEAN]

(* While the answer to its reset is awaited, the present configuration has  *)
(* nothing in the line but that reset, at its very end.                     *)
ResetIsLast ==
    at = 1 =>
        /\ \A i \in DOMAIN commands : commands[i].own => i = Len(commands)
        /\ \A i \in DOMAIN events :
               events[i].own => i = Len(events) /\ commands = <<>>

(* After the line was flushed no other reset is in it, and an answer that   *)
(* the scanner was enabled is true for as long as it can be taken.          *)
NoOtherReset ==
    flushed /\ (at > 1 \/ configured) =>
        \A i \in DOMAIN commands : commands[i].op # "RESET"

EnabledIsTrue ==
    flushed /\ at > 1 =>
        \A i \in DOMAIN events :
            events[i].op = "LE_SET_SCAN_ENABLE" /\ events[i].ok => scanning

(* A configuration that is a success has returned. *)
ConfiguredIsIdle == configured => at = 0

(* The commands of the present configuration are in the order of Script;    *)
(* older ones are followed by its reset, and a scanner that runs while the  *)
(* configuration has not got to its end is going to be reset.               *)
Queued(n) == \E i \in DOMAIN commands : commands[i] = Sent(n)

OwnAreSent ==
    \A i \in DOMAIN commands : commands[i].own => \E n \in 1..at : commands[i] = Sent(n)
OwnInOrder ==
    \A i, j \in DOMAIN commands : \A m, n \in 1..8 :
        i < j /\ commands[i] = Sent(m) /\ commands[j] = Sent(n) => m < n
OlderBeforeReset ==
    \A i \in DOMAIN commands :
        ~commands[i].own => \E r \in DOMAIN commands : i < r /\ commands[r] = Sent(1)
ScannerIsReset   == scanning /\ (at < 8 \/ Queued(7)) => Queued(1)

InOrder == OwnAreSent /\ OwnInOrder /\ OlderBeforeReset /\ ScannerIsReset

LineInOrder == at # 0 /\ backend # "esp32" => InOrder

FlushInv ==
    /\ ResetIsLast /\ ResetFlushes
    /\ NoOtherReset /\ EnabledIsTrue /\ ConfiguredIsIdle /\ ConfiguredScans

HostInv == TypeOK /\ FlushInv /\ LineInOrder

-----------------------------------------------------------------------------
(* The script: its commands are all different. *)
LEMMA ScriptIs ==
    /\ Len(Script) = 8
    /\ \A n \in 1..8 : Script[n] \in Command
    /\ Script[1] = "RESET" /\ Script[7] = "LE_SET_SCAN_PARAMETERS"
    /\ Script[8] = "LE_SET_SCAN_ENABLE" /\ Script[8] \in Required
    /\ \A m, n \in 1..8 : Script[m] = Script[n] => m = n
<1>1. /\ Script[1] = "RESET" /\ Script[2] = "READ_LOCAL_VERSION" /\ Script[3] = "READ_BD_ADDR"
      /\ Script[4] = "SET_EVENT_MASK" /\ Script[5] = "LE_SET_EVENT_MASK"
      /\ Script[6] = "WRITE_SCAN_ENABLE" /\ Script[7] = "LE_SET_SCAN_PARAMETERS"
      /\ Script[8] = "LE_SET_SCAN_ENABLE" /\ Len(Script) = 8
  BY DEF Script
<1>2. DOMAIN Script = 1..8
  BY DEF Script
<1>3. \A n \in 1..8 : Script[n] \in Command
  BY <1>2 DEF Command
<1>4. \A n \in 1..8 : n \in {1, 2, 3, 4, 5, 6, 7, 8}
  OBVIOUS
<1>5. \A m, n \in {1, 2, 3, 4, 5, 6, 7, 8} : Script[m] = Script[n] => m = n
  BY <1>1
<1> QED
  BY <1>1, <1>3, <1>4, <1>5 DEF Required

LEMMA SentIs ==
    ASSUME NEW n \in 1..8
    PROVE  /\ Sent(n) \in LineCommand
           /\ Sent(n).op = Script[n] /\ Sent(n).own = TRUE
           /\ \A m \in 1..8 : Sent(m) = Sent(n) => m = n
<1>1. \A m : Sent(m).op = Script[m] /\ Sent(m).own = TRUE
  BY DEF Sent
<1>2. Sent(n) \in LineCommand
  BY ScriptIs DEF Sent, LineCommand
<1> QED
  BY <1>1, <1>2, ScriptIs

LEMMA OnlyFirstResets ==
    ASSUME NEW n \in 2..8
    PROVE  Sent(n).own = TRUE /\ Sent(n).op # "RESET"
<1>1. n \in 1..8 /\ 1 \in 1..8 /\ n # 1
  OBVIOUS
<1>2. Sent(n).own = TRUE /\ Sent(n).op = Script[n]
  BY <1>1, SentIs
<1>3. Script[n] # Script[1]
  BY <1>1, ScriptIs
<1> QED
  BY <1>2, <1>3, ScriptIs

LEMMA OlderCommands ==
    ASSUME NEW q \in Seq(LineCommand)
    PROVE  /\ Older(q) \in Seq(LineCommand) /\ Len(Older(q)) = Len(q)
           /\ \A i \in 1..Len(q) : Older(q)[i].own = FALSE /\ Older(q)[i].op = q[i].op
<1>1. DOMAIN q = 1..Len(q) /\ Len(q) \in Nat
  BY LenProperties
<1>2. \A i \in 1..Len(q) : q[i] \in LineCommand
  BY ElementOfSeq
<1>3. Older(q) = [i \in 1..Len(q) |-> [q[i] EXCEPT !.own = FALSE]]
  BY <1>1 DEF Older
<1>4. \A i \in 1..Len(q) :
          /\ [q[i] EXCEPT !.own = FALSE] \in LineCommand
          /\ [q[i] EXCEPT !.own = FALSE].own = FALSE
          /\ [q[i] EXCEPT !.own = FALSE].op = q[i].op
  BY <1>2 DEF LineCommand
<1>5. Older(q) \in [1..Len(q) -> LineCommand]
  BY <1>3, <1>4
<1>6. Older(q) \in Seq(LineCommand) /\ Len(Older(q)) = Len(q)
  BY <1>1, <1>5
<1>7. \A i \in 1..Len(q) : Older(q)[i] = [q[i] EXCEPT !.own = FALSE]
  BY <1>3
<1> QED
  BY <1>4, <1>6, <1>7

LEMMA OlderEvents ==
    ASSUME NEW q \in Seq(LineEvent)
    PROVE  /\ Older(q) \in Seq(LineEvent) /\ Len(Older(q)) = Len(q)
           /\ \A i \in 1..Len(q) : Older(q)[i].own = FALSE
<1>1. DOMAIN q = 1..Len(q) /\ Len(q) \in Nat
  BY LenProperties
<1>2. \A i \in 1..Len(q) : q[i] \in LineEvent
  BY ElementOfSeq
<1>3. Older(q) = [i \in 1..Len(q) |-> [q[i] EXCEPT !.own = FALSE]]
  BY <1>1 DEF Older
<1>4. \A i \in 1..Len(q) :
          /\ [q[i] EXCEPT !.own = FALSE] \in LineEvent
          /\ [q[i] EXCEPT !.own = FALSE].own = FALSE
  BY <1>2 DEF LineEvent
<1>5. Older(q) \in [1..Len(q) -> LineEvent]
  BY <1>3, <1>4
<1>6. Older(q) \in Seq(LineEvent) /\ Len(Older(q)) = Len(q)
  BY <1>1, <1>5
<1>7. \A i \in 1..Len(q) : Older(q)[i] = [q[i] EXCEPT !.own = FALSE]
  BY <1>3
<1> QED
  BY <1>4, <1>6, <1>7

(* What is left of a sequence behind its first k elements. *)
LEMMA Behind ==
    ASSUME NEW S, NEW s \in Seq(S), NEW k \in 0..Len(s)
    PROVE  /\ SubSeq(s, k + 1, Len(s)) \in Seq(S)
           /\ Len(SubSeq(s, k + 1, Len(s))) = Len(s) - k
           /\ \A i \in 1..(Len(s) - k) : SubSeq(s, k + 1, Len(s))[i] = s[i + k]
<1>1. Len(s) \in Nat /\ \A i \in k + 1..Len(s) : s[i] \in S
  BY LenProperties, ElementOfSeq
<1>2. /\ SubSeq(s, k + 1, Len(s)) \in Seq(S)
      /\ Len(SubSeq(s, k + 1, Len(s))) = IF k + 1 <= Len(s) THEN Len(s) - (k + 1) + 1 ELSE 0
      /\ \A i \in 1..(Len(s) - (k + 1) + 1) : SubSeq(s, k + 1, Len(s))[i] = s[(k + 1) + i - 1]
  BY <1>1, SubSeqProperties
<1> QED
  BY <1>1, <1>2

-----------------------------------------------------------------------------
LEMMA HostTypes ==
    ASSUME HostInv
    PROVE  /\ commands \in Seq(LineCommand) /\ DOMAIN commands = 1..Len(commands)
           /\ Len(commands) \in Nat /\ \A i \in 1..Len(commands) : commands[i] \in LineCommand
           /\ events \in Seq(LineEvent) /\ DOMAIN events = 1..Len(events)
           /\ Len(events) \in Nat /\ \A i \in 1..Len(events) : events[i] \in LineEvent
           /\ at \in 0..8 /\ configured \in BOOLEAN /\ scanning \in BOOLEAN /\ flushed \in BOOLEAN
           /\ backend \in Backends /\ Len(commands) + Len(events) <= MaxOwed
           /\ MaxOwed \in Nat /\ MaxOwed >= 1
           /\ (configured => at = 0)
<1>1. commands \in Seq(LineCommand) /\ events \in Seq(LineEvent)
  BY DEF HostInv, TypeOK, LineCommand, LineEvent
<1>2. at \in 0..8
  BY ScriptIs DEF HostInv, TypeOK
<1> QED
  BY <1>1, <1>2, LenProperties, ElementOfSeq, StandbyHostBounds
     DEF HostInv, TypeOK, FlushInv, ConfiguredIsIdle

(* What a step of the host that is not Configure does: some first answers   *)
(* are taken, and the wait goes on, or the try fails, succeeds or goes on   *)
(* with its next command, which may be lost.                                *)
AnswersTaken == \E k \in 0..Len(events) : events' = SubSeq(events, k + 1, Len(events))
FirstTaken   == events # <<>> /\ events' = Tail(events) /\ flushed' = Head(events).own
WasEnabled   == \E i \in 1..Len(events) : events[i].op = "LE_SET_SCAN_ENABLE" /\ events[i].ok

WaitGoesOn == UNCHANGED <<at, configured, commands, flushed>>

TryFails ==
    /\ at # 0 /\ at' = 0 /\ configured' = FALSE /\ commands' = commands
    /\ flushed' \in BOOLEAN

TrySucceeds ==
    /\ at = 8 /\ at' = 0 /\ configured' = TRUE
    /\ UNCHANGED <<commands, flushed>>
    /\ WasEnabled

CommandWritten ==
    \/ commands' = commands
    \/ commands' = Append(commands, Sent(at')) /\ Len(commands) + Len(events) < MaxOwed

TryGoesOn ==
    /\ at \in 1..7 /\ at' = at + 1 /\ configured' = FALSE
    /\ CommandWritten
    /\ at = 1 => FirstTaken
    /\ at # 1 => flushed' = flushed

HostMoves ==
    /\ UNCHANGED <<backend, scanning>>
    /\ AnswersTaken
    /\ WaitGoesOn \/ TryFails \/ TrySucceeds \/ TryGoesOn

LEMMA NextCommandWrites ==
    ASSUME HostInv, NextCommand, at \in 1..7
    PROVE  at' = at + 1 /\ configured' = FALSE /\ CommandWritten
BY HostTypes DEF NextCommand, Written, CommandWritten

LEMMA ReturnedMoves ==
    ASSUME HostInv, NEW ok, Returned(ok), at \in 2..8, flushed' = flushed,
           at = 8 /\ ok => WasEnabled
    PROVE  TryFails \/ TrySucceeds \/ TryGoesOn
<1>1. CASE ~ok /\ Script[at] \in Required
  BY <1>1, HostTypes DEF Returned, Finish, TryFails
<1>2. CASE ~(~ok /\ Script[at] \in Required) /\ at = 8
  <2>1. Finish(TRUE) /\ ok
    BY <1>2, ScriptIs DEF Returned
  <2> QED
    BY <1>2, <2>1 DEF Finish, TrySucceeds
<1>3. CASE ~(~ok /\ Script[at] \in Required) /\ at # 8
  <2>1. at # Len(Script) /\ at \in 1..7
    BY <1>3, ScriptIs
  <2>2. NextCommand
    BY <1>3, <2>1 DEF Returned
  <2>3. at' = at + 1 /\ configured' = FALSE /\ CommandWritten
    BY <2>1, <2>2, NextCommandWrites, Zenon
  <2>4. at # 1
    OBVIOUS
  <2> QED
    BY <2>1, <2>3, <2>4 DEF TryGoesOn
<1> QED
  BY <1>1, <1>2, <1>3

LEMMA AwaitResetMoves ==
    ASSUME HostInv, AwaitReset
    PROVE  HostMoves
<1>1. /\ at = 1 /\ events # <<>> /\ events' = Tail(events)
      /\ UNCHANGED <<backend, scanning>> /\ Len(events) >= 1
  BY HostTypes, EmptySeq DEF AwaitReset
<1>2. AnswersTaken
  <2>1. 1 \in 0..Len(events) /\ events' = SubSeq(events, 1 + 1, Len(events))
    BY <1>1, HostTypes, TailIsSubSeq
  <2> QED
    BY <2>1 DEF AnswersTaken
<1>3. CASE Head(events).op # "RESET"
  BY <1>1, <1>2, <1>3 DEF AwaitReset, HostMoves, WaitGoesOn
<1>4. CASE Head(events).op = "RESET"
  <2>1. flushed' = Head(events).own /\ (IF Head(events).ok THEN NextCommand ELSE Finish(FALSE))
    BY <1>4 DEF AwaitReset
  <2>2. flushed' \in BOOLEAN
    <3>1. Head(events) \in LineEvent
      BY <1>1, HostTypes, HeadTailProperties
    <3> QED
      BY <2>1, <3>1 DEF LineEvent
  <2>3. CASE Head(events).ok
    <3>1. NextCommand /\ at \in 1..7
      BY <1>1, <2>1, <2>3
    <3>2. TryGoesOn
      BY <1>1, <2>1, <3>1, NextCommandWrites DEF TryGoesOn, FirstTaken
    <3> QED
      BY <1>1, <1>2, <3>2 DEF HostMoves
  <2>4. CASE ~Head(events).ok
    BY <1>1, <1>2, <2>1, <2>2, <2>4 DEF Finish, TryFails, HostMoves
  <2> QED
    BY <2>3, <2>4
<1> QED
  BY <1>3, <1>4

LEMMA DeliveredType ==
    ASSUME HostInv
    PROVE  Delivered \in 0..Len(events)
BY HostTypes, StandbyHostBounds DEF Delivered

LEMMA PollMoves ==
    ASSUME HostInv, Poll
    PROVE  HostMoves
<1>1. /\ at > 1 /\ events' = SubSeq(events, Delivered + 1, Len(events))
      /\ UNCHANGED <<backend, scanning, flushed>>
  BY DEF Poll
<1>2. AnswersTaken
  BY <1>1, DeliveredType DEF AnswersTaken
<1>3. at \in 2..8
  BY <1>1, HostTypes
<1>4. CASE UNCHANGED <<at, configured, commands>>
  BY <1>1, <1>2, <1>4 DEF HostMoves, WaitGoesOn
<1>5. ASSUME NEW last \in Answers, Returned(events[last].ok)
      PROVE  HostMoves
  <2>1. last \in 1..Len(events) /\ events[last].op = Script[at]
    BY DeliveredType, HostTypes DEF Answers
  <2>2. at = 8 /\ events[last].ok => WasEnabled
    BY <2>1, ScriptIs DEF WasEnabled
  <2>3. TryFails \/ TrySucceeds \/ TryGoesOn
    BY <1>1, <1>3, <1>5, <2>2, ReturnedMoves
  <2> QED
    BY <1>1, <1>2, <2>3 DEF HostMoves
<1> QED
  BY <1>4, <1>5 DEF Poll

LEMMA TimeoutMoves ==
    ASSUME HostInv, Timeout
    PROVE  HostMoves
<1>1. at # 0 /\ UNCHANGED <<backend, events, scanning, flushed>> /\ at \in 1..8
  BY HostTypes DEF Timeout
<1>2. AnswersTaken
  <2>1. 0 \in 0..Len(events) /\ events' = SubSeq(events, 0 + 1, Len(events))
    BY <1>1, HostTypes, SubSeqFull
  <2> QED
    BY <2>1 DEF AnswersTaken
<1>3. CASE at = 1
  BY <1>1, <1>2, <1>3, HostTypes DEF Timeout, Finish, TryFails, HostMoves
<1>4. CASE at # 1
  <2>1. Returned(FALSE)
    BY <1>4, Zenon DEF Timeout
  <2>2. at \in 2..8 /\ flushed' = flushed /\ (at = 8 /\ FALSE => WasEnabled)
    BY <1>1, <1>4
  <2>3. TryFails \/ TrySucceeds \/ TryGoesOn
    BY <2>1, <2>2, ReturnedMoves, Zenon
  <2> QED
    BY <1>1, <1>2, <2>3 DEF HostMoves
<1> QED
  BY <1>3, <1>4

LEMMA IdlePollMoves ==
    ASSUME HostInv, IdlePoll
    PROVE  HostMoves
BY DeliveredType DEF IdlePoll, AnswersTaken, WaitGoesOn, HostMoves

LEMMA StepMoves ==
    ASSUME HostInv, Answer \/ Timeout \/ IdlePoll
    PROVE  HostMoves
BY AwaitResetMoves, PollMoves, TimeoutMoves, IdlePollMoves DEF Answer

(* Configure marks what is under way as older and sends the first command,  *)
(* a reset where that is one.                                               *)
ConfigureBegins ==
    /\ at = 0 /\ ~configured /\ UNCHANGED <<backend, configured>>
    /\ \/ /\ at' = 1
          /\ commands' = Append(Older(commands), Sent(1))
          /\ Len(commands) + Len(events) < MaxOwed
          /\ events' = Older(events) /\ flushed' = FALSE /\ scanning' = scanning
       \/ /\ at' = 2
          /\ (commands' = <<>> \/ commands' = <<Sent(2)>>) /\ events' = <<>>
          /\ flushed' = TRUE /\ scanning' = FALSE
       \/ /\ backend = "esp32" /\ at' = 2
          /\ \/ commands' = Older(commands)
             \/ commands' = Append(Older(commands), Sent(2)) /\ Len(commands) + Len(events) < MaxOwed
          /\ events' = <<>>
          /\ flushed' = (commands = <<>>) /\ scanning' = scanning

LEMMA ConfigureIs ==
    ASSUME HostInv, Configure
    PROVE  ConfigureBegins
<1>1. Len(Older(commands)) = Len(commands)
  BY HostTypes, OlderCommands
<1>2. CASE ResetByCommand
  BY <1>1, <1>2 DEF Configure, ResetByCommand, Written, ConfigureBegins
<1>3. CASE ResetByPin /\ events' = <<>> /\ at' = 2
  <2>1. Append(<<>>, Sent(2)) = <<Sent(2)>>
    OBVIOUS
  <2> QED
    BY <1>3, <2>1 DEF Configure, ResetByPin, Written, ConfigureBegins
<1>4. CASE NoReset /\ events' = <<>> /\ at' = 2
  BY <1>1, <1>4 DEF Configure, NoReset, Written, ConfigureBegins
<1> QED
  BY <1>2, <1>3, <1>4 DEF Configure

(* The line after such a step, element by element. *)
AnswersDropped ==
    \E k \in 0..Len(events) :
        /\ Len(events') = Len(events) - k
        /\ \A i \in 1..Len(events') : events'[i] = events[i + k]

LineMoved ==
    /\ commands' \in Seq(LineCommand) /\ events' \in Seq(LineEvent)
    /\ \A i \in 1..Len(commands) : commands'[i] = commands[i]
    /\ \/ Len(commands') = Len(commands)
       \/ /\ Len(commands') = Len(commands) + 1 /\ at' \in 2..8 /\ at # 0
          /\ commands'[Len(commands) + 1] = Sent(at')
    /\ AnswersDropped
    /\ Len(commands') + Len(events') <= MaxOwed
    /\ at' \in 0..8

LEMMA LineAfterMove ==
    ASSUME HostInv, HostMoves
    PROVE  LineMoved
<1>1. PICK k \in 0..Len(events) : events' = SubSeq(events, k + 1, Len(events))
  BY DEF HostMoves, AnswersTaken
<1>2. /\ events' \in Seq(LineEvent) /\ Len(events') = Len(events) - k
      /\ \A i \in 1..Len(events') : events'[i] = events[i + k]
  BY <1>1, HostTypes, Behind
<1>3. at' \in 0..8
  BY HostTypes DEF HostMoves, WaitGoesOn, TryFails, TrySucceeds, TryGoesOn
<1>4. AnswersDropped
  BY <1>2 DEF AnswersDropped
<1>5. CASE commands' = commands
  <2>1. Len(commands') + Len(events') <= MaxOwed
    BY <1>2, <1>5, HostTypes
  <2> QED
    BY <1>2, <1>3, <1>4, <1>5, <2>1, HostTypes DEF LineMoved
<1>6. CASE commands' # commands
  <2>1. /\ at \in 1..7 /\ at' = at + 1
        /\ commands' = Append(commands, Sent(at')) /\ Len(commands) + Len(events) < MaxOwed
    BY <1>6 DEF HostMoves, WaitGoesOn, TryFails, TrySucceeds, TryGoesOn, CommandWritten
  <2>2. at' \in 2..8 /\ Sent(at') \in LineCommand
    BY <2>1, SentIs
  <2>3. /\ commands' \in Seq(LineCommand) /\ Len(commands') = Len(commands) + 1
        /\ \A i \in 1..Len(commands) : commands'[i] = commands[i]
        /\ commands'[Len(commands) + 1] = Sent(at')
    BY <2>1, <2>2, HostTypes, AppendProperties
  <2>4. Len(commands') + Len(events') <= MaxOwed
    BY <2>1, <2>3, <1>2, HostTypes
  <2> QED
    BY <1>2, <1>3, <1>4, <2>1, <2>2, <2>3, <2>4 DEF LineMoved
<1> QED
  BY <1>5, <1>6

(* The line after the controller has executed a command. *)
LEMMA LineAfterExecutes ==
    ASSUME HostInv, NEW ok \in BOOLEAN, Executes(ok)
    PROVE  /\ Len(commands) >= 1
           /\ commands' \in Seq(LineCommand) /\ Len(commands') = Len(commands) - 1
           /\ \A i \in 1..Len(commands') : commands'[i] = commands[i + 1]
           /\ events' \in Seq(LineEvent) /\ Len(events') = Len(events) + 1
           /\ \A i \in 1..Len(events) : events'[i] = events[i]
           /\ events'[Len(events) + 1].op = commands[1].op
           /\ events'[Len(events) + 1].ok = ok
           /\ events'[Len(events) + 1].own = commands[1].own
           /\ UNCHANGED <<backend, at, configured, flushed>>
           /\ scanning' = CASE commands[1].op = "RESET" -> FALSE
                            [] commands[1].op = "LE_SET_SCAN_ENABLE" /\ ok -> TRUE
                            [] OTHER -> scanning
<1> DEFINE e == [op |-> Head(commands).op, ok |-> ok, own |-> Head(commands).own]
<1>1. /\ commands # <<>> /\ commands' = Tail(commands) /\ events' = Append(events, e)
      /\ scanning' = CASE Head(commands).op = "RESET" -> FALSE
                       [] Head(commands).op = "LE_SET_SCAN_ENABLE" /\ ok -> TRUE
                       [] OTHER -> scanning
      /\ UNCHANGED <<backend, at, configured, flushed>>
  BY DEF Executes
<1>2. /\ Len(commands) >= 1 /\ Head(commands) = commands[1] /\ Head(commands) \in LineCommand
      /\ commands' \in Seq(LineCommand) /\ Len(commands') = Len(commands) - 1
      /\ \A i \in 1..Len(commands') : commands'[i] = commands[i + 1]
  BY <1>1, HostTypes, HeadTailProperties, EmptySeq
<1>3. e \in LineEvent /\ e.op = commands[1].op /\ e.ok = ok /\ e.own = commands[1].own
  BY <1>2 DEF LineCommand, LineEvent
<1> HIDE DEF e
<1>4. /\ events' \in Seq(LineEvent) /\ Len(events') = Len(events) + 1
      /\ \A i \in 1..Len(events) : events'[i] = events[i]
      /\ events'[Len(events) + 1] = e
  BY <1>1, <1>3, HostTypes, AppendProperties
<1> QED
  BY <1>1, <1>2, <1>3, <1>4

(* The line where a configuration begins. *)
LineBegins ==
    /\ commands' \in Seq(LineCommand) /\ events' \in Seq(LineEvent)
    /\ Len(commands') + Len(events') <= MaxOwed
    /\ at = 0 /\ configured = FALSE /\ configured' = FALSE /\ backend' = backend
    /\ at' \in 1..2 /\ flushed' \in BOOLEAN /\ scanning' \in BOOLEAN
    /\ \A i \in 1..Len(events') : ~events'[i].own
    /\ at' > 1 => events' = <<>>
    /\ \A i \in 1..Len(commands') :
           commands'[i].own => i = Len(commands') /\ commands'[i] = Sent(at')
    /\ at' = 1 =>
           /\ Len(commands') >= 1
           /\ commands'[Len(commands')] = Sent(1)
    /\ at' > 1 /\ flushed' =>
           \A i \in 1..Len(commands') : commands'[i] = Sent(2)
    /\ at' > 1 /\ backend # "esp32" => flushed' /\ scanning' = FALSE

LEMMA LineAfterConfigure ==
    ASSUME HostInv, Configure
    PROVE  LineBegins
<1> DEFINE q == Older(commands)
<1>1. /\ q \in Seq(LineCommand) /\ Len(q) = Len(commands) /\ Len(commands) \in Nat
      /\ \A i \in 1..Len(q) : q[i].own = FALSE
  BY HostTypes, OlderCommands
<1>2. /\ Older(events) \in Seq(LineEvent) /\ Len(Older(events)) = Len(events) /\ Len(events) \in Nat
      /\ \A i \in 1..Len(events) : Older(events)[i].own = FALSE
  BY HostTypes, OlderEvents
<1>3. ASSUME NEW n \in 1..2
      PROVE  /\ Append(q, Sent(n)) \in Seq(LineCommand) /\ Len(Append(q, Sent(n))) = Len(q) + 1
             /\ \A i \in 1..Len(q) : Append(q, Sent(n))[i] = q[i]
             /\ Append(q, Sent(n))[Len(q) + 1] = Sent(n)
  <2>1. Sent(n) \in LineCommand
    BY SentIs
  <2> QED
    BY <2>1, <1>1, AppendProperties
<1> HIDE DEF q
<1>4. /\ <<>> \in Seq(LineCommand) /\ <<>> \in Seq(LineEvent) /\ Len(<<>>) = 0
      /\ <<Sent(2)>> \in Seq(LineCommand) /\ Len(<<Sent(2)>>) = 1 /\ <<Sent(2)>>[1] = Sent(2)
  <2>1. Sent(2) \in LineCommand
    BY SentIs
  <2> QED
    BY <2>1
<1>5. ConfigureBegins /\ configured = FALSE /\ configured' = FALSE /\ at = 0 /\ backend' = backend
  BY ConfigureIs, HostTypes DEF ConfigureBegins
<1>6. CASE /\ at' = 1
           /\ commands' = Append(q, Sent(1)) /\ Len(commands) + Len(events) < MaxOwed
           /\ events' = Older(events) /\ flushed' = FALSE /\ scanning' = scanning
  <2>1. Len(commands') + Len(events') <= MaxOwed
    BY <1>1, <1>2, <1>3, <1>6, HostTypes
  <2>2. \A i \in 1..Len(commands') :
            commands'[i].own => i = Len(commands') /\ commands'[i] = Sent(at')
    BY <1>1, <1>3, <1>6
  <2>3. commands' \in Seq(LineCommand) /\ events' \in Seq(LineEvent)
    BY <1>2, <1>3, <1>6
  <2>4. \A i \in 1..Len(events') : ~events'[i].own
    BY <1>2, <1>6
  <2>5. Len(commands') >= 1 /\ commands'[Len(commands')] = Sent(1)
    BY <1>1, <1>3, <1>6
  <2>6. at' \in 1..2 /\ ~(at' > 1)
    BY <1>6
  <2>7. flushed' \in BOOLEAN /\ scanning' \in BOOLEAN
    BY <1>6, HostTypes, Zenon
  <2> QED
    BY <1>5, <2>1, <2>2, <2>3, <2>4, <2>5, <2>6, <2>7 DEF LineBegins
<1>7. CASE /\ at' = 2
           /\ (commands' = <<>> \/ commands' = <<Sent(2)>>) /\ events' = <<>>
           /\ flushed' = TRUE /\ scanning' = FALSE
  <2>1. /\ commands' \in Seq(LineCommand) /\ events' \in Seq(LineEvent)
        /\ Len(commands') + Len(events') <= MaxOwed
    <3>1. CASE commands' = <<>>
      BY <1>4, <1>7, <3>1, HostTypes
    <3>2. CASE commands' = <<Sent(2)>>
      BY <1>4, <1>7, <3>2, HostTypes
    <3> QED
      BY <1>7, <3>1, <3>2
  <2>2. \A i \in 1..Len(events') : ~events'[i].own
    BY <1>4, <1>7
  <2>3. \A i \in 1..Len(commands') : i = Len(commands') /\ commands'[i] = Sent(2)
    BY <1>4, <1>7
  <2>4. at' \in 1..2 /\ at' # 1
    BY <1>7
  <2>5. flushed' \in BOOLEAN /\ scanning' \in BOOLEAN /\ flushed' /\ scanning' = FALSE
    BY <1>7, Zenon
  <2> QED
    BY <1>5, <1>7, <2>1, <2>2, <2>3, <2>4, <2>5 DEF LineBegins
<1>8. CASE /\ backend = "esp32" /\ at' = 2
           /\ commands' = q \/ (commands' = Append(q, Sent(2)) /\ Len(commands) + Len(events) < MaxOwed)
           /\ events' = <<>>
           /\ flushed' = (commands = <<>>) /\ scanning' = scanning
  <2>1. commands = <<>> => Len(q) = 0
    BY <1>1
  <2>2. flushed' => Len(q) = 0
    BY <1>8, <2>1
  <2>3. flushed' \in BOOLEAN
    BY <1>8
  <2>4. CASE commands' = q
    <3>1. Len(commands') + Len(events') <= MaxOwed
      BY <1>1, <1>2, <1>4, <1>8, <2>4, HostTypes
    <3> QED
      BY <1>1, <1>4, <1>5, <1>8, <2>2, <2>3, <2>4, <3>1, HostTypes DEF LineBegins
  <2>5. CASE commands' = Append(q, Sent(2)) /\ Len(commands) + Len(events) < MaxOwed
    <3>1. Len(commands') + Len(events') <= MaxOwed
      BY <1>1, <1>2, <1>3, <1>4, <1>8, <2>5, HostTypes
    <3>2. \A i \in 1..Len(commands') :
              commands'[i].own => i = Len(commands') /\ commands'[i] = Sent(at')
      BY <1>1, <1>3, <1>8, <2>5
    <3>3. flushed' => \A i \in 1..Len(commands') : commands'[i] = Sent(2)
      BY <1>1, <1>3, <2>2, <2>5
    <3> QED
      BY <1>3, <1>4, <1>5, <1>8, <2>3, <2>5, <3>1, <3>2, <3>3, HostTypes DEF LineBegins
  <2>6. commands' = q \/ (commands' = Append(q, Sent(2)) /\ Len(commands) + Len(events) < MaxOwed)
    BY <1>8
  <2> QED
    BY <2>4, <2>5, <2>6
<1>9. commands' = q <=> commands' = Older(commands)
  BY DEF q
<1>10. \A n : Append(q, Sent(n)) = Append(Older(commands), Sent(n))
  BY DEF q
<1> QED
  BY <1>5, <1>6, <1>7, <1>8, <1>9, <1>10, Zenon DEF ConfigureBegins

-----------------------------------------------------------------------------
(* The types. *)
LEMMA HostInit == Init => HostInv
<1> SUFFICES ASSUME Init PROVE HostInv
  OBVIOUS
<1>1. /\ commands = <<>> /\ events = <<>> /\ at = 0 /\ configured = FALSE /\ flushed = FALSE
      /\ backend \in Backends /\ scanning \in BOOLEAN
  BY DEF Init
<1>2. TypeOK
  <2>1. Len(<<>>) + Len(<<>>) <= MaxOwed /\ 0 \in 0..Len(Script)
    BY ScriptIs, StandbyHostBounds
  <2>2. configured \in BOOLEAN /\ flushed \in BOOLEAN
    BY <1>1, Zenon
  <2>3. <<>> \in Seq(LineCommand) /\ <<>> \in Seq(LineEvent)
    OBVIOUS
  <2> QED
    BY <1>1, <2>1, <2>2, <2>3 DEF TypeOK, LineCommand, LineEvent
<1>3. FlushInv
  BY <1>1 DEF FlushInv, ResetIsLast, ResetFlushes, NoOtherReset, EnabledIsTrue,
              ConfiguredIsIdle, ConfiguredScans
<1> QED
  BY <1>1, <1>2, <1>3 DEF HostInv, LineInOrder

LEMMA TypeFromParts ==
    ASSUME backend' \in Backends, at' \in 0..8,
           configured' \in BOOLEAN, scanning' \in BOOLEAN, flushed' \in BOOLEAN,
           commands' \in Seq(LineCommand), events' \in Seq(LineEvent),
           Len(commands') + Len(events') <= MaxOwed
    PROVE  TypeOK'
BY ScriptIs DEF TypeOK, LineCommand, LineEvent

LEMMA TypeStep ==
    ASSUME HostInv, Next
    PROVE  TypeOK'
<1>1. CASE Configure
  BY <1>1, LineAfterConfigure, HostTypes, TypeFromParts DEF LineBegins
<1>2. CASE Answer \/ Timeout \/ IdlePoll
  <2>1. HostMoves /\ LineMoved
    BY <1>2, StepMoves, LineAfterMove
  <2>2. configured' \in BOOLEAN /\ flushed' \in BOOLEAN
    <3>1. CASE WaitGoesOn
      BY <3>1, HostTypes DEF WaitGoesOn
    <3>2. CASE TryFails
      BY <3>2 DEF TryFails
    <3>3. CASE TrySucceeds
      BY <3>3, HostTypes DEF TrySucceeds
    <3>4. CASE TryGoesOn
      <4>1. CASE at = 1
        <5>1. events # <<>> /\ flushed' = Head(events).own
          BY <3>4, <4>1 DEF TryGoesOn, FirstTaken
        <5>2. Head(events) \in LineEvent
          BY <5>1, HostTypes, HeadTailProperties
        <5> QED
          BY <3>4, <5>1, <5>2 DEF TryGoesOn, LineEvent
      <4>2. CASE at # 1
        BY <3>4, <4>2, HostTypes DEF TryGoesOn
      <4> QED
        BY <4>1, <4>2
    <3> QED
      BY <2>1, <3>1, <3>2, <3>3, <3>4 DEF HostMoves
  <2>3. backend' \in Backends /\ scanning' \in BOOLEAN
    BY <2>1, HostTypes DEF HostMoves
  <2> QED
    BY <2>1, <2>2, <2>3, TypeFromParts DEF LineMoved
<1>3. ASSUME NEW ok \in BOOLEAN, Executes(ok)
      PROVE  TypeOK'
  <2>1. scanning' \in {FALSE, TRUE, scanning}
    BY <1>3, LineAfterExecutes
  <2>2. scanning' \in BOOLEAN
    BY <2>1, HostTypes
  <2>3. Len(commands') + Len(events') <= MaxOwed
    <3>1. /\ Len(commands') = Len(commands) - 1 /\ Len(events') = Len(events) + 1
          /\ Len(commands) >= 1
      BY <1>3, LineAfterExecutes
    <3> QED
      BY <3>1, HostTypes
  <2> QED
    BY <1>3, <2>2, <2>3, LineAfterExecutes, HostTypes, TypeFromParts
<1>4. CASE LeaveStandby
  BY <1>4, HostTypes, TypeFromParts DEF LeaveStandby
<1> QED
  BY <1>1, <1>2, <1>3, <1>4 DEF Next

-----------------------------------------------------------------------------
(* The line after a reset.  A try that has failed, or none, promises nothing. *)
LEMMA FlushOfNone ==
    ASSUME at' = 0, configured' = FALSE
    PROVE  FlushInv'
BY DEF FlushInv, ResetIsLast, ResetFlushes, NoOtherReset, EnabledIsTrue, ConfiguredIsIdle,
       ConfiguredScans

LEMMA FlushConfigure ==
    ASSUME HostInv, Configure
    PROVE  FlushInv'
<1>1. LineBegins
  BY LineAfterConfigure
<1>2. /\ DOMAIN commands' = 1..Len(commands') /\ DOMAIN events' = 1..Len(events')
      /\ configured' = FALSE /\ at' \in 1..2
  BY <1>1, LenProperties DEF LineBegins
<1>3. ResetIsLast'
  BY <1>1, <1>2 DEF LineBegins, ResetIsLast
<1>4. Sent(2).own /\ Sent(2).op # "RESET"
  <2>1. 2 \in 2..8
    OBVIOUS
  <2> QED
    BY <2>1, OnlyFirstResets
<1>5. at' > 1 => \A i \in DOMAIN events' : FALSE
  BY <1>1 DEF LineBegins
<1>6. ResetFlushes' /\ NoOtherReset'
  BY <1>1, <1>2, <1>4, <1>5 DEF LineBegins, ResetFlushes, NoOtherReset
<1>7. EnabledIsTrue'
  BY <1>5 DEF EnabledIsTrue
<1> QED
  BY <1>2, <1>3, <1>6, <1>7 DEF FlushInv, ConfiguredIsIdle, ConfiguredScans

LEMMA FlushMove ==
    ASSUME HostInv, HostMoves
    PROVE  FlushInv'
<1>1. /\ LineMoved /\ scanning' = scanning
      /\ WaitGoesOn \/ TryFails \/ TrySucceeds \/ TryGoesOn
  BY LineAfterMove DEF HostMoves
<1>2. /\ DOMAIN commands' = 1..Len(commands') /\ DOMAIN events' = 1..Len(events')
      /\ DOMAIN commands = 1..Len(commands) /\ DOMAIN events = 1..Len(events)
      /\ Len(commands) \in Nat /\ Len(events) \in Nat
  BY <1>1, LenProperties, HostTypes DEF LineMoved
<1>3. PICK k \in 0..Len(events) :
          /\ Len(events') = Len(events) - k
          /\ \A i \in 1..Len(events') : events'[i] = events[i + k]
  BY <1>1 DEF LineMoved, AnswersDropped
<1>4. \A i \in DOMAIN events' : i + k \in DOMAIN events /\ events'[i] = events[i + k]
  BY <1>2, <1>3
<1>5. FlushInv
  BY DEF HostInv
<1>6. CASE WaitGoesOn
  <2>1. UNCHANGED <<at, configured, commands, flushed>>
    BY <1>6 DEF WaitGoesOn
  <2>2. ResetIsLast'
    <3> SUFFICES ASSUME at = 1
                 PROVE  /\ \A i \in DOMAIN commands : commands[i].own => i = Len(commands)
                        /\ \A i \in DOMAIN events' :
                               events'[i].own => i = Len(events') /\ commands = <<>>
      BY <2>1 DEF ResetIsLast
    <3>1. \A i \in DOMAIN events' : events'[i].own => i + k = Len(events) /\ commands = <<>>
      BY <1>4, <1>5 DEF FlushInv, ResetIsLast
    <3>2. \A i \in DOMAIN commands : commands[i].own => i = Len(commands)
      BY <1>5 DEF FlushInv, ResetIsLast
    <3> QED
      BY <1>2, <1>3, <3>1, <3>2
  <2>3. ResetFlushes'
    BY <2>1, <1>4, <1>5 DEF FlushInv, ResetFlushes
  <2>4. NoOtherReset' /\ ConfiguredIsIdle' /\ ConfiguredScans'
    BY <2>1, <1>1, <1>5 DEF FlushInv, NoOtherReset, ConfiguredIsIdle, ConfiguredScans
  <2>5. EnabledIsTrue'
    BY <2>1, <1>1, <1>4, <1>5 DEF FlushInv, EnabledIsTrue
  <2> QED
    BY <2>2, <2>3, <2>4, <2>5 DEF FlushInv
<1>7. CASE TryFails
  BY <1>7, FlushOfNone DEF TryFails
<1>8. CASE TrySucceeds
  <2>1. /\ at = 8 /\ at' = 0 /\ UNCHANGED <<commands, flushed>> /\ WasEnabled
    BY <1>8 DEF TrySucceeds
  <2>2. flushed => scanning
    BY <2>1, <1>2, <1>5 DEF FlushInv, EnabledIsTrue, WasEnabled
  <2>3. NoOtherReset'
    BY <2>1, <1>5 DEF FlushInv, NoOtherReset
  <2> QED
    BY <2>1, <2>2, <2>3, <1>1
       DEF FlushInv, ResetIsLast, ResetFlushes, EnabledIsTrue, ConfiguredIsIdle, ConfiguredScans
<1>9. CASE TryGoesOn
  <2>1. at \in 1..7 /\ at' = at + 1 /\ configured' = FALSE
    BY <1>9 DEF TryGoesOn
  <2>2. Sent(at').own /\ Sent(at').op # "RESET"
    <3>1. at' \in 2..8
      BY <2>1
    <3> QED
      BY <3>1, OnlyFirstResets
  <2>3. \A i \in DOMAIN commands' :
            \/ i \in DOMAIN commands /\ commands'[i] = commands[i]
            \/ commands'[i] = Sent(at')
    <3>1. CASE Len(commands') = Len(commands)
      BY <3>1, <1>1, <1>2 DEF LineMoved
    <3>2. CASE /\ Len(commands') = Len(commands) + 1
               /\ commands'[Len(commands) + 1] = Sent(at')
      <4>1. \A i \in DOMAIN commands' : i \in DOMAIN commands \/ i = Len(commands) + 1
        BY <3>2, <1>2
      <4> QED
        BY <3>2, <4>1, <1>1, <1>2 DEF LineMoved
    <3> QED
      BY <3>1, <3>2, <1>1 DEF LineMoved
  <2>4. CASE at = 1
    <3>1. events # <<>> /\ events' = Tail(events) /\ flushed' = Head(events).own
      BY <1>9, <2>4 DEF TryGoesOn, FirstTaken
    <3>2. Len(events) >= 1 /\ Len(events') = Len(events) - 1 /\ Head(events) = events[1]
      BY <3>1, HostTypes, HeadTailProperties, EmptySeq
    <3>3. flushed' => 1 = Len(events) /\ commands = <<>>
      <4>1. 1 \in DOMAIN events /\ flushed' = events[1].own
        BY <3>1, <3>2, <1>2
      <4> QED
        BY <4>1, <2>4, <1>5 DEF FlushInv, ResetIsLast
    <3>4. flushed' => \A i \in DOMAIN events' : FALSE
      <4>1. ASSUME flushed' PROVE Len(events') = 0
        <5>1. 1 = Len(events)
          BY <3>3, <4>1
        <5> QED
          BY <3>2, <5>1, <1>2
      <4> QED
        BY <1>2, <4>1
    <3>5. flushed' => \A i \in DOMAIN commands' : commands'[i] = Sent(at')
      BY <2>3, <3>3
    <3>6. ResetFlushes' /\ NoOtherReset' /\ EnabledIsTrue'
      BY <2>2, <3>4, <3>5 DEF ResetFlushes, NoOtherReset, EnabledIsTrue
    <3> QED
      BY <2>1, <3>6 DEF FlushInv, ResetIsLast, ConfiguredIsIdle, ConfiguredScans
  <2>5. CASE at # 1
    <3>1. flushed' = flushed /\ at > 1 /\ at' > 1
      BY <1>9, <2>1, <2>5 DEF TryGoesOn
    <3>2. ResetFlushes' /\ NoOtherReset'
      BY <2>2, <2>3, <3>1, <1>4, <1>5 DEF FlushInv, ResetFlushes, NoOtherReset
    <3>3. EnabledIsTrue'
      BY <3>1, <1>1, <1>4, <1>5 DEF FlushInv, EnabledIsTrue
    <3> QED
      BY <2>1, <3>1, <3>2, <3>3 DEF FlushInv, ResetIsLast, ConfiguredIsIdle, ConfiguredScans
  <2> QED
    BY <2>4, <2>5
<1> QED
  BY <1>1, <1>6, <1>7, <1>8, <1>9

LEMMA FlushExecutes ==
    ASSUME HostInv, NEW ok \in BOOLEAN, Executes(ok)
    PROVE  FlushInv'
<1> DEFINE last == Len(events) + 1
<1>1. /\ Len(commands) >= 1 /\ Len(commands') = Len(commands) - 1
      /\ \A i \in 1..Len(commands') : commands'[i] = commands[i + 1]
      /\ Len(events') = Len(events) + 1
      /\ \A i \in 1..Len(events) : events'[i] = events[i]
      /\ UNCHANGED <<backend, at, configured, flushed>>
      /\ commands' \in Seq(LineCommand) /\ events' \in Seq(LineEvent)
  BY LineAfterExecutes
<1>2. /\ events'[last].op = commands[1].op /\ events'[last].ok = ok
      /\ events'[last].own = commands[1].own
  BY LineAfterExecutes
<1>3. scanning' = CASE commands[1].op = "RESET" -> FALSE
                    [] commands[1].op = "LE_SET_SCAN_ENABLE" /\ ok -> TRUE
                    [] OTHER -> scanning
  BY LineAfterExecutes
<1>4. /\ DOMAIN commands' = 1..Len(commands') /\ DOMAIN events' = 1..Len(events')
      /\ DOMAIN commands = 1..Len(commands) /\ DOMAIN events = 1..Len(events)
      /\ Len(commands) \in Nat /\ Len(events) \in Nat
  BY <1>1, LenProperties, HostTypes
<1>5. \A i \in DOMAIN commands' : i + 1 \in DOMAIN commands /\ commands'[i] = commands[i + 1]
  BY <1>1, <1>4
<1>6. \A i \in DOMAIN events' :
          \/ i \in DOMAIN events /\ events'[i] = events[i]
          \/ i = last
  BY <1>1, <1>4
<1>7. 1 \in DOMAIN commands /\ Len(events') = last
  BY <1>1, <1>4
<1>8. FlushInv
  BY DEF HostInv
<1> HIDE DEF last
<1>9. ResetIsLast'
  <2> SUFFICES ASSUME at = 1
               PROVE  /\ \A i \in DOMAIN commands' : commands'[i].own => i = Len(commands')
                      /\ \A i \in DOMAIN events' :
                             events'[i].own => i = Len(events') /\ commands' = <<>>
    BY <1>1 DEF ResetIsLast
  <2>1. \A i \in DOMAIN commands : commands[i].own => i = Len(commands)
    BY <1>8 DEF FlushInv, ResetIsLast
  <2>2. \A i \in DOMAIN events : ~events[i].own
    BY <1>1, <1>8 DEF FlushInv, ResetIsLast
  <2>3. \A i \in DOMAIN commands' : commands'[i].own => i + 1 = Len(commands)
    BY <1>5, <2>1
  <2>4. \A i \in DOMAIN commands' : commands'[i].own => i = Len(commands')
    BY <1>1, <1>4, <2>3
  <2>5. events'[last].own => commands' = <<>>
    <3>1. commands[1].own => Len(commands') = 0
      BY <1>1, <1>4, <1>7, <2>1
    <3> QED
      BY <1>1, <1>2, <3>1, EmptySeq
  <2> QED
    BY <1>6, <1>7, <2>2, <2>4, <2>5
<1>10. ResetFlushes'
  BY <1>1, <1>2, <1>5, <1>6, <1>7, <1>8 DEF FlushInv, ResetFlushes
<1>11. NoOtherReset' /\ ConfiguredIsIdle'
  BY <1>1, <1>5, <1>8 DEF FlushInv, NoOtherReset, ConfiguredIsIdle
<1>12. flushed /\ (at > 1 \/ configured) /\ scanning => scanning'
  <2>1. flushed /\ (at > 1 \/ configured) => commands[1].op # "RESET"
    BY <1>7, <1>8 DEF FlushInv, NoOtherReset
  <2> QED
    BY <2>1, <1>3
<1>13. ConfiguredScans'
  BY <1>1, <1>8, <1>12 DEF FlushInv, ConfiguredScans
<1>14. EnabledIsTrue'
  <2>1. flushed /\ at > 1 /\ events'[last].op = "LE_SET_SCAN_ENABLE" /\ events'[last].ok => scanning'
    BY <1>2, <1>3
  <2>2. flushed /\ at > 1 =>
            \A i \in DOMAIN events :
                events[i].op = "LE_SET_SCAN_ENABLE" /\ events[i].ok => scanning
    BY <1>8 DEF FlushInv, EnabledIsTrue
  <2> QED
    BY <1>1, <1>6, <1>12, <2>1, <2>2 DEF EnabledIsTrue
<1> QED
  BY <1>9, <1>10, <1>11, <1>13, <1>14 DEF FlushInv

LEMMA FlushStep ==
    ASSUME HostInv, Next
    PROVE  FlushInv'
<1>1. CASE LeaveStandby
  BY <1>1, FlushOfNone DEF LeaveStandby
<1> QED
  BY <1>1, FlushConfigure, StepMoves, FlushMove, FlushExecutes DEF Next

-----------------------------------------------------------------------------
(* The order of the line, while a configuration is at work on a build that  *)
(* resets its controller.                                                   *)
Ordered == at # 0 /\ backend # "esp32"

LEMMA OrderConfigure ==
    ASSUME HostInv, Configure
    PROVE  LineInOrder'
<1> SUFFICES ASSUME Ordered' PROVE InOrder'
  BY DEF Ordered, LineInOrder
<1>1. LineBegins /\ backend # "esp32"
  BY LineAfterConfigure DEF Ordered, LineBegins
<1>2. DOMAIN commands' = 1..Len(commands') /\ Len(commands') \in Nat /\ at' \in 1..2
  BY <1>1, LenProperties DEF LineBegins
<1>3. \A i \in DOMAIN commands' :
          commands'[i].own => i = Len(commands') /\ commands'[i] = Sent(at')
  BY <1>1, <1>2 DEF LineBegins
<1>4. \A n \in 1..8 : Sent(n).own = TRUE /\ \A m \in 1..8 : Sent(m) = Sent(n) => m = n
  BY SentIs
<1>5. 1 \in 1..8 /\ 2 \in 1..8 /\ 7 \in 1..8
  OBVIOUS
<1>6. OwnAreSent'
  BY <1>2, <1>3 DEF OwnAreSent
<1>7. OwnInOrder'
  <2> SUFFICES ASSUME NEW i \in DOMAIN commands', NEW j \in DOMAIN commands',
                      NEW m \in 1..8, NEW n \in 1..8,
                      i < j, commands'[i] = Sent(m), commands'[j] = Sent(n)
               PROVE  FALSE
    BY DEF OwnInOrder
  <2>1. i = Len(commands') /\ j = Len(commands')
    BY <1>3, <1>4
  <2> QED
    BY <2>1, <1>2
<1>8. CASE at' = 1
  <2>1. Len(commands') \in DOMAIN commands' /\ commands'[Len(commands')] = Sent(1)
    <3>1. Len(commands') >= 1 /\ commands'[Len(commands')] = Sent(1)
      BY <1>1, <1>8 DEF LineBegins
    <3> QED
      BY <3>1, <1>2
  <2>2. Queued(1)'
    BY <2>1 DEF Queued
  <2>3. OlderBeforeReset'
    <3> SUFFICES ASSUME NEW i \in DOMAIN commands', ~commands'[i].own
                 PROVE  i < Len(commands')
      BY <2>1 DEF OlderBeforeReset
    <3>1. i # Len(commands')
      BY <2>1, <1>4, <1>5
    <3> QED
      BY <3>1, <1>2
  <2> QED
    BY <2>2, <2>3, <1>6, <1>7 DEF InOrder, ScannerIsReset
<1>9. CASE at' = 2
  <2>1. scanning' = FALSE /\ \A i \in DOMAIN commands' : commands'[i] = Sent(2)
    <3>1. at' > 1
      BY <1>9
    <3>2. flushed' /\ scanning' = FALSE
      BY <1>1, <3>1 DEF LineBegins
    <3>3. \A i \in 1..Len(commands') : commands'[i] = Sent(2)
      BY <1>1, <3>1, <3>2 DEF LineBegins
    <3> QED
      BY <1>2, <3>2, <3>3
  <2>2. \A i \in DOMAIN commands' : commands'[i].own
    BY <2>1, <1>4, <1>5
  <2> QED
    BY <2>1, <2>2, <1>6, <1>7 DEF InOrder, OlderBeforeReset, ScannerIsReset
<1> QED
  BY <1>2, <1>8, <1>9

(* The controller's queue only grows at its end while the host waits. *)
LEMMA QueuedStays ==
    ASSUME NEW n, Queued(n),
           \A i \in DOMAIN commands : i \in DOMAIN commands' /\ commands'[i] = commands[i]
    PROVE  Queued(n)'
BY DEF Queued

LEMMA OrderMove ==
    ASSUME HostInv, HostMoves
    PROVE  LineInOrder'
<1> SUFFICES ASSUME Ordered' PROVE InOrder'
  BY DEF Ordered, LineInOrder
<1>1. LineMoved /\ scanning' = scanning /\ backend' = backend
  BY LineAfterMove DEF HostMoves
<1>2. /\ DOMAIN commands' = 1..Len(commands') /\ DOMAIN commands = 1..Len(commands)
      /\ Len(commands) \in Nat /\ Len(commands') \in Nat /\ at' \in 1..8
  BY <1>1, LenProperties, HostTypes DEF LineMoved, Ordered
<1>3. at \in 1..8 /\ at <= at'
  BY <1>1, HostTypes DEF HostMoves, WaitGoesOn, TryFails, TrySucceeds, TryGoesOn, Ordered
<1>4. InOrder
  BY <1>1, <1>3 DEF HostInv, LineInOrder, Ordered
<1>5. \A i \in DOMAIN commands : i \in DOMAIN commands' /\ commands'[i] = commands[i]
  <2>1. /\ \A i \in 1..Len(commands) : commands'[i] = commands[i]
        /\ Len(commands') = Len(commands) \/ Len(commands') = Len(commands) + 1
    BY <1>1 DEF LineMoved
  <2>2. \A i \in 1..Len(commands) : i \in 1..Len(commands')
    <3>1. Len(commands) <= Len(commands')
      <4>1. Len(commands) \in Nat
        BY <1>2
      <4>2. CASE Len(commands') = Len(commands)
        BY <4>1, <4>2
      <4>3. CASE Len(commands') = Len(commands) + 1
        BY <4>1, <4>3
      <4> QED
        BY <2>1, <4>2, <4>3
    <3> QED
      BY <3>1, <1>2
  <2> QED
    BY <2>1, <2>2, <1>2
<1>6. \A n \in 1..8 : Sent(n).own = TRUE /\ \A m \in 1..8 : Sent(m) = Sent(n) => m = n
  BY SentIs
<1>7. Queued(1) => Queued(1)'
  BY <1>5, QueuedStays
<1>8. 1 \in 1..8 /\ 7 \in 1..8
  OBVIOUS
<1>9. CASE Len(commands') = Len(commands)
  <2>1. DOMAIN commands' = DOMAIN commands /\ \A i \in DOMAIN commands' : commands'[i] = commands[i]
    BY <1>2, <1>5, <1>9
  <2>2. OwnAreSent'
    BY <1>2, <1>3, <1>4, <2>1 DEF InOrder, OwnAreSent
  <2>3. OwnInOrder'
    BY <1>4, <2>1 DEF InOrder, OwnInOrder
  <2>4. OlderBeforeReset'
    BY <1>4, <2>1 DEF InOrder, OlderBeforeReset
  <2>5. Queued(7)' => Queued(7)
    BY <2>1 DEF Queued
  <2>6. at' < 8 => at < 8
    BY <1>2, <1>3
  <2>7. ScannerIsReset'
    BY <1>1, <1>4, <1>7, <2>5, <2>6 DEF InOrder, ScannerIsReset
  <2> QED
    BY <2>2, <2>3, <2>4, <2>7 DEF InOrder
<1>10. CASE /\ Len(commands') = Len(commands) + 1 /\ at' \in 2..8
            /\ commands'[Len(commands) + 1] = Sent(at')
  <2> DEFINE last == Len(commands) + 1
  <2>1. /\ DOMAIN commands' = DOMAIN commands \cup {last} /\ last \notin DOMAIN commands
        /\ commands'[last] = Sent(at') /\ \A i \in DOMAIN commands : i < last
        /\ last \in Nat
    BY <1>2, <1>10
  <2>2. at' = at + 1 /\ at < 8
    <3>1. commands' # commands
      BY <1>2, <1>10
    <3> QED
      BY <3>1 DEF HostMoves, WaitGoesOn, TryFails, TrySucceeds, TryGoesOn
  <2>3. DOMAIN commands \subseteq Nat
    BY <1>2
  <2> HIDE DEF last
  <2>4. OwnAreSent'
    <3> SUFFICES ASSUME NEW i \in DOMAIN commands', commands'[i].own
                 PROVE  \E n \in 1..at' : commands'[i] = Sent(n)
      BY DEF OwnAreSent
    <3>1. CASE i \in DOMAIN commands
      <4>1. \E n \in 1..at : commands[i] = Sent(n)
        BY <3>1, <1>4, <1>5 DEF InOrder, OwnAreSent
      <4>2. 1..at \subseteq 1..at'
        BY <1>2, <1>3
      <4> QED
        BY <3>1, <4>1, <4>2, <1>5
    <3>2. CASE i = last
      BY <3>2, <2>1, <1>2
    <3> QED
      BY <2>1, <3>1, <3>2
  <2>5. OwnInOrder'
    <3> SUFFICES ASSUME NEW i \in DOMAIN commands', NEW j \in DOMAIN commands',
                        NEW m \in 1..8, NEW n \in 1..8,
                        i < j, commands'[i] = Sent(m), commands'[j] = Sent(n)
                 PROVE  m < n
      BY DEF OwnInOrder
    <3>1. i \in DOMAIN commands
      BY <2>1, <2>3
    <3>2. CASE j \in DOMAIN commands
      BY <3>1, <3>2, <1>4, <1>5 DEF InOrder, OwnInOrder
    <3>3. CASE j = last
      <4>1. n = at'
        BY <3>3, <2>1, <1>2, <1>6
      <4>2. commands[i] = Sent(m) /\ commands[i].own
        BY <3>1, <1>5, <1>6
      <4>3. PICK k \in 1..at : commands[i] = Sent(k)
        BY <3>1, <4>2, <1>4 DEF InOrder, OwnAreSent
      <4>4. k = m
        <5>1. k \in 1..8 /\ Sent(k) = Sent(m)
          BY <4>2, <4>3, <1>3
        <5> QED
          BY <5>1, <1>6
      <4> QED
        BY <4>1, <4>3, <4>4, <1>3, <2>2
    <3> QED
      BY <3>2, <3>3, <2>1
  <2>6. OlderBeforeReset'
    <3>1. Sent(at').own
      BY <1>2, <1>6
    <3> QED
      BY <1>4, <1>5, <2>1, <3>1 DEF InOrder, OlderBeforeReset
  <2>7. ScannerIsReset'
    BY <1>1, <1>4, <1>7, <2>2 DEF InOrder, ScannerIsReset
  <2> QED
    BY <2>4, <2>5, <2>6, <2>7 DEF InOrder
<1> QED
  BY <1>1, <1>9, <1>10 DEF LineMoved

LEMMA OrderExecutes ==
    ASSUME HostInv, NEW ok \in BOOLEAN, Executes(ok)
    PROVE  LineInOrder'
<1> SUFFICES ASSUME Ordered' PROVE InOrder'
  BY DEF Ordered, LineInOrder
<1>1. /\ Len(commands) >= 1 /\ Len(commands') = Len(commands) - 1
      /\ \A i \in 1..Len(commands') : commands'[i] = commands[i + 1]
      /\ commands' \in Seq(LineCommand)
      /\ UNCHANGED <<backend, at>>
  BY LineAfterExecutes
<1>2. scanning' = CASE commands[1].op = "RESET" -> FALSE
                    [] commands[1].op = "LE_SET_SCAN_ENABLE" /\ ok -> TRUE
                    [] OTHER -> scanning
  BY LineAfterExecutes
<1>3. InOrder /\ at \in 1..8
  BY <1>1, HostTypes DEF HostInv, LineInOrder, Ordered
<1>4. /\ DOMAIN commands' = 1..Len(commands') /\ DOMAIN commands = 1..Len(commands)
      /\ Len(commands) \in Nat
  BY <1>1, LenProperties, HostTypes
<1>5. /\ \A i \in DOMAIN commands' : i + 1 \in DOMAIN commands /\ commands'[i] = commands[i + 1]
      /\ \A i \in DOMAIN commands : i # 1 => i - 1 \in DOMAIN commands' /\ commands'[i - 1] = commands[i]
      /\ 1 \in DOMAIN commands
  BY <1>1, <1>4
<1>6. \A n \in 1..8 : /\ Sent(n).own = TRUE /\ Sent(n).op = Script[n]
                      /\ \A m \in 1..8 : Sent(m) = Sent(n) => m = n
  BY SentIs
<1>7. 1 \in 1..8 /\ 7 \in 1..8 /\ 8 \in 1..8
  OBVIOUS
<1>8. OwnAreSent'
  BY <1>1, <1>3, <1>5 DEF InOrder, OwnAreSent
<1>9. OwnInOrder'
  <2> SUFFICES ASSUME NEW i \in DOMAIN commands', NEW j \in DOMAIN commands',
                      NEW m \in 1..8, NEW n \in 1..8,
                      i < j, commands'[i] = Sent(m), commands'[j] = Sent(n)
               PROVE  m < n
    BY DEF OwnInOrder
  <2>1. /\ i + 1 \in DOMAIN commands /\ j + 1 \in DOMAIN commands /\ i + 1 < j + 1
        /\ commands[i + 1] = Sent(m) /\ commands[j + 1] = Sent(n)
    BY <1>4, <1>5
  <2> QED
    BY <2>1, <1>3 DEF InOrder, OwnInOrder
<1>10. OlderBeforeReset'
  <2> SUFFICES ASSUME NEW i \in DOMAIN commands', ~commands'[i].own
               PROVE  \E r \in DOMAIN commands' : i < r /\ commands'[r] = Sent(1)
    BY DEF OlderBeforeReset
  <2>1. i + 1 \in DOMAIN commands /\ ~commands[i + 1].own /\ i \in Nat /\ i >= 1
    BY <1>4, <1>5
  <2>2. PICK r \in DOMAIN commands : i + 1 < r /\ commands[r] = Sent(1)
    BY <2>1, <1>3 DEF InOrder, OlderBeforeReset
  <2>3. r # 1 /\ i < r - 1
    BY <2>1, <2>2, <1>4
  <2> QED
    BY <2>2, <2>3, <1>5
(* A reset that is queued and not at the head stays queued. *)
<1>11. Queued(1) /\ commands[1].op # "RESET" => Queued(1)'
  <2> SUFFICES ASSUME NEW r \in DOMAIN commands, commands[r] = Sent(1), commands[1].op # "RESET"
               PROVE  Queued(1)'
    BY DEF Queued
  <2>1. r # 1
    BY <1>6, <1>7, ScriptIs
  <2>2. r - 1 \in DOMAIN commands' /\ commands'[r - 1] = Sent(1)
    BY <2>1, <1>5
  <2> QED
    BY <2>2 DEF Queued
<1>12. ScannerIsReset'
  <2>1. CASE commands[1].op = "RESET"
    BY <2>1, <1>2 DEF ScannerIsReset
  <2>2. CASE commands[1].op = "LE_SET_SCAN_ENABLE"
    <3>1. CASE ~commands[1].own
      <4>1. PICK r \in DOMAIN commands : 1 < r /\ commands[r] = Sent(1)
        BY <3>1, <1>3, <1>5 DEF InOrder, OlderBeforeReset
      <4>2. Queued(1)'
        BY <4>1, <2>2, <1>11 DEF Queued
      <4> QED
        BY <4>2 DEF ScannerIsReset
    <3>2. CASE commands[1].own
      (* The present configuration is at its last command. *)
      <4>1. PICK n \in 1..at : commands[1] = Sent(n)
        BY <3>2, <1>3, <1>5 DEF InOrder, OwnAreSent
      <4>2. n \in 1..8
        BY <1>3
      <4>3. Script[n] = Script[8]
        BY <4>1, <4>2, <2>2, <1>6, ScriptIs
      <4>4. n = 8
        BY <4>2, <4>3, <1>7, ScriptIs
      <4>5. at = 8
        BY <4>4, <1>3
      <4>6. ~Queued(7)'
        <5> SUFFICES ASSUME NEW i \in DOMAIN commands', commands'[i] = Sent(7)
                     PROVE  FALSE
          BY DEF Queued
        <5>1. i + 1 \in DOMAIN commands /\ commands[i + 1] = Sent(7) /\ 1 < i + 1
          BY <1>4, <1>5
        <5>2. 8 < 7
          BY <5>1, <4>1, <4>4, <1>3, <1>5, <1>7 DEF InOrder, OwnInOrder
        <5> QED
          BY <5>2
      <4> QED
        BY <4>5, <4>6, <1>1 DEF ScannerIsReset
    <3> QED
      BY <3>1, <3>2
  <2>3. CASE commands[1].op # "RESET" /\ commands[1].op # "LE_SET_SCAN_ENABLE"
    <3>1. scanning' = scanning
      BY <2>3, <1>2
    <3>2. Queued(7)' => Queued(7)
      BY <1>5 DEF Queued
    <3> QED
      BY <3>1, <3>2, <2>3, <1>1, <1>3, <1>11 DEF InOrder, ScannerIsReset
  <2> QED
    BY <2>1, <2>2, <2>3
<1> QED
  BY <1>8, <1>9, <1>10, <1>12 DEF InOrder

LEMMA OrderStep ==
    ASSUME HostInv, Next
    PROVE  LineInOrder'
<1>1. CASE LeaveStandby
  BY <1>1 DEF LeaveStandby, LineInOrder
<1> QED
  BY <1>1, OrderConfigure, StepMoves, OrderMove, OrderExecutes DEF Next

-----------------------------------------------------------------------------
LEMMA HostStutters ==
    ASSUME HostInv, UNCHANGED hostVars
    PROVE  HostInv'
<1>1. /\ backend' = backend /\ at' = at /\ configured' = configured /\ commands' = commands
      /\ events' = events /\ scanning' = scanning /\ flushed' = flushed
  BY DEF hostVars
<1>2. TypeOK'
  BY <1>1, HostTypes, TypeFromParts
<1>3. FlushInv'
  BY <1>1 DEF HostInv, FlushInv, ResetIsLast, ResetFlushes, NoOtherReset, EnabledIsTrue,
              ConfiguredIsIdle, ConfiguredScans
<1>4. LineInOrder'
  BY <1>1 DEF HostInv, LineInOrder, InOrder, OwnAreSent, OwnInOrder, OlderBeforeReset,
              ScannerIsReset, Queued
<1> QED
  BY <1>2, <1>3, <1>4 DEF HostInv

LEMMA HostStep == HostInv /\ [Next]_hostVars => HostInv'
BY TypeStep, FlushStep, OrderStep, HostStutters DEF HostInv

(* The inductive invariant: the types, what the line holds after a reset,   *)
(* and the order of the commands in it.                                     *)
THEOREM HostInvariant == Spec => []HostInv
<1> QED
  BY HostInit, HostStep, PTL DEF Spec

(* Whatever answers are late, the position in the script, the commands and  *)
(* answers under way and their number stay within their types.              *)
THEOREM HostTypeCorrect == Spec => []TypeOK
<1>1. HostInv => TypeOK
  BY DEF HostInv
<1> QED
  BY <1>1, HostInvariant, PTL

(* A reset answered in its own try has flushed the line (ResetFlushes): no  *)
(* late answer of an earlier try can be taken for one of the present.       *)
THEOREM ResetFlushesLine == Spec => []ResetFlushes
<1>1. HostInv => ResetFlushes
  BY DEF HostInv, FlushInv
<1> QED
  BY <1>1, HostInvariant, PTL

(* A configuration that main.c takes for a success has the scanner on       *)
(* (ConfiguredScans), for any number of lost commands and late answers.     *)
THEOREM SuccessScans == Spec => []ConfiguredScans
<1>1. HostInv => ConfiguredScans
  BY DEF HostInv, FlushInv
<1> QED
  BY <1>1, HostInvariant, PTL

(* Scan parameters reach a scanner that is off (ScannerOffWhenConfigured),  *)
(* whatever the PC or an earlier try has left it doing.                     *)
THEOREM ParametersReachIdleScanner == Spec => []ScannerOffWhenConfigured
<1>1. ASSUME HostInv PROVE ScannerOffWhenConfigured
  <2> SUFFICES ASSUME at # 0, backend # "esp32", commands # <<>>, Head(commands) = Sent(7), scanning
               PROVE  FALSE
    BY DEF ScannerOffWhenConfigured
  <2>1. InOrder
    BY <1>1 DEF HostInv, LineInOrder
  <2>2. /\ DOMAIN commands = 1..Len(commands) /\ Len(commands) \in Nat /\ Len(commands) >= 1
        /\ Head(commands) = commands[1]
    BY <1>1, HostTypes, HeadTailProperties, EmptySeq
  <2>3. 1 \in DOMAIN commands /\ commands[1] = Sent(7)
    BY <2>2
  <2>4. PICK r \in DOMAIN commands : commands[r] = Sent(1)
    BY <2>1, <2>3 DEF InOrder, ScannerIsReset, Queued
  <2>5. 1 \in 1..8 /\ 7 \in 1..8 /\ Sent(1) # Sent(7)
    <3>1. 1 \in 1..8 /\ 7 \in 1..8
      OBVIOUS
    <3>2. \A m \in 1..8 : Sent(m) = Sent(7) => m = 7
      BY <3>1, SentIs
    <3> QED
      BY <3>1, <3>2
  <2>6. r # 1 /\ 1 < r
    BY <2>2, <2>3, <2>4, <2>5
  <2>7. 7 < 1
    BY <2>1, <2>3, <2>4, <2>5, <2>6 DEF InOrder, OwnInOrder
  <2> QED
    BY <2>7
<1> QED
  BY <1>1, HostInvariant, PTL
=============================================================================
