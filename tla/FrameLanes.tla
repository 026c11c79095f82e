------------------------------ MODULE FrameLanes ------------------------------
(***************************************************************************)
(* RemoteFrameTransport's two lanes and its flow control, for one direction *)
(* of a connection: the sender's queues and bulk window, the pipe, the      *)
(* receiver's acknowledgements.  A bulk frame is its payload's size; an     *)
(* interactive frame has no size the window counts.  The link does not fail *)
(* here (module Peer has how a connection ends).                            *)
(***************************************************************************)
EXTENDS Naturals, Sequences

CONSTANTS
    MaxFrame,     \* kMaxFramePayloadBytes: all that bounds a frame Send queues
    AckEvery,     \* ack_every_bytes
    Floor, Cap,   \* bulk_window_floor, bulk_window_cap
    Initial,      \* bulk_window_initial
    Pins,         \* the windows SetFixedBulkWindow is called with; 0 unpins
    PipeSize,     \* frames the pipe holds before a write would block
    MaxSends,     \* bound: frames sent
    MaxPins       \* bound: calls of SetFixedBulkWindow

ASSUME SizesAssumption ==
    /\ {MaxFrame, AckEvery, PipeSize} \subseteq Nat \ {0}
    /\ Floor \in Nat \ {0} /\ Cap \in Nat /\ Floor <= Cap
    /\ Initial \in Floor .. Cap
    /\ Pins \subseteq Nat
    /\ MaxSends \in Nat /\ MaxPins \in Nat
    /\ \E w \in Pins \cup {Cap} : \A v \in Pins \cup {Cap} : v <= w

VARIABLES
    interactive,  \* interactive_.frames, as their number
    bulk,         \* bulk_: the payload sizes of its frames
    writing,      \* writing_: the frame being written, if any
    window,       \* bulk_window_
    fixed,        \* fixed_bulk_window_, 0 when adaptive
    sent,         \* bulk_bytes_sent_
    acked,        \* bulk_bytes_acked_
    pipe,         \* frames written and not yet read
    received,     \* the receiver's bulk_bytes_received_
    told,         \* its bulk_bytes_received_acked_
    acks,         \* Ack frames on their way back
    closed,       \* HandleAck refused an ack and closed the connection
    waited,       \* bulk frames written since the interactive queue was empty
    sends, pins   \* how much of each bound is spent

queues == <<interactive, bulk, writing>>
sending == <<window, fixed, sent, acked>>
receiving == <<received, told>>
bounds == <<sends, pins>>
vars == <<queues, sending, pipe, receiving, acks, closed, waited, bounds>>

Sizes == 1 .. MaxFrame
Key == 0            \* an interactive frame, where a bulk one is its size
Frame == Sizes \cup {Key}

TypeOK ==
    /\ interactive \in Nat /\ waited \in Nat
    /\ bulk \in Seq(Sizes)
    /\ writing \in Seq(Frame) /\ Len(writing) <= 1
    /\ window \in Nat /\ fixed \in Pins \cup {0}
    /\ sent \in Nat /\ acked \in Nat
    /\ pipe \in Seq(Frame) /\ Len(pipe) <= PipeSize
    /\ received \in Nat /\ told \in Nat
    /\ acks \in Seq(Nat)
    /\ closed \in BOOLEAN
    /\ sends \in Nat /\ pins \in Nat

Init ==
    /\ interactive = 0 /\ bulk = <<>> /\ writing = <<>>
    /\ window = Initial /\ fixed = 0
    /\ sent = 0 /\ acked = 0
    /\ pipe = <<>> /\ received = 0 /\ told = 0
    /\ acks = <<>> /\ closed = FALSE
    /\ waited = 0 /\ sends = 0 /\ pins = 0

-----------------------------------------------------------------------------
(* Any thread.                                                               *)

SendInteractive ==
    /\ ~closed /\ sends < MaxSends
    /\ sends' = sends + 1
    /\ interactive' = interactive + 1
    /\ UNCHANGED <<bulk, writing, sending, pipe, receiving, acks, closed, waited, pins>>

SendBulk(size) ==
    /\ ~closed /\ sends < MaxSends
    /\ sends' = sends + 1
    /\ bulk' = Append(bulk, size)
    /\ UNCHANGED <<interactive, writing, sending, pipe, receiving, acks, closed, waited, pins>>

\* Unpinning leaves the window where it is until an ack retargets it.
SetFixedBulkWindow(bytes) ==
    /\ pins < MaxPins
    /\ pins' = pins + 1
    /\ fixed' = bytes
    /\ window' = IF bytes = 0 THEN window ELSE bytes
    /\ UNCHANGED <<queues, sent, acked, pipe, receiving, acks, closed, waited, sends>>

-----------------------------------------------------------------------------
(* The sender's I/O thread: FlushWrites, and HandleAck.                      *)

\* Mutant: bulk is sent whatever is unacknowledged.
WindowIgnored == TRUE

WindowOpen == sent - acked < window

\* Mutant: frames are taken without waiting for the one being written.
TakeInteractiveAtOnce ==
    /\ ~closed /\ interactive > 0
    /\ interactive' = interactive - 1
    /\ writing' = Append(writing, Key)
    /\ waited' = 0
    /\ UNCHANGED <<bulk, sending, pipe, receiving, acks, closed, bounds>>

TakeInteractive ==
    /\ ~closed /\ writing = <<>>
    /\ interactive > 0
    /\ interactive' = interactive - 1
    /\ writing' = <<Key>>
    /\ waited' = 0
    /\ UNCHANGED <<bulk, sending, pipe, receiving, acks, closed, bounds>>

\* Mutant: the lanes take turns without a look at the interactive one.
TakeBulkAnyway ==
    /\ ~closed /\ writing = <<>>
    /\ bulk # <<>> /\ WindowOpen
    /\ writing' = <<Head(bulk)>>
    /\ bulk' = Tail(bulk)
    /\ sent' = sent + Head(bulk)
    /\ UNCHANGED <<interactive, window, fixed, acked, pipe, receiving, acks, closed, waited,
                   bounds>>

TakeBulk ==
    /\ ~closed /\ writing = <<>>
    /\ interactive = 0 /\ bulk # <<>> /\ WindowOpen
    /\ writing' = <<Head(bulk)>>
    /\ bulk' = Tail(bulk)
    /\ sent' = sent + Head(bulk)
    /\ UNCHANGED <<interactive, window, fixed, acked, pipe, receiving, acks, closed, waited,
                   bounds>>

\* The last byte of writing_ is written; a full pipe would block.
Written ==
    /\ ~closed /\ writing # <<>> /\ Len(pipe) < PipeSize
    /\ pipe' = Append(pipe, Head(writing))
    /\ writing' = <<>>
    /\ waited' = IF interactive > 0 /\ Head(writing) # Key THEN waited + 1 ELSE waited
    /\ UNCHANGED <<interactive, bulk, sending, receiving, acks, closed, bounds>>

\* What RetargetBulkWindow may come to, by the bandwidth and round trip measured.
Retargets == IF fixed = 0 THEN {window} \cup (Floor .. Cap) ELSE {window}

\* An ack outside the bytes sent, or taken back, closes the connection.
HandleAck ==
    /\ ~closed /\ acks # <<>>
    /\ acks' = Tail(acks)
    /\ IF Head(acks) > sent \/ Head(acks) < acked
       THEN closed' = TRUE /\ UNCHANGED <<acked, window>>
       ELSE acked' = Head(acks) /\ window' \in Retargets /\ UNCHANGED closed
    /\ UNCHANGED <<queues, fixed, sent, pipe, receiving, waited, bounds>>

-----------------------------------------------------------------------------
(* The receiver's ReadAvailable.                                             *)

\* QueueAck: the whole count of bytes received.
QueueAck(count) == acks' = Append(acks, count) /\ told' = count

\* Mutant: interactive bytes are counted with the bulk ones.
ReadAllBytes ==
    /\ ~closed /\ pipe # <<>>
    /\ pipe' = Tail(pipe)
    /\ received' = received + (IF Head(pipe) = Key THEN 1 ELSE Head(pipe))
    /\ IF received' - told >= AckEvery
       THEN QueueAck(received')
       ELSE UNCHANGED <<acks, told>>
    /\ UNCHANGED <<queues, sending, closed, waited, bounds>>

Read ==
    /\ ~closed /\ pipe # <<>>
    /\ pipe' = Tail(pipe)
    /\ received' = received + Head(pipe)
    /\ IF Head(pipe) # Key /\ received' - told >= AckEvery
       THEN QueueAck(received')
       ELSE UNCHANGED <<acks, told>>
    /\ UNCHANGED <<queues, sending, closed, waited, bounds>>

\* Mutant: only a full AckEvery is acknowledged.
NotDrained == FALSE /\ UNCHANGED vars

\* All that was available is read: acknowledge the rest.
Drained ==
    /\ ~closed /\ pipe = <<>>
    /\ received > told
    /\ QueueAck(received)
    /\ UNCHANGED <<queues, sending, pipe, received, closed, waited, bounds>>

-----------------------------------------------------------------------------

SenderIo == TakeInteractive \/ TakeBulk \/ Written \/ HandleAck
ReceiverIo == Read \/ Drained

Next ==
    \/ SendInteractive
    \/ \E size \in Sizes : SendBulk(size)
    \/ \E bytes \in Pins : SetFixedBulkWindow(bytes)
    \/ SenderIo \/ ReceiverIo

Spec == Init /\ [][Next]_vars

\* Both I/O threads always get on.
FairSpec == Spec /\ WF_vars(SenderIo) /\ WF_vars(ReceiverIo)

-----------------------------------------------------------------------------
(* Properties.                                                               *)

\* The window never had a larger value than these.
Widest == CHOOSE w \in Pins \cup {Cap} : \A v \in Pins \cup {Cap} : v <= w

\* However window changes, acks and frames interleave, what is unacknowledged
\* stays below the widest window and one frame: the last one was let out by a
\* window that was open, however far it reaches past it.
WindowHolds == sent - acked < Widest + MaxFrame

\* An honest receiver is never taken for a liar: no ack it sends is outside the
\* bytes sent or takes an earlier one back, so HandleAck never closes.
AcksHonest == ~closed

\* A keystroke waits for at most the one bulk frame already being written.
KeystrokeWaits == waited <= 1

\* Bulk that is queued leaves the queue and arrives: the window opens again,
\* even when what is left to acknowledge is less than AckEvery.
BulkArrives == bulk # <<>> ~> bulk = <<>> /\ received = sent
=============================================================================
