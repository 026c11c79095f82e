--------------------------- MODULE FrameLanesProofs ---------------------------
(***************************************************************************)
(* The flow control of FrameLanes for every chunk size, window and pinned   *)
(* value.                                                                   *)
(***************************************************************************)
EXTENDS FrameLanes, TLAPS

LEMMA WidestIsWidest ==
    /\ Widest \in Nat /\ Cap <= Widest
    /\ \A b \in Pins : b <= Widest
<1>1. PICK w \in Pins \cup {Cap} : \A v \in Pins \cup {Cap} : v <= w
  BY SizesAssumption
<1>2. Widest \in Pins \cup {Cap} /\ \A v \in Pins \cup {Cap} : v <= Widest
  BY <1>1 DEF Widest
<1> QED BY <1>2, SizesAssumption

LEMMA Narrower ==
    ASSUME NEW s \in Nat, NEW a \in Nat, NEW b \in Nat, NEW c \in Nat, a <= b, s - a < c
    PROVE  s - b < c
OBVIOUS

\* The inductive invariant: the counters are what they count, the window is one
\* the code can have, and what is unacknowledged is bounded by it.
Flow ==
    /\ bulk \in Seq(Sizes)
    /\ acks \in Seq(Nat) /\ pipe \in Seq(Frame) /\ writing \in Seq(Frame)
    /\ received \in Nat /\ told \in Nat
    /\ sent \in Nat /\ acked \in Nat /\ acked <= sent
    /\ window \in Nat /\ window <= Widest
    /\ WindowHolds

LEMMA InitFlow == Init => Flow
<1> SUFFICES ASSUME Init PROVE Flow
  OBVIOUS
<1>1. <<>> \in Seq(Sizes) /\ <<>> \in Seq(Nat) /\ <<>> \in Seq(Frame)
  OBVIOUS
<1> QED BY <1>1, WidestIsWidest, SizesAssumption DEF Init, Flow, WindowHolds

LEMMA NextFlow == Flow /\ [Next]_vars => Flow'
<1> SUFFICES ASSUME Flow, [Next]_vars PROVE Flow'
  OBVIOUS
<1> USE DEF Flow, WindowHolds
<1>0. MaxFrame \in Nat /\ Widest \in Nat /\ \A b \in Pins : b \in Nat /\ b <= Widest
  BY WidestIsWidest, SizesAssumption
<1>1. CASE SendInteractive
  BY <1>1 DEF SendInteractive, sending, receiving
<1>2. ASSUME NEW size \in Sizes, SendBulk(size) PROVE Flow'
  BY <1>2 DEF SendBulk, sending, receiving
<1>3. ASSUME NEW bytes \in Pins, SetFixedBulkWindow(bytes) PROVE Flow'
  BY <1>0, <1>3 DEF SetFixedBulkWindow, queues, receiving
<1>4. CASE TakeInteractive
  <2>1. <<Key>> \in Seq(Frame) BY DEF Frame, Key
  <2> QED BY <1>4, <2>1 DEF TakeInteractive, sending, receiving
<1>5. CASE TakeBulk
  <2>1. Head(bulk) \in Sizes /\ Tail(bulk) \in Seq(Sizes)
    BY <1>5 DEF TakeBulk
  <2>2. PICK h \in Nat : h <= MaxFrame /\ sent' = sent + h
    BY <1>5, <2>1, <1>0 DEF TakeBulk, Sizes
  <2>4. sent - acked < window /\ acked' = acked /\ UNCHANGED window
    BY <1>5 DEF TakeBulk, WindowOpen
  <2>5. sent' \in Nat /\ sent' - acked < Widest + MaxFrame /\ acked <= sent'
    BY <1>0, <2>2, <2>4
  <2>3. writing' \in Seq(Frame) BY <1>5, <2>1 DEF TakeBulk, Frame
  <2> QED BY <1>5, <2>1, <2>3, <2>4, <2>5 DEF TakeBulk, receiving
<1>6. CASE Written
  <2>0. <<>> \in Seq(Frame) OBVIOUS
  <2>1. Head(writing) \in Frame BY <1>6 DEF Written
  <2>2. pipe' \in Seq(Frame) /\ writing' \in Seq(Frame)
    BY <1>6, <2>0, <2>1 DEF Written
  <2> QED BY <1>6, <2>2 DEF Written, sending, receiving
<1>7. CASE HandleAck
  <2>1. Head(acks) \in Nat /\ acks' \in Seq(Nat) BY <1>7 DEF HandleAck
  <2>2. Retargets \subseteq Nat /\ \A w \in Retargets : w <= Widest
    BY WidestIsWidest, SizesAssumption DEF Retargets
  <2>3. window' \in Nat /\ window' <= Widest BY <1>7, <2>2 DEF HandleAck
  <2>4. acked' \in Nat /\ acked' <= sent /\ acked <= acked'
    <3>1. PICK h \in Nat : h = Head(acks) BY <2>1
    <3>2. CASE h > sent \/ h < acked BY <1>7, <3>1, <3>2 DEF HandleAck
    <3>3. CASE ~(h > sent \/ h < acked)
      <4>1. acked' = h BY <1>7, <3>1, <3>3 DEF HandleAck
      <4> QED BY <3>3, <4>1
    <3> QED BY <3>2, <3>3
  <2>5. sent' - acked' < Widest + MaxFrame /\ UNCHANGED sent
    <3>1. UNCHANGED sent BY <1>7 DEF HandleAck
    <3>2. Widest + MaxFrame \in Nat BY <1>0
    <3> QED BY <2>4, <3>1, <3>2, Narrower
  <2> QED BY <1>7, <2>1, <2>3, <2>4, <2>5 DEF HandleAck, queues, receiving
<1>8. CASE Read
  <2>1. Head(pipe) \in Frame /\ pipe' \in Seq(Frame) BY <1>8 DEF Read
  <2>4. PICK h \in Nat : h = Head(pipe) BY <2>1 DEF Frame, Sizes, Key
  <2>5. received' = received + h BY <1>8, <2>4 DEF Read
  <2>2. received' \in Nat BY <2>5
  <2>6. UNCHANGED <<acks, told>> \/ (acks' = Append(acks, received') /\ told' = received')
    BY <1>8 DEF Read, QueueAck
  <2>3. acks' \in Seq(Nat) /\ told' \in Nat
    <3>1. PICK n \in Nat : n = received' BY <2>2
    <3>2. Append(acks, n) \in Seq(Nat) OBVIOUS
    <3> QED BY <2>6, <3>1, <3>2
  <2> QED BY <1>8, <2>1, <2>2, <2>3 DEF Read, queues, sending
<1>9. CASE Drained
  BY <1>9 DEF Drained, QueueAck, queues, sending
<1>10. CASE UNCHANGED vars
  BY <1>10 DEF vars, queues, sending, receiving
<1> QED
  BY <1>1, <1>2, <1>3, <1>4, <1>5, <1>6, <1>7, <1>8, <1>9, <1>10
     DEF Next, SenderIo, ReceiverIo

\* RemoteFrameTransport::FlushWrites, HandleAck and SetFixedBulkWindow: whatever
\* the acks say and however the window moves, the bytes unacknowledged stay
\* below the widest window and one chunk.
THEOREM UnacknowledgedBounded == Spec => []WindowHolds
<1>1. Flow => WindowHolds BY DEF Flow
<1> QED BY <1>1, InitFlow, NextFlow, PTL DEF Spec

-----------------------------------------------------------------------------
(* The rest of the state: its type, the keystroke's wait, and what an ack can *)
(* say.  Honest is inductive in the states of Flow.                           *)

\* A keystroke that saw a bulk frame written is the next frame taken.
Waiting == waited # 0 => waited = 1 /\ interactive > 0 /\ writing = <<>>

\* at[i] is the count of bulk bytes before the i-th frame in the pipe: it runs
\* from what is received to what is sent, less the frame being written.
InFlight ==
    \E at \in [1 .. Len(pipe) + 1 -> 0 .. sent] :
        /\ at[1] = received
        /\ \A i \in 1 .. Len(pipe) : at[i + 1] = at[i] + pipe[i]
        /\ at[Len(pipe) + 1] + (IF writing = <<>> THEN 0 ELSE writing[1]) = sent

\* The acks on their way rise from the last one handled to the last one queued.
Rising ==
    /\ told <= received
    /\ acked <= told
    /\ \A i \in 1 .. Len(acks) : acked <= acks[i] /\ acks[i] <= told
    /\ \A i, j \in 1 .. Len(acks) : i <= j => acks[i] <= acks[j]

Honest == TypeOK /\ Waiting /\ InFlight /\ Rising /\ ~closed

LEMMA InitHonest == Init => Honest
<1> SUFFICES ASSUME Init PROVE Honest
  OBVIOUS
<1>1. TypeOK
  <2>1. <<>> \in Seq(Sizes) /\ <<>> \in Seq(Nat) /\ <<>> \in Seq(Frame) /\ Len(<<>>) = 0
    OBVIOUS
  <2>2. Initial \in Nat /\ PipeSize \in Nat BY SizesAssumption
  <2>3. /\ bulk \in Seq(Sizes) /\ writing \in Seq(Frame) /\ Len(writing) <= 1
        /\ pipe \in Seq(Frame) /\ Len(pipe) <= PipeSize /\ acks \in Seq(Nat)
    BY <2>1, <2>2 DEF Init
  <2> QED BY <2>2, <2>3 DEF Init, TypeOK
<1>2. InFlight
  <2> DEFINE at == [i \in 1 .. 1 |-> 0]
  <2>1. /\ Len(pipe) = 0 /\ sent = 0 /\ received = 0 /\ writing = <<>>
        /\ at \in [1 .. 1 -> 0 .. 0] /\ at[1] = 0
    BY DEF Init
  <2> HIDE DEF at
  <2>2. at \in [1 .. Len(pipe) + 1 -> 0 .. sent] BY <2>1
  <2>3. \A i \in 1 .. Len(pipe) : at[i + 1] = at[i] + pipe[i] BY <2>1
  <2>4. at[Len(pipe) + 1] + (IF writing = <<>> THEN 0 ELSE writing[1]) = sent BY <2>1
  <2> QED BY <2>1, <2>2, <2>3, <2>4 DEF InFlight
<1>3. Waiting /\ Rising /\ ~closed
  BY DEF Init, Waiting, Rising
<1> QED BY <1>1, <1>2, <1>3 DEF Honest

LEMMA NextType == TypeOK /\ [Next]_vars => TypeOK'
<1> SUFFICES ASSUME TypeOK, [Next]_vars PROVE TypeOK'
  OBVIOUS
<1> USE DEF TypeOK
<1>0. /\ MaxFrame \in Nat /\ PipeSize \in Nat /\ \A b \in Pins : b \in Nat
      /\ Frame \subseteq Nat /\ Sizes \subseteq Frame /\ Key \in Frame
  BY SizesAssumption DEF Frame, Sizes, Key
<1>1. CASE SendInteractive
  BY <1>1 DEF SendInteractive, sending, receiving
<1>2. ASSUME NEW size \in Sizes, SendBulk(size) PROVE TypeOK'
  BY <1>2 DEF SendBulk, sending, receiving
<1>3. ASSUME NEW bytes \in Pins, SetFixedBulkWindow(bytes) PROVE TypeOK'
  BY <1>0, <1>3 DEF SetFixedBulkWindow, queues, receiving
<1>4. CASE TakeInteractive
  <2>1. <<Key>> \in Seq(Frame) /\ Len(<<Key>>) = 1 BY <1>0
  <2>2. interactive - 1 \in Nat BY <1>4 DEF TakeInteractive
  <2> QED BY <1>4, <2>1, <2>2 DEF TakeInteractive, sending, receiving, bounds
<1>5. CASE TakeBulk
  <2>1. Head(bulk) \in Sizes /\ Tail(bulk) \in Seq(Sizes)
    BY <1>5 DEF TakeBulk
  <2>2. PICK h \in Frame : h = Head(bulk) BY <1>0, <2>1
  <2>3. sent' \in Nat /\ bulk' \in Seq(Sizes) BY <1>0, <1>5, <2>1, <2>2 DEF TakeBulk
  <2>4. writing' \in Seq(Frame) /\ Len(writing') = 1 BY <1>5, <2>2 DEF TakeBulk
  <2> QED BY <1>5, <2>3, <2>4 DEF TakeBulk, receiving, bounds
<1>6. CASE Written
  <2>0. <<>> \in Seq(Frame) /\ Len(<<>>) = 0 OBVIOUS
  <2>1. PICK h \in Frame : h = Head(writing) BY <1>6 DEF Written
  <2>2. pipe' = Append(pipe, h) /\ writing' = <<>> /\ Len(pipe) < PipeSize
    BY <1>6, <2>1 DEF Written
  <2>3. pipe' \in Seq(Frame) /\ Len(pipe') = Len(pipe) + 1 /\ Len(pipe) \in Nat
    BY <2>2
  <2>4. waited' \in Nat BY <1>6 DEF Written
  <2> QED BY <1>0, <1>6, <2>0, <2>2, <2>3, <2>4 DEF Written, sending, receiving, bounds
<1>7. CASE HandleAck
  <2>1. Head(acks) \in Nat /\ acks' \in Seq(Nat) BY <1>7 DEF HandleAck
  <2>2. Retargets \subseteq Nat BY SizesAssumption DEF Retargets
  <2>3. window' \in Nat /\ acked' \in Nat /\ closed' \in BOOLEAN
    BY <1>7, <2>1, <2>2 DEF HandleAck
  <2> QED BY <1>7, <2>1, <2>3 DEF HandleAck, queues, receiving, bounds
<1>8. CASE Read
  <2>1. PICK h \in Frame : h = Head(pipe) BY <1>8 DEF Read
  <2>2. pipe' \in Seq(Frame) /\ Len(pipe') <= PipeSize BY <1>0, <1>8 DEF Read
  <2>3. PICK n \in Nat : n = received' BY <1>0, <1>8, <2>1 DEF Read
  <2>4. UNCHANGED <<acks, told>> \/ (acks' = Append(acks, n) /\ told' = n)
    BY <1>8, <2>3 DEF Read, QueueAck
  <2>6. Append(acks, n) \in Seq(Nat) OBVIOUS
  <2>5. acks' \in Seq(Nat) /\ told' \in Nat BY <2>4, <2>6
  <2> QED BY <1>8, <2>2, <2>3, <2>5 DEF Read, queues, sending, bounds
<1>9. CASE Drained
  BY <1>9 DEF Drained, QueueAck, queues, sending, bounds
<1>10. CASE UNCHANGED vars
  BY <1>10 DEF vars, queues, sending, receiving, bounds
<1> QED
  BY <1>1, <1>2, <1>3, <1>4, <1>5, <1>6, <1>7, <1>8, <1>9, <1>10
     DEF Next, SenderIo, ReceiverIo

LEMMA NextWaiting == TypeOK /\ Waiting /\ [Next]_vars => Waiting'
<1> SUFFICES ASSUME TypeOK, Waiting, [Next]_vars PROVE Waiting'
  OBVIOUS
<1> USE DEF TypeOK, Waiting
<1>1. CASE SendInteractive
  BY <1>1 DEF SendInteractive
<1>2. CASE TakeInteractive
  BY <1>2 DEF TakeInteractive
<1>3. CASE TakeBulk
  BY <1>3 DEF TakeBulk
<1>4. CASE Written
  <2>1. waited = 0 BY <1>4 DEF Written
  <2> QED BY <1>4, <2>1 DEF Written
<1>5. ASSUME UNCHANGED <<queues, waited>> PROVE Waiting'
  BY <1>5 DEF queues
<1>6. ASSUME NEW size \in Sizes, SendBulk(size) PROVE Waiting'
  BY <1>6 DEF SendBulk
<1>7. (\E bytes \in Pins : SetFixedBulkWindow(bytes)) \/ HandleAck \/ ReceiverIo
      \/ UNCHANGED vars => UNCHANGED <<queues, waited>>
  BY DEF SetFixedBulkWindow, HandleAck, ReceiverIo, Read, Drained, vars
<1> QED
  BY <1>1, <1>2, <1>3, <1>4, <1>5, <1>6, <1>7 DEF Next, SenderIo

\* What the pipe holds stays what lies between the two counts.
LEMMA NextInFlight == TypeOK /\ InFlight /\ [Next]_vars => InFlight'
<1> SUFFICES ASSUME TypeOK, InFlight, [Next]_vars PROVE InFlight'
  OBVIOUS
<1>0. /\ Frame \subseteq Nat /\ Sizes \subseteq Frame /\ Key = 0
      /\ sent \in Nat /\ Len(pipe) \in Nat /\ pipe \in Seq(Frame)
  BY SizesAssumption DEF Frame, Sizes, Key, TypeOK
<1>1. PICK at \in [1 .. Len(pipe) + 1 -> 0 .. sent] :
        /\ at[1] = received
        /\ \A i \in 1 .. Len(pipe) : at[i + 1] = at[i] + pipe[i]
        /\ at[Len(pipe) + 1] + (IF writing = <<>> THEN 0 ELSE writing[1]) = sent
  BY DEF InFlight
<1>2. CASE TakeInteractive
  <2>1. UNCHANGED <<pipe, received, sent>> /\ writing = <<>> /\ writing' = <<0>>
    BY <1>0, <1>2 DEF TakeInteractive, sending, receiving
  <2>2. writing' # <<>> /\ writing'[1] = 0 BY <2>1
  <2> QED BY <1>0, <1>1, <2>1, <2>2 DEF InFlight
<1>3. CASE TakeBulk
  <2>0. Head(bulk) \in Sizes BY <1>3 DEF TakeBulk, TypeOK
  <2>1. PICK h \in Nat : h = Head(bulk) BY <1>0, <2>0
  <2>2. /\ UNCHANGED <<pipe, received>> /\ writing = <<>> /\ writing' = <<h>>
        /\ sent' = sent + h
    BY <1>3, <2>1 DEF TakeBulk, receiving
  <2>3. writing' # <<>> /\ writing'[1] = h BY <2>2
  <2>4. at \in [1 .. Len(pipe) + 1 -> 0 .. sent'] BY <1>0, <1>1, <2>2
  <2>5. at[Len(pipe) + 1] = sent BY <1>0, <1>1, <2>2
  <2> QED BY <1>1, <2>2, <2>3, <2>4, <2>5 DEF InFlight
<1>4. CASE Written
  <2>0. Head(writing) \in Frame BY <1>4 DEF Written, TypeOK
  <2>1. PICK h \in Nat : h = Head(writing) /\ h \in Frame BY <1>0, <2>0
  <2>2. /\ UNCHANGED <<received, sent>> /\ writing # <<>> /\ writing' = <<>>
        /\ pipe' = Append(pipe, h) /\ h = writing[1]
    BY <1>4, <2>1 DEF Written, sending, receiving, TypeOK
  <2> DEFINE L == Len(pipe)
             up == [i \in 1 .. L + 2 |-> IF i = L + 2 THEN sent ELSE at[i]]
  <2>3. /\ L \in Nat /\ Len(pipe') = L + 1 /\ pipe'[L + 1] = h
        /\ \A i \in 1 .. L : pipe'[i] = pipe[i]
    BY <1>0, <2>1, <2>2
  <2>4. up \in [1 .. Len(pipe') + 1 -> 0 .. sent] BY <1>0, <1>1, <2>3
  <2>5. up[1] = received' BY <1>0, <1>1, <2>2, <2>3
  <2>6. ASSUME NEW i \in 1 .. L + 1 PROVE up[i + 1] = up[i] + pipe'[i]
    <3>1. CASE i = L + 1 BY <3>1, <1>0, <1>1, <2>1, <2>2, <2>3
    <3>2. CASE i # L + 1
      <4>1. i \in 1 .. L /\ i + 1 # L + 2 /\ i # L + 2 BY <3>2, <2>3
      <4> QED BY <4>1, <1>1, <2>3
    <3> QED BY <3>1, <3>2
  <2>7. up[Len(pipe') + 1] = sent BY <2>3
  <2> HIDE DEF up, L
  <2>8. writing' = <<>> /\ sent' = sent /\ up[Len(pipe') + 1] + 0 = sent
    BY <1>0, <2>2, <2>7
  <2> QED BY <2>3, <2>4, <2>5, <2>6, <2>8 DEF InFlight
<1>5. CASE Read
  <2>0. Head(pipe) \in Frame BY <1>5 DEF Read, TypeOK
  <2>1. PICK h \in Nat : h = Head(pipe) BY <1>0, <2>0
  <2>2. /\ UNCHANGED <<writing, sent>> /\ pipe # <<>> /\ pipe' = Tail(pipe)
        /\ received' = received + h
    BY <1>5, <2>1 DEF Read, sending, queues
  <2> DEFINE L == Len(pipe)
             down == [i \in 1 .. L |-> at[i + 1]]
  <2>3. /\ L \in Nat /\ L >= 1 /\ Len(pipe') = L - 1 /\ h = pipe[1]
        /\ \A i \in 1 .. L - 1 : pipe'[i] = pipe[i + 1]
    BY <1>0, <2>1, <2>2
  <2>4. down \in [1 .. Len(pipe') + 1 -> 0 .. sent] BY <1>1, <2>3
  <2>5. down[1] = received' BY <1>1, <2>2, <2>3
  <2>6. \A i \in 1 .. Len(pipe') : down[i + 1] = down[i] + pipe'[i]
    BY <1>1, <2>3
  <2>7. down[Len(pipe') + 1] = at[L + 1] BY <2>3
  <2> HIDE DEF down, L
  <2> QED BY <1>1, <2>2, <2>3, <2>4, <2>5, <2>6, <2>7 DEF InFlight, L
<1>6. ASSUME UNCHANGED <<pipe, received, sent, writing>> PROVE InFlight'
  BY <1>6, <1>1 DEF InFlight
<1>7. (\E size \in Sizes : SendBulk(size)) \/ SendInteractive
      \/ (\E bytes \in Pins : SetFixedBulkWindow(bytes)) \/ HandleAck \/ Drained
      \/ UNCHANGED vars => UNCHANGED <<pipe, received, sent, writing>>
  BY DEF SendBulk, SendInteractive, SetFixedBulkWindow, HandleAck, Drained, vars,
         queues, sending, receiving
<1> QED
  BY <1>2, <1>3, <1>4, <1>5, <1>6, <1>7 DEF Next, SenderIo, ReceiverIo

\* Everything received was sent.
LEMMA ReceivedWasSent ==
  ASSUME TypeOK, InFlight
  PROVE  received <= sent
<1>1. PICK at \in [1 .. Len(pipe) + 1 -> 0 .. sent] : at[1] = received
  BY DEF InFlight
<1>2. Len(pipe) \in Nat BY DEF TypeOK
<1> QED BY <1>1, <1>2 DEF TypeOK

\* A new ack is no smaller than those before it.
LEMMA AckRises ==
  ASSUME TypeOK, Rising, received' \in Nat, received <= received', UNCHANGED acked,
         UNCHANGED <<acks, told>> \/ (acks' = Append(acks, received') /\ told' = received')
  PROVE  Rising'
<1>1. CASE UNCHANGED <<acks, told>>
  BY <1>1 DEF TypeOK, Rising
<1>2. CASE acks' = Append(acks, received') /\ told' = received'
  <2>1. PICK n \in Nat : n = received' OBVIOUS
  <2> DEFINE L == Len(acks)
  <2>2. /\ L \in Nat /\ Len(acks') = L + 1 /\ acks'[L + 1] = n
        /\ \A i \in 1 .. L : acks'[i] = acks[i] /\ acks[i] \in Nat
    BY <1>2, <2>1 DEF TypeOK
  <2>3. /\ acked' = acked /\ acked \in Nat /\ told \in Nat /\ received \in Nat
        /\ told' = n /\ acked <= told /\ told <= n
    BY <1>2, <2>1 DEF TypeOK, Rising
  <2>4. \A i \in 1 .. L : acked <= acks[i] /\ acks[i] <= told
    BY DEF Rising
  <2>5. \A i, j \in 1 .. L : i <= j => acks[i] <= acks[j]
    BY DEF Rising
  <2> HIDE DEF L
  <2>6. \A i \in 1 .. L + 1 : acked <= acks'[i] /\ acks'[i] <= n
    <3> SUFFICES ASSUME NEW i \in 1 .. L + 1 PROVE acked <= acks'[i] /\ acks'[i] <= n
      OBVIOUS
    <3>1. CASE i = L + 1 BY <3>1, <2>2, <2>3
    <3>2. CASE i \in 1 .. L BY <3>2, <2>2, <2>3, <2>4
    <3> QED BY <3>1, <3>2, <2>2
  <2>7. ASSUME NEW i \in 1 .. L + 1, NEW j \in 1 .. L + 1, i <= j
        PROVE  acks'[i] <= acks'[j]
    <3>1. CASE j = L + 1 BY <3>1, <2>2, <2>6
    <3>2. CASE j # L + 1
      <4>1. i \in 1 .. L /\ j \in 1 .. L BY <3>2, <2>2, <2>7
      <4> QED BY <4>1, <2>2, <2>5, <2>7
    <3> QED BY <3>1, <3>2
  <2> QED BY <2>1, <2>2, <2>3, <2>6, <2>7 DEF Rising
<1> QED BY <1>1, <1>2

LEMMA NextRising ==
    TypeOK /\ InFlight /\ Rising /\ ~closed /\ [Next]_vars => Rising' /\ ~closed'
<1> SUFFICES ASSUME TypeOK, InFlight, Rising, ~closed, [Next]_vars
             PROVE  Rising' /\ ~closed'
  OBVIOUS
<1>1. CASE HandleAck
  <2> DEFINE L == Len(acks)
  <2>1. /\ acks # <<>> /\ acks' = Tail(acks) /\ UNCHANGED <<told, received>>
    BY <1>1 DEF HandleAck, receiving
  <2>2. /\ L \in Nat /\ L >= 1 /\ Len(acks') = L - 1
        /\ \A i \in 1 .. L - 1 : acks'[i] = acks[i + 1]
        /\ Head(acks) = acks[1] /\ acks[1] \in Nat
    BY <2>1 DEF TypeOK
  <2>3. PICK h \in Nat : h = Head(acks) /\ acked <= h /\ h <= told /\ h <= sent
    BY <2>2, ReceivedWasSent DEF TypeOK, Rising
  <2>4. acked' = h /\ UNCHANGED closed
    <3>1. ~(h > sent \/ h < acked) BY <2>3 DEF TypeOK
    <3> QED BY <1>1, <2>3, <3>1 DEF HandleAck
  <2>5. /\ \A i \in 1 .. L : acks[1] <= acks[i] /\ acks[i] <= told
        /\ \A i, j \in 1 .. L : i <= j => acks[i] <= acks[j]
    BY <2>2 DEF Rising
  <2> HIDE DEF L
  <2>6. \A i \in 1 .. L - 1 : h <= acks'[i] /\ acks'[i] <= told
    BY <2>2, <2>3, <2>5
  <2>7. ASSUME NEW i \in 1 .. L - 1, NEW j \in 1 .. L - 1, i <= j
        PROVE  acks'[i] <= acks'[j]
    <3>1. i + 1 \in 1 .. L /\ j + 1 \in 1 .. L /\ i + 1 <= j + 1 BY <2>2, <2>7
    <3> QED BY <3>1, <2>2, <2>5
  <2>8. told <= received BY DEF Rising
  <2> QED BY <2>1, <2>2, <2>3, <2>4, <2>6, <2>7, <2>8 DEF Rising
<1>2. CASE Read
  <2>1. PICK h \in Nat : h = Head(pipe)
    BY <1>2, SizesAssumption DEF Read, TypeOK, Frame, Sizes, Key
  <2>2. received' = received + h BY <1>2, <2>1 DEF Read
  <2>3. received' \in Nat /\ received <= received' BY <2>2 DEF TypeOK
  <2>4. /\ UNCHANGED <<acked, closed>>
        /\ UNCHANGED <<acks, told>> \/ (acks' = Append(acks, received') /\ told' = received')
    BY <1>2 DEF Read, QueueAck, sending
  <2> QED BY <2>3, <2>4, AckRises
<1>3. CASE Drained
  <2>1. /\ UNCHANGED <<received, acked, closed>>
        /\ acks' = Append(acks, received') /\ told' = received'
    BY <1>3 DEF Drained, QueueAck, sending
  <2>2. received' \in Nat /\ received <= received' BY <2>1 DEF TypeOK
  <2> QED BY <2>1, <2>2, AckRises
<1>4. ASSUME UNCHANGED <<received, told, acked, acks, closed>>
      PROVE  Rising' /\ ~closed'
  BY <1>4 DEF Rising
<1>5. (\E size \in Sizes : SendBulk(size)) \/ SendInteractive
      \/ (\E bytes \in Pins : SetFixedBulkWindow(bytes)) \/ TakeInteractive \/ TakeBulk
      \/ Written \/ UNCHANGED vars => UNCHANGED <<received, told, acked, acks, closed>>
  BY DEF SendBulk, SendInteractive, SetFixedBulkWindow, TakeInteractive, TakeBulk,
         Written, vars, sending, receiving
<1> QED
  BY <1>1, <1>2, <1>3, <1>4, <1>5 DEF Next, SenderIo, ReceiverIo

LEMMA AlwaysHonest == Spec => []Honest
<1>1. Honest /\ [Next]_vars => Honest'
  BY NextType, NextWaiting, NextInFlight, NextRising DEF Honest
<1> QED BY <1>1, InitHonest, PTL DEF Spec

\* The lanes, the counters and the acks keep their types; the pipe never holds
\* more than it has room for, and one frame at most is being written.
THEOREM LanesTypeCorrect == Spec => []TypeOK
<1>1. Honest => TypeOK BY DEF Honest
<1> QED BY <1>1, AlwaysHonest, PTL

\* HandleAck never closes the connection of an honest receiver: for every chunk
\* size and ack interval, no ack that ReadAvailable queues is beyond the bytes
\* sent or below one handled before, whatever frames are still in the pipe.
THEOREM HonestNeverClosed == Spec => []AcksHonest
<1>1. Honest => AcksHonest BY DEF Honest, AcksHonest
<1> QED BY <1>1, AlwaysHonest, PTL

\* FlushWrites lets at most one bulk frame, the one being written, go before a
\* keystroke, whatever the window and however full the bulk lane.
THEOREM KeystrokeNext == Spec => []KeystrokeWaits
<1>1. Honest => KeystrokeWaits BY DEF Honest, Waiting, KeystrokeWaits
<1> QED BY <1>1, AlwaysHonest, PTL
=============================================================================
