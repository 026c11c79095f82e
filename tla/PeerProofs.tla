----------------------------- MODULE PeerProofs -----------------------------
(***************************************************************************)
(* Peer, for every set of requests and every bound: each request comes to   *)
(* at most one outcome, none is left behind by a close, a cancel mark       *)
(* never outlives its request, and the peer implements the safety part of   *)
(* RequestContract.                                                         *)
(***************************************************************************)
EXTENDS Peer, SequenceTheorems, TLAPS

\* What is known of a request before it is made and while SendRequest runs.
Steps == {"idle", "registered", "queued", "unsent", "sent", "back", "cancelling"}
Progress(r) ==
    /\ asker[r] = "idle" => r \notin pending /\ r \notin taken /\ ran[r] = 0
    /\ asker[r] \notin {"back", "cancelling"} => returned[r] = "nothing"
    /\ asker[r] = "cancelling" => returned[r] = "id"

\* The inductive invariant: OneOutcome, NoneLeftBehind and what they rest on.
Sound ==
    /\ asker \in [Requests -> Steps]
    /\ returned \in [Requests -> {"nothing", "id", "zero"}]
    /\ ran \in [Requests -> Nat]
    /\ pending \subseteq Requests /\ taken \subseteq Requests
    /\ \A r \in Requests : Progress(r)
    /\ OneOutcome
    /\ NoneLeftBehind
    /\ CancelledInFlight

LEMMA InitSound == Init => Sound
BY DEF Init, Sound, Steps, Progress, OneOutcome, InOnePlace, Refused, NoneLeftBehind,
       CancelledInFlight

\* The steps of a request's own thread.
LEMMA AskingSound ==
    ASSUME Sound, NEW r \in Requests, Register(r) \/ Cancel(r) \/ Asking(r)
    PROVE  Sound'
<1> USE DEF Sound, Steps, Progress, OneOutcome, InOnePlace, Refused, NoneLeftBehind,
            CancelledInFlight, ends, net, serving, client, At, Returns
<1>1. CASE Register(r) BY <1>1 DEF Register
<1>2. CASE Cancel(r) BY <1>2 DEF Cancel
<1>3. CASE SendClosed(r) BY <1>3 DEF SendClosed
<1>4. CASE \E l \in Lanes : Send(r, l) BY <1>4 DEF Send
<1>5. CASE CheckSent(r) BY <1>5 DEF CheckSent
<1>6. CASE Unsent(r) BY <1>6 DEF Unsent
<1>7. CASE Sent(r) BY <1>7 DEF Sent
<1>8. CASE SendCancel(r) BY <1>8 DEF SendCancel
<1>9. CASE RunHandler(r) BY <1>9 DEF RunHandler
<1> QED BY <1>1, <1>2, <1>3, <1>4, <1>5, <1>6, <1>7, <1>8, <1>9 DEF Asking

\* A close moves what is pending to the handlers that are called.
LEMMA ClosedSound ==
    ASSUME Sound, UNCHANGED <<inFlight, cancelled>>, HandleClosed \/ UNCHANGED client
    PROVE  Sound'
<1> USE DEF Sound, Steps, Progress, OneOutcome, InOnePlace, Refused, NoneLeftBehind,
            CancelledInFlight
<1>1. CASE HandleClosed BY <1>1 DEF HandleClosed
<1>2. CASE UNCHANGED client BY <1>2 DEF client
<1> QED BY <1>1, <1>2

LEMMA ReceiveSound == ASSUME Sound, NEW r \in Requests, Receive(r) PROVE Sound'
BY DEF Receive, Sound, Steps, Progress, OneOutcome, InOnePlace, Refused, NoneLeftBehind,
       CancelledInFlight, serving

\* The serving side touches only its own marks.
LEMMA ServingSound ==
    ASSUME Sound, UNCHANGED client, (cancelled \subseteq inFlight)' PROVE Sound'
BY DEF client, Sound, Steps, Progress, OneOutcome, InOnePlace, Refused, NoneLeftBehind,
       CancelledInFlight

LEMMA NextSound == Sound /\ [Next]_vars => Sound'
<1> SUFFICES ASSUME Sound, [Next]_vars PROVE Sound'
  OBVIOUS
<1>1. ASSUME NEW r \in Requests, Register(r) \/ Cancel(r) \/ Asking(r) PROVE Sound'
  BY <1>1, AskingSound
<1>2. ASSUME NEW r \in Requests, Reply(r) PROVE Sound'
  BY <1>2, ServingSound DEF Reply, Sound, CancelledInFlight
<1>3. CASE Server
  <2>1. CASE ServerRead BY <2>1, ServingSound DEF ServerRead, Sound, CancelledInFlight
  <2>2. CASE Dispatch BY <2>2, ServingSound DEF Dispatch, Sound, CancelledInFlight
  <2>3. CASE DispatchFull BY <2>3, ServingSound DEF DispatchFull, Sound, CancelledInFlight
  <2>4. CASE OpCancel BY <2>4, ServingSound DEF OpCancel, Sound, CancelledInFlight
  <2> QED BY <1>3, <2>1, <2>2, <2>3, <2>4 DEF Server
<1>4. CASE Closers
  BY <1>4, ClosedSound DEF Closers, FailClosed, FailStop, StopJoined, StopClosed, OnClosed,
                           serving
<1>5. CASE Io
  <2>1. CASE IoClose \/ IoClosed \/ IoStop
    BY <2>1, ClosedSound DEF IoClose, IoClosed, IoStop, OnClosed, serving
  <2>2. CASE \E l \in {"interactive", "bulk"} : Write(l)
    BY <2>2, ClosedSound DEF Write, serving
  <2>3. CASE \E r \in Requests : Receive(r) BY <2>3, ReceiveSound
  <2> QED BY <1>5, <2>1, <2>2, <2>3 DEF Io
<1>6. CASE Fail \/ Stop \/ LinkLost
  BY <1>6, ClosedSound DEF Fail, Stop, LinkLost, serving
<1>7. CASE UNCHANGED vars BY <1>7, ClosedSound DEF vars, client
<1> QED BY <1>1, <1>2, <1>3, <1>4, <1>5, <1>6, <1>7 DEF Next

\* RemotePeer: however a response, a close, an overflow and a Stop race the
\* caller in SendRequest, its request has one outcome.
THEOREM RequestsAnsweredOnce == Spec => []OneOutcome
<1>1. Sound => OneOutcome BY DEF Sound
<1> QED BY <1>1, InitSound, NextSound, PTL DEF Spec

\* RemotePeer::HandleClosed: after a close no request is pending, ever.
THEOREM CloseLeavesNone == Spec => []NoneLeftBehind
<1>1. Sound => NoneLeftBehind BY DEF Sound
<1> QED BY <1>1, InitSound, NextSound, PTL DEF Spec

\* RemotePeer::HandleFrame, Reply: a cancel mark belongs to a request in flight.
THEOREM MarksDoNotLeak == Spec => []CancelledInFlight
<1>1. Sound => CancelledInFlight BY DEF Sound
<1> QED BY <1>1, InitSound, NextSound, PTL DEF Spec

-----------------------------------------------------------------------------
(* Types, and where a cancel is.                                             *)

\* A frame that is sent goes to the tail of one lane, or nowhere.
LEMMA PushType ==
    ASSUME TypeOK, NEW lane \in {"interactive", "bulk"}, NEW f \in Frames, Push(lane, f)
    PROVE  queue' \in [{"interactive", "bulk"} -> Seq(Frames)] /\ overflowed' \in BOOLEAN
<1>1. Append(queue[lane], f) \in Seq(Frames) BY DEF TypeOK
<1> QED BY <1>1 DEF TypeOK, Push

\* TypeOK by the parts of the state that actions leave alone together.
ClientType ==
    /\ asker \in [Requests -> Steps]
    /\ returned \in [Requests -> {"nothing", "id", "zero"}]
    /\ pending \subseteq Requests /\ taken \subseteq Requests
    /\ ran \in [Requests -> Nat]
    /\ peerClosed \in BOOLEAN
    /\ asked \subseteq Requests /\ overtaken \subseteq asked
EndsType ==
    /\ closed \in BOOLEAN /\ reported \in BOOLEAN /\ stop \in BOOLEAN
    /\ io \in {"run", "closing", "gone"}
    /\ failer \in {"idle", "closing", "stopping", "done"}
    /\ stopper \in {"idle", "joining", "closing", "done"}
NetType ==
    /\ overflowed \in BOOLEAN /\ up \in BOOLEAN
    /\ queue \in [{"interactive", "bulk"} -> Seq(Frames)]
    /\ wire \in Seq(Frames) /\ answers \subseteq Requests
ServingType ==
    /\ hand \in Seq(Frames) /\ Len(hand) <= 1
    /\ locked \in BOOLEAN
    /\ inFlight \subseteq Requests /\ cancelled \subseteq Requests

LEMMA TypeParts ==
    /\ TypeOK => ClientType /\ EndsType /\ NetType /\ ServingType
    /\ ClientType' /\ EndsType' /\ NetType' /\ ServingType' => TypeOK'
BY DEF TypeOK, ClientType, EndsType, NetType, ServingType, Steps

LEMMA PartsKeep ==
    /\ ClientType /\ UNCHANGED client => ClientType'
    /\ EndsType /\ UNCHANGED ends => EndsType'
    /\ NetType /\ UNCHANGED net => NetType'
    /\ ServingType /\ UNCHANGED serving => ServingType'
<1>1. ClientType /\ UNCHANGED client => ClientType' BY DEF ClientType, client
<1>2. EndsType /\ UNCHANGED ends => EndsType' BY DEF EndsType, ends
<1>3. NetType /\ UNCHANGED net => NetType' BY DEF NetType, net
<1>4. ServingType /\ UNCHANGED serving => ServingType' BY DEF ServingType, serving
<1> QED BY <1>1, <1>2, <1>3, <1>4

\* SendRequest, Cancel and a handler's call.
LEMMA AskingType ==
    ASSUME TypeOK, NEW r \in Requests, Register(r) \/ Cancel(r) \/ Asking(r)
    PROVE  TypeOK'
<1>0. ClientType /\ EndsType /\ NetType /\ ServingType BY TypeParts
<1>1. ClientType'
  <2> USE <1>0 DEF ClientType, Steps, At, Returns
  <2>1. CASE Register(r) BY <2>1 DEF Register
  <2>2. CASE Cancel(r) BY <2>2 DEF Cancel
  <2>3. CASE SendClosed(r) \/ CheckSent(r) \/ \E l \in Lanes : Send(r, l)
    BY <2>3 DEF SendClosed, CheckSent, Send
  <2>4. CASE Unsent(r) \/ Sent(r) BY <2>4 DEF Unsent, Sent
  <2>5. CASE SendCancel(r) BY <2>5 DEF SendCancel
  <2>6. CASE RunHandler(r) BY <2>6 DEF RunHandler
  <2> QED BY <2>1, <2>2, <2>3, <2>4, <2>5, <2>6 DEF Asking
<1>2. EndsType' /\ ServingType'
  <2>1. UNCHANGED ends /\ UNCHANGED serving
    BY DEF Register, Cancel, Asking, SendClosed, CheckSent, Send, Unsent, Sent,
           SendCancel, RunHandler
  <2> QED BY <1>0, <2>1, PartsKeep
<1>3. NetType'
  <2>1. CASE \E l \in Lanes : Send(r, l)
    <3>1. PICK l \in {"interactive", "bulk"} : Send(r, l) BY <2>1, LanesAssumption
    <3>2. [kind |-> "request", id |-> r] \in Frames BY DEF Frames
    <3>3. queue' \in [{"interactive", "bulk"} -> Seq(Frames)] /\ overflowed' \in BOOLEAN
      BY <3>1, <3>2, PushType DEF Send
    <3> QED BY <1>0, <3>1, <3>3 DEF Send, NetType
  <2>2. CASE SendCancel(r)
    <3>1. [kind |-> "cancel", id |-> r] \in Frames BY DEF Frames
    <3>2. queue' \in [{"interactive", "bulk"} -> Seq(Frames)] /\ overflowed' \in BOOLEAN
      BY <1>0, <2>2, <3>1, PushType DEF SendCancel, NetType
    <3> QED BY <1>0, <2>2, <3>2 DEF SendCancel, NetType
  <2>3. ASSUME UNCHANGED net PROVE NetType' BY <1>0, <2>3, PartsKeep
  <2>4. \/ SendCancel(r) \/ (\E l \in Lanes : Send(r, l)) \/ UNCHANGED net
    BY DEF Register, Cancel, Asking, SendClosed, CheckSent, Unsent, Sent, RunHandler
  <2> QED BY <2>1, <2>2, <2>3, <2>4
<1> QED BY <1>1, <1>2, <1>3, TypeParts

\* The serving side.
LEMMA ServerType == ASSUME TypeOK, Server PROVE TypeOK'
<1>0. ClientType /\ EndsType /\ NetType /\ ServingType BY TypeParts
<1>1. ClientType' /\ EndsType'
  BY <1>0, PartsKeep DEF Server, ServerRead, Dispatch, DispatchFull, OpCancel
<1>2. CASE ServerRead
  <2>1. Head(wire) \in Frames /\ Tail(wire) \in Seq(Frames)
    BY <1>0, <1>2 DEF ServerRead, NetType
  <2>2. hand' \in Seq(Frames) /\ Len(hand') = 1 BY <1>2, <2>1 DEF ServerRead
  <2>3. NetType' BY <1>0, <1>2, <2>1 DEF ServerRead, NetType
  <2>4. ServingType' BY <1>0, <1>2, <2>2 DEF ServerRead, ServingType
  <2> QED BY <1>1, <2>3, <2>4, TypeParts
<1>3. CASE Dispatch \/ DispatchFull \/ OpCancel
  <2>1. hand[1] \in Frames
    BY <1>0, <1>3 DEF Dispatch, DispatchFull, OpCancel, Handling, ServingType
  <2>2. hand[1].id \in Requests BY <2>1 DEF Frames
  <2>3. <<>> \in Seq(Frames) /\ Len(<<>>) = 0 OBVIOUS
  <2>4. ServingType'
    <3>1. inFlight' \subseteq Requests /\ cancelled' \subseteq Requests
      BY <1>0, <1>3, <2>2 DEF Dispatch, DispatchFull, OpCancel, ServingType
    <3>2. hand' \in {hand, <<>>} /\ locked' \in BOOLEAN
      BY <1>0, <1>3 DEF Dispatch, DispatchFull, OpCancel, ServingType
    <3>3. hand' \in Seq(Frames) /\ Len(hand') <= 1
      <4>1. CASE hand' = hand BY <1>0, <4>1 DEF ServingType
      <4>2. CASE hand' = <<>> BY <2>3, <4>2
      <4> QED BY <3>2, <4>1, <4>2
    <3> QED BY <3>1, <3>2, <3>3 DEF ServingType
  <2>5. NetType' BY <1>0, <1>3, PartsKeep DEF Dispatch, DispatchFull, OpCancel
  <2> QED BY <1>1, <2>4, <2>5, TypeParts
<1> QED BY <1>2, <1>3 DEF Server

LEMMA NextType == TypeOK /\ [Next]_vars => TypeOK'
<1> SUFFICES ASSUME TypeOK, [Next]_vars PROVE TypeOK'
  OBVIOUS
<1>0. ClientType /\ EndsType /\ NetType /\ ServingType BY TypeParts
<1>1. ASSUME NEW r \in Requests, Reply(r) \/ Receive(r) PROVE TypeOK'
  <2>1. CASE Reply(r)
    <3>1. NetType' /\ ServingType' BY <1>0, <2>1 DEF Reply, NetType, ServingType
    <3> QED BY <1>0, <2>1, <3>1, PartsKeep, TypeParts DEF Reply
  <2>2. CASE Receive(r)
    <3>1. NetType' /\ ClientType' BY <1>0, <2>2 DEF Receive, NetType, ClientType
    <3>2. EndsType' BY <1>0, <2>2, PartsKeep DEF Receive, ends
    <3> QED BY <1>0, <2>2, <3>1, <3>2, PartsKeep, TypeParts DEF Receive
  <2> QED BY <1>1, <2>1, <2>2
<1>2. ASSUME UNCHANGED net, UNCHANGED serving, EndsType', HandleClosed \/ UNCHANGED client
      PROVE  TypeOK'
  <2>1. ClientType'
    <3>1. CASE HandleClosed BY <1>0, <3>1 DEF HandleClosed, ClientType
    <3> QED BY <1>0, <1>2, <3>1, PartsKeep
  <2> QED BY <1>0, <1>2, <2>1, PartsKeep, TypeParts
<1>3. CASE Closers
  <2>1. EndsType'
    BY <1>0, <1>3 DEF EndsType, Closers, FailClosed, FailStop, StopJoined, StopClosed,
                      OnClosed
  <2> QED BY <1>2, <1>3, <2>1 DEF Closers, FailClosed, FailStop, StopJoined, StopClosed,
                                  OnClosed
<1>4. CASE IoClose \/ IoClosed \/ IoStop
  <2>1. EndsType' BY <1>0, <1>4 DEF EndsType, IoClose, IoClosed, IoStop, OnClosed
  <2> QED BY <1>2, <1>4, <2>1 DEF IoClose, IoClosed, IoStop, OnClosed
<1>5. CASE Fail \/ Stop
  <2>1. EndsType' BY <1>0, <1>5 DEF EndsType, Fail, Stop
  <2> QED BY <1>2, <1>5, <2>1 DEF Fail, Stop
<1>6. ASSUME NEW l \in {"interactive", "bulk"}, Write(l) PROVE TypeOK'
  <2>1. PICK h \in Frames : h = Head(queue[l]) BY <1>0, <1>6 DEF Write, NetType
  <2>2. Tail(queue[l]) \in Seq(Frames) BY <1>0, <1>6 DEF Write, NetType
  <2>3. wire' \in Seq(Frames) BY <1>0, <1>6, <2>1 DEF Write, NetType
  <2>4. queue' \in [{"interactive", "bulk"} -> Seq(Frames)]
    BY <1>0, <1>6, <2>2 DEF Write, NetType
  <2>5. NetType' BY <1>0, <1>6, <2>3, <2>4 DEF Write, NetType
  <2> QED BY <1>0, <1>6, <2>5, PartsKeep, TypeParts DEF Write
<1>7. CASE LinkLost
  <2>1. <<>> \in Seq(Frames) OBVIOUS
  <2>2. NetType' BY <1>0, <1>7, <2>1 DEF LinkLost, NetType
  <2> QED BY <1>0, <1>7, <2>2, PartsKeep, TypeParts DEF LinkLost
<1>8. CASE UNCHANGED vars
  BY <1>0, <1>8, PartsKeep, TypeParts DEF vars, client, ends, net, serving
<1> QED
  BY <1>1, <1>3, <1>4, <1>5, <1>6, <1>7, <1>8, AskingType, ServerType DEF Next, Io

LEMMA InitType == Init => TypeOK
<1> SUFFICES ASSUME Init PROVE TypeOK
  OBVIOUS
<1>1. <<>> \in Seq(Frames) /\ Len(<<>>) = 0 OBVIOUS
<1>2. /\ queue \in [{"interactive", "bulk"} -> Seq(Frames)]
      /\ wire \in Seq(Frames) /\ hand \in Seq(Frames) /\ Len(hand) <= 1
  BY <1>1 DEF Init
<1> QED BY <1>2 DEF Init, TypeOK

\* RemotePeer and its transport keep their types; the serving I/O thread has one
\* frame in hand at most.
THEOREM PeerTypeCorrect == Spec => []TypeOK
BY InitType, NextType, PTL DEF Spec

-----------------------------------------------------------------------------
(* Where a cancel is: the requests whose cancel did not overtake them.        *)

Asks(r) == [kind |-> "request", id |-> r]
Stops(r) == [kind |-> "cancel", id |-> r]

Counted == asked \ overtaken

\* What is on its way to the serving side's handlers, in the order it arrives.
Ahead == wire \o queue["interactive"]
Stream == hand \o Ahead

\* A request that was cancelled is followed by its cancel as long as it is on
\* its way, and is marked or still followed once it is in flight.
Followed(S, inside, marked) ==
    \A r \in Counted :
        /\ \A p \in 1 .. Len(S) :
              S[p] = Asks(r) => \E q \in 1 .. Len(S) : q > p /\ S[q] = Stops(r)
        /\ r \in inside => r \in marked \/ \E q \in 1 .. Len(S) : S[q] = Stops(r)

\* A cancel is sent after its request has returned.
AskedLater == \A r \in Requests : asker[r] \notin {"back", "cancelling"} => r \notin asked

\* The bulk lane holds no request that a cancel will not find.
Order ==
    /\ AskedLater
    /\ \A r \in Counted : \A i \in DOMAIN queue["bulk"] : queue["bulk"][i] # Asks(r)
    /\ up => Followed(Stream, inFlight, cancelled)

\* Sequences.
LEMMA HeadBack ==
    ASSUME NEW S, NEW s \in Seq(S), s # <<>>
    PROVE  <<Head(s)>> \o Tail(s) = s
<1>1. PICK h \in S : h = Head(s) /\ h = s[1] OBVIOUS
<1>2. <<h>> \in Seq(S) /\ Len(<<h>>) = 1 /\ <<h>>[1] = h OBVIOUS
<1>3. /\ Tail(s) \in Seq(S) /\ Len(Tail(s)) = Len(s) - 1 /\ Len(s) \in Nat
      /\ \A i \in 1 .. Len(Tail(s)) : Tail(s)[i] = s[i + 1]
  BY HeadTailProperties
<1>4. /\ <<h>> \o Tail(s) \in Seq(S)
      /\ Len(<<h>> \o Tail(s)) = Len(s)
      /\ \A i \in 1 .. Len(s) : (<<h>> \o Tail(s))[i] = IF i <= 1 THEN <<h>>[i] ELSE Tail(s)[i - 1]
  BY <1>2, <1>3, ConcatProperties
<1>5. \A i \in 1 .. Len(s) : (<<h>> \o Tail(s))[i] = s[i]
  <2> SUFFICES ASSUME NEW i \in 1 .. Len(s) PROVE (<<h>> \o Tail(s))[i] = s[i]
    OBVIOUS
  <2>1. CASE i = 1 BY <1>1, <1>2, <1>4, <2>1
  <2>2. CASE i # 1
    <3>1. i - 1 \in 1 .. Len(Tail(s)) /\ ~(i <= 1) /\ (i - 1) + 1 = i BY <1>3, <2>2
    <3> QED BY <1>3, <1>4, <3>1
  <2> QED BY <2>1, <2>2
<1> QED BY <1>1, <1>4, <1>5, SeqEqual

LEMMA Singleton ==
    ASSUME NEW S, NEW s \in Seq(S), s # <<>>, Len(s) <= 1
    PROVE  s = <<s[1]>>
<1>1. Len(s) = 1 /\ s[1] \in S OBVIOUS
<1>2. PICK h \in S : h = s[1] BY <1>1
<1>3. <<h>> \in Seq(S) /\ Len(<<h>>) = 1 /\ <<h>>[1] = h OBVIOUS
<1>4. \A i \in 1 .. Len(s) : s[i] = <<h>>[i] BY <1>1, <1>2, <1>3
<1> QED BY <1>1, <1>2, <1>3, <1>4, SeqEqual

LEMMA HeadOver ==
    ASSUME NEW S, NEW s \in Seq(S), NEW t \in Seq(S), t # <<>>
    PROVE  Append(s, Head(t)) \o Tail(t) = s \o t
<1>1. PICK h \in S : h = Head(t) OBVIOUS
<1>2. Tail(t) \in Seq(S) /\ <<h>> \in Seq(S) BY HeadTailProperties
<1>3. Append(s, h) = s \o <<h>> BY AppendIsConcat
<1>4. (s \o <<h>>) \o Tail(t) = s \o (<<h>> \o Tail(t)) BY <1>2, ConcatAssociative
<1> QED BY <1>1, <1>3, <1>4, HeadBack

LEMMA AppendOver ==
    ASSUME NEW S, NEW s \in Seq(S), NEW t \in Seq(S), NEW e \in S
    PROVE  s \o Append(t, e) = Append(s \o t, e)
<1>1. <<e>> \in Seq(S) /\ s \o t \in Seq(S) BY ConcatProperties
<1>2. Append(t, e) = t \o <<e>> /\ Append(s \o t, e) = (s \o t) \o <<e>>
  BY <1>1, AppendIsConcat
<1> QED BY <1>1, <1>2, ConcatAssociative

\* One more frame at the end, one of them a cancel that is asked for from now.
LEMMA FollowedAppend ==
    ASSUME NEW S \in Seq(Frames), NEW f \in Frames, NEW inside, NEW marked,
           Followed(S, inside, marked),
           \/ Counted' = Counted /\ \A r \in Counted : f # Asks(r)
           \/ \E r : f = Stops(r) /\ Counted' = Counted \cup {r}
    PROVE  \A r \in Counted' :
             /\ \A p \in 1 .. Len(Append(S, f)) : Append(S, f)[p] = Asks(r) =>
                   \E q \in 1 .. Len(Append(S, f)) : q > p /\ Append(S, f)[q] = Stops(r)
             /\ r \in inside => r \in marked \/ \E q \in 1 .. Len(Append(S, f)) :
                                                   Append(S, f)[q] = Stops(r)
<1> DEFINE n == Len(S)
           T == Append(S, f)
<1>1. /\ n \in Nat /\ Len(T) = n + 1 /\ T[n + 1] = f
      /\ \A i \in 1 .. n : T[i] = S[i]
  BY AppendProperties
<1>2. \A r : Asks(r) # Stops(r) BY DEF Asks, Stops
<1>3. \A r, u : Stops(u) # Asks(r) BY DEF Asks, Stops
<1> HIDE DEF n, T
<1>4. ASSUME NEW r \in Counted', NEW p \in 1 .. n + 1, T[p] = Asks(r)
      PROVE  \E q \in 1 .. n + 1 : q > p /\ T[q] = Stops(r)
  <2>1. p \in 1 .. n
    <3>1. f # Asks(r) BY <1>3
    <3> QED BY <1>1, <1>4, <3>1
  <2>2. S[p] = Asks(r) BY <1>1, <1>4, <2>1
  <2>3. CASE r \in Counted
    <3>1. PICK q \in 1 .. n : q > p /\ S[q] = Stops(r) BY <2>1, <2>2, <2>3 DEF Followed, n
    <3> QED BY <1>1, <3>1
  <2>4. CASE r \notin Counted
    <3>1. f = Stops(r)
      BY <1>4, <2>4
    <3> QED BY <1>1, <2>1, <3>1
  <2> QED BY <2>3, <2>4
<1>5. ASSUME NEW r \in Counted', r \in inside, r \notin marked
      PROVE  \E q \in 1 .. n + 1 : T[q] = Stops(r)
  <2>1. CASE r \in Counted
    <3>1. PICK q \in 1 .. n : S[q] = Stops(r) BY <1>5, <2>1 DEF Followed, n
    <3> QED BY <1>1, <3>1
  <2>2. CASE r \notin Counted
    <3>1. f = Stops(r) BY <1>5, <2>2
    <3> QED BY <1>1, <3>1
  <2> QED BY <2>1, <2>2
<1> QED BY <1>1, <1>4, <1>5 DEF T

\* The frame in hand is handled: a request is in flight from now on, a cancel
\* marks the one it names.
LEMMA FollowedTail ==
    ASSUME NEW S \in Seq(Frames), NEW h \in Frames, NEW inside, NEW marked,
           Followed(<<h>> \o S, inside, marked)
    PROVE  /\ h.kind = "request" => Followed(S, inside \cup {h.id}, marked)
           /\ h.kind = "cancel" => Followed(S, inside, marked \cup (inside \cap {h.id}))
<1> DEFINE n == Len(S)
           T == <<h>> \o S
<1>1. /\ n \in Nat /\ Len(T) = n + 1 /\ T[1] = h
      /\ \A i \in 1 .. n : T[i + 1] = S[i]
  <2>1. <<h>> \in Seq(Frames) /\ Len(<<h>>) = 1 /\ <<h>>[1] = h /\ n \in Nat OBVIOUS
  <2>2. /\ Len(T) = 1 + n
        /\ \A i \in 1 .. 1 + n : T[i] = IF i <= 1 THEN <<h>>[i] ELSE S[i - 1]
    BY <2>1, ConcatProperties
  <2>3. ASSUME NEW i \in 1 .. n PROVE T[i + 1] = S[i]
    <3>1. i + 1 \in 1 .. 1 + n /\ ~(i + 1 <= 1) /\ (i + 1) - 1 = i BY <2>1
    <3> HIDE DEF T
    <3> QED BY <2>2, <3>1
  <2>4. T[1] = h
    <3>1. 1 \in 1 .. 1 + n /\ 1 <= 1 BY <2>1
    <3> HIDE DEF T
    <3> QED BY <2>1, <2>2, <3>1
  <2> QED BY <2>1, <2>2, <2>3, <2>4
<1>2. Followed(T, inside, marked) OBVIOUS
<1>3. /\ h.kind = "request" => h = Asks(h.id)
      /\ \A r : h = Stops(r) => h.kind = "cancel" /\ h.id = r
  BY DEF Frames, Asks, Stops
<1> HIDE DEF n, T
<1>4. ASSUME NEW r \in Counted, NEW p \in 1 .. n, S[p] = Asks(r)
      PROVE  \E q \in 1 .. n : q > p /\ S[q] = Stops(r)
  <2>1. p + 1 \in 1 .. Len(T) /\ T[p + 1] = Asks(r) BY <1>1, <1>4
  <2>2. PICK q \in 1 .. Len(T) : q > p + 1 /\ T[q] = Stops(r) BY <1>2, <2>1 DEF Followed
  <2>3. q - 1 \in 1 .. n /\ q - 1 > p /\ (q - 1) + 1 = q BY <1>1, <2>2
  <2>4. S[q - 1] = Stops(r) BY <1>1, <2>2, <2>3
  <2> QED BY <2>3, <2>4
<1>5. ASSUME NEW r \in Counted, NEW q \in 1 .. Len(T), T[q] = Stops(r)
      PROVE  h = Stops(r) \/ \E i \in 1 .. n : S[i] = Stops(r)
  <2>1. CASE q = 1 BY <1>1, <1>5, <2>1
  <2>2. CASE q # 1
    <3>1. q - 1 \in 1 .. n /\ (q - 1) + 1 = q BY <1>1, <2>2
    <3> QED BY <1>1, <1>5, <3>1
  <2> QED BY <2>1, <2>2
<1>6. ASSUME h.kind = "request", NEW r \in Counted, r \in inside \cup {h.id}, r \notin marked
      PROVE  \E i \in 1 .. n : S[i] = Stops(r)
  <2>1. h # Stops(r) BY <1>3, <1>6
  <2>2. \E q \in 1 .. Len(T) : T[q] = Stops(r)
    <3>1. CASE r \in inside BY <1>2, <1>6, <3>1 DEF Followed
    <3>2. CASE r = h.id
      <4>1. 1 \in 1 .. Len(T) /\ T[1] = Asks(r) BY <1>1, <1>3, <1>6, <3>2
      <4> QED BY <1>2, <4>1 DEF Followed
    <3> QED BY <1>6, <3>1, <3>2
  <2> QED BY <1>5, <2>1, <2>2
<1>7. ASSUME h.kind = "cancel", NEW r \in Counted, r \in inside,
             r \notin marked \cup (inside \cap {h.id})
      PROVE  \E i \in 1 .. n : S[i] = Stops(r)
  <2>1. h # Stops(r) BY <1>3, <1>7
  <2>2. \E q \in 1 .. Len(T) : T[q] = Stops(r) BY <1>2, <1>7 DEF Followed
  <2> QED BY <1>5, <2>1, <2>2
<1> QED BY <1>4, <1>6, <1>7 DEF Followed, n

LEMMA NextAskedLater == TypeOK /\ AskedLater /\ [Next]_vars => AskedLater'
<1> SUFFICES ASSUME TypeOK, AskedLater, [Next]_vars PROVE AskedLater'
  OBVIOUS
<1> USE DEF AskedLater, TypeOK
<1>1. ASSUME NEW r \in Requests, Register(r) \/ Cancel(r) PROVE AskedLater'
  BY <1>1 DEF Register, Cancel, At
<1>2. ASSUME NEW r \in Requests, Asking(r) PROVE AskedLater'
  <2>1. CASE SendClosed(r) \/ (\E l \in Lanes : Send(r, l)) \/ CheckSent(r)
    BY <2>1 DEF SendClosed, Send, CheckSent, At
  <2>2. CASE Unsent(r) \/ Sent(r) BY <2>2 DEF Unsent, Sent, At
  <2>3. CASE SendCancel(r) BY <2>3 DEF SendCancel, At
  <2>4. CASE RunHandler(r) BY <2>4 DEF RunHandler
  <2> QED BY <1>2, <2>1, <2>2, <2>3, <2>4 DEF Asking
<1>3. ASSUME UNCHANGED <<asker, asked>> PROVE AskedLater' BY <1>3
<1>4. ASSUME NEW r \in Requests, Reply(r) PROVE AskedLater'
  BY <1>3, <1>4 DEF Reply, client
<1>5. CASE Io
  BY <1>3, <1>5 DEF Io, IoClose, IoClosed, IoStop, Write, Receive, OnClosed, HandleClosed,
                    client
<1>6. CASE Closers \/ Fail \/ Stop \/ LinkLost
  BY <1>3, <1>6 DEF Closers, FailClosed, FailStop, StopJoined, StopClosed, OnClosed,
                    HandleClosed, client, Fail, Stop, LinkLost
<1>7. CASE Server
  BY <1>3, <1>7 DEF Server, ServerRead, Dispatch, DispatchFull, OpCancel, client
<1>8. CASE UNCHANGED vars BY <1>3, <1>8 DEF vars
<1> QED BY <1>1, <1>2, <1>4, <1>5, <1>6, <1>7, <1>8 DEF Next

\* The frames stay where they are, and none is newly in flight or unmarked.
LEMMA StandsStill ==
    ASSUME Order, AskedLater', UNCHANGED <<asked, overtaken, hand, wire, queue>>, up' => up,
           inFlight' \subseteq inFlight, (cancelled \cap inFlight') \subseteq cancelled'
    PROVE  Order'
<1>1. Stream' = Stream /\ Counted' = Counted BY DEF Stream, Ahead, Counted
<1>2. ASSUME up' PROVE Followed(Stream, inFlight, cancelled)'
  <2>1. Followed(Stream, inFlight, cancelled) BY <1>2 DEF Order
  <2> QED BY <1>1, <2>1 DEF Followed
<1> QED BY <1>1, <1>2 DEF Order

\* A frame is sent on the interactive lane.
LEMMA PushKeepsOrder ==
    ASSUME TypeOK, Order, AskedLater', NEW f \in Frames,
           UNCHANGED <<hand, wire, up, inFlight, cancelled>>,
           queue' = [queue EXCEPT !["interactive"] = Append(@, f)],
           \/ Counted' = Counted /\ \A r \in Counted : f # Asks(r)
           \/ \E r : f = Stops(r) /\ Counted' = Counted \cup {r} /\ ~InBulk(r)
    PROVE  Order'
<1>1. /\ queue["interactive"] \in Seq(Frames) /\ wire \in Seq(Frames)
      /\ hand \in Seq(Frames) /\ queue'["bulk"] = queue["bulk"]
      /\ queue'["interactive"] = Append(queue["interactive"], f)
  BY DEF TypeOK
<1>2. Ahead \in Seq(Frames) BY <1>1, ConcatProperties DEF Ahead
<1>3. Stream \in Seq(Frames) BY <1>1, <1>2, ConcatProperties DEF Stream
<1>4. Ahead' = Append(Ahead, f) BY <1>1, AppendOver DEF Ahead
<1>5. Stream' = Append(Stream, f) BY <1>1, <1>2, <1>4, AppendOver DEF Stream
<1>6. ASSUME up' PROVE Followed(Stream, inFlight, cancelled)'
  <2>1. Followed(Stream, inFlight, cancelled) BY <1>6 DEF Order
  <2>2. \A r \in Counted' :
           /\ \A p \in 1 .. Len(Stream') : Stream'[p] = Asks(r) =>
                 \E q \in 1 .. Len(Stream') : q > p /\ Stream'[q] = Stops(r)
           /\ r \in inFlight => r \in cancelled \/ \E q \in 1 .. Len(Stream') :
                                                      Stream'[q] = Stops(r)
    BY <1>3, <1>5, <2>1, FollowedAppend
  <2> QED BY <2>2 DEF Followed
<1>7. ASSUME NEW r \in Counted', NEW i \in DOMAIN queue["bulk"]
      PROVE  queue["bulk"][i] # Asks(r)
  <2>1. CASE r \in Counted BY <2>1 DEF Order
  <2>2. CASE r \notin Counted
    <3>1. ~InBulk(r) BY <1>7, <2>2
    <3> QED BY <3>1 DEF InBulk, Asks
  <2> QED BY <2>1, <2>2
<1> QED BY <1>1, <1>6, <1>7 DEF Order

\* A request is sent on the bulk lane: its caller has not cancelled it.
LEMMA BulkKeepsOrder ==
    ASSUME TypeOK, Order, AskedLater', NEW u \in Requests, u \notin asked,
           UNCHANGED <<hand, wire, up, inFlight, cancelled, asked, overtaken>>,
           queue' = [queue EXCEPT !["bulk"] = Append(@, Asks(u))]
    PROVE  Order'
<1>1. /\ queue["bulk"] \in Seq(Frames) /\ Asks(u) \in Frames
      /\ queue'["interactive"] = queue["interactive"]
      /\ queue'["bulk"] = Append(queue["bulk"], Asks(u))
  BY DEF TypeOK, Asks, Frames
<1>2. Stream' = Stream /\ Counted' = Counted BY <1>1 DEF Stream, Ahead, Counted
<1>3. ASSUME up' PROVE Followed(Stream, inFlight, cancelled)'
  <2>1. Followed(Stream, inFlight, cancelled) BY <1>3 DEF Order
  <2> QED BY <1>2, <2>1 DEF Followed
<1>4. ASSUME NEW r \in Counted, NEW i \in DOMAIN queue'["bulk"]
      PROVE  queue'["bulk"][i] # Asks(r)
  <2>1. Asks(u) # Asks(r) BY <1>4 DEF Asks, Counted
  <2> DEFINE b == queue["bulk"]
             a == Asks(u)
  <2>2. /\ Len(b) \in Nat /\ DOMAIN b = 1 .. Len(b)
        /\ DOMAIN Append(b, a) = 1 .. Len(b) + 1
        /\ Append(b, a)[Len(b) + 1] = a
        /\ \A j \in 1 .. Len(b) : Append(b, a)[j] = b[j]
    <3>1. b \in Seq(Frames) /\ a \in Frames BY <1>1
    <3> HIDE DEF a, b
    <3> QED BY <3>1, AppendProperties
  <2>3. \A j \in DOMAIN b : b[j] # Asks(r) BY DEF Order
  <2>4. queue'["bulk"] = Append(b, a) BY <1>1
  <2>5. a # Asks(r) BY <2>1
  <2> HIDE DEF a, b
  <2> QED BY <2>2, <2>3, <2>4, <2>5
<1> QED BY <1>2, <1>3, <1>4 DEF Order

\* A bulk frame is written: the interactive lane is empty, and no cancel is
\* counted on to find the request it may carry.
LEMMA BulkWriteKeepsOrder ==
    ASSUME TypeOK, Order, AskedLater', Write("bulk")
    PROVE  Order'
<1> DEFINE b == queue["bulk"]
           q == queue["interactive"]
<1>1. /\ b # <<>> /\ q = <<>> /\ wire' = Append(wire, Head(b))
      /\ queue'["bulk"] = Tail(b) /\ queue'["interactive"] = q
      /\ UNCHANGED <<hand, up, asked, overtaken, inFlight, cancelled>>
  BY DEF Write, TypeOK, client, serving
<1>2. wire \in Seq(Frames) /\ b \in Seq(Frames) /\ hand \in Seq(Frames) BY DEF TypeOK
<1>3. PICK f \in Frames : f = Head(b) /\ f = b[1] /\ 1 \in DOMAIN b BY <1>1, <1>2
<1>4. Counted' = Counted BY <1>1 DEF Counted
<1>5. \A r \in Counted : f # Asks(r) BY <1>3 DEF Order
<1>6. Ahead = wire /\ Ahead' = Append(wire, f)
  <2>1. Append(wire, f) \in Seq(Frames) BY <1>2
  <2> QED BY <1>1, <1>2, <1>3, <2>1, ConcatEmptySeq DEF Ahead
<1>7. Stream \in Seq(Frames) BY <1>2, <1>6, ConcatProperties DEF Stream
<1>8. Stream' = Append(Stream, f) BY <1>1, <1>2, <1>6, AppendOver DEF Stream
<1>9. ASSUME up' PROVE Followed(Stream, inFlight, cancelled)'
  <2>1. Followed(Stream, inFlight, cancelled) BY <1>1, <1>9 DEF Order
  <2>2. \A r \in Counted' :
           /\ \A p \in 1 .. Len(Stream') : Stream'[p] = Asks(r) =>
                 \E k \in 1 .. Len(Stream') : k > p /\ Stream'[k] = Stops(r)
           /\ r \in inFlight => r \in cancelled \/ \E k \in 1 .. Len(Stream') :
                                                      Stream'[k] = Stops(r)
    BY <1>4, <1>5, <1>7, <1>8, <2>1, FollowedAppend
  <2> QED BY <1>1, <2>2 DEF Followed
<1>10. ASSUME NEW r \in Counted', NEW i \in DOMAIN Tail(b)
       PROVE  Tail(b)[i] # Asks(r)
  <2>1. i + 1 \in DOMAIN b /\ Tail(b)[i] = b[i + 1]
    BY <1>1, <1>2, HeadTailProperties
  <2> QED BY <1>4, <2>1 DEF Order
<1> QED BY <1>1, <1>9, <1>10 DEF Order

\* The serving side takes a frame in hand, and handles it.
LEMMA ServerKeepsOrder == ASSUME TypeOK, Order, AskedLater', Server PROVE Order'
<1>0. /\ queue["interactive"] \in Seq(Frames) /\ wire \in Seq(Frames)
      /\ hand \in Seq(Frames) /\ Len(hand) <= 1 /\ UNCHANGED <<up, queue, asked, overtaken>>
  BY DEF TypeOK, Server, ServerRead, Dispatch, DispatchFull, OpCancel, client, net
<1>1. Ahead \in Seq(Frames) BY <1>0, ConcatProperties DEF Ahead
<1>6. Counted' = Counted BY <1>0 DEF Counted
<1>2. <<>> \o Ahead = Ahead BY <1>1, ConcatEmptySeq
<1>3. CASE ServerRead
  <2> DEFINE q == queue["interactive"]
  <2>1. hand = <<>> /\ wire # <<>> /\ hand' = <<Head(wire)>> /\ wire' = Tail(wire)
        /\ UNCHANGED <<inFlight, cancelled>>
    BY <1>3 DEF ServerRead
  <2>2. PICK h \in Frames : h = Head(wire) BY <1>0, <2>1
  <2>3. <<h>> \in Seq(Frames) /\ Tail(wire) \in Seq(Frames)
    BY <1>0, <2>1, HeadTailProperties
  <2>4. <<h>> \o (Tail(wire) \o q) = (<<h>> \o Tail(wire)) \o q
    BY <1>0, <2>3, ConcatAssociative
  <2>5. <<h>> \o Tail(wire) = wire BY <1>0, <2>1, <2>2, HeadBack
  <2>6. Stream' = Stream BY <1>0, <1>2, <2>1, <2>2, <2>4, <2>5 DEF Stream, Ahead
  <2>7. ASSUME up' PROVE Followed(Stream, inFlight, cancelled)'
    <3>1. Followed(Stream, inFlight, cancelled) BY <1>0, <2>7 DEF Order
    <3> QED BY <1>0, <2>1, <2>6, <1>6, <3>1 DEF Followed
  <2> QED BY <1>0, <1>6, <2>7 DEF Order
<1>4. CASE Dispatch \/ OpCancel
  <2>1. hand # <<>> /\ hand' = <<>> /\ UNCHANGED wire
    BY <1>4 DEF Dispatch, OpCancel, Handling, net
  <2>2. PICK h \in Frames : h = hand[1] BY <1>0, <2>1
  <2>3. hand = <<h>> BY <1>0, <2>1, <2>2, Singleton
  <2>4. Stream = <<h>> \o Ahead BY <2>3 DEF Stream
  <2>5. Stream' = Ahead BY <1>0, <1>2, <2>1 DEF Stream, Ahead
  <2>6. ASSUME up' PROVE Followed(Stream, inFlight, cancelled)'
    <3>1. Followed(<<h>> \o Ahead, inFlight, cancelled) BY <1>0, <2>4, <2>6 DEF Order
    <3>2. CASE Dispatch
      <4>1. h.kind = "request" /\ inFlight' = inFlight \cup {h.id} /\ UNCHANGED cancelled
        BY <2>2, <3>2 DEF Dispatch, Handling
      <4>2. Followed(Ahead, inFlight', cancelled') BY <1>1, <3>1, <4>1, FollowedTail
      <4> QED BY <1>0, <1>6, <2>5, <4>2 DEF Followed
    <3>3. CASE OpCancel
      <4>1. /\ h.kind = "cancel" /\ UNCHANGED inFlight
            /\ cancelled' = cancelled \cup (inFlight \cap {h.id})
        BY <2>2, <3>3 DEF OpCancel, Handling
      <4>2. Followed(Ahead, inFlight', cancelled') BY <1>1, <3>1, <4>1, FollowedTail
      <4> QED BY <1>0, <1>6, <2>5, <4>2 DEF Followed
    <3> QED BY <1>4, <3>2, <3>3
  <2> QED BY <1>0, <1>6, <2>6 DEF Order
<1>5. CASE DispatchFull
  BY <1>0, <1>5, StandsStill DEF DispatchFull, net
<1> QED BY <1>3, <1>4, <1>5 DEF Server

LEMMA NextOrder == TypeOK /\ Order /\ [Next]_vars => Order'
<1> SUFFICES ASSUME TypeOK, Order, [Next]_vars PROVE Order'
  OBVIOUS
<1>0. AskedLater' BY NextAskedLater DEF Order
<1>1. ASSUME UNCHANGED <<asked, overtaken, hand, wire, queue, inFlight, cancelled, up>>
      PROVE  Order'
  BY <1>0, <1>1, StandsStill
<1>2. ASSUME NEW r \in Requests, Register(r) \/ Cancel(r) PROVE Order'
  BY <1>1, <1>2 DEF Register, Cancel, net, serving
<1>3. ASSUME NEW r \in Requests, Asking(r) PROVE Order'
  <2>1. CASE SendClosed(r) \/ CheckSent(r) \/ Unsent(r) \/ Sent(r) \/ RunHandler(r)
    BY <1>1, <2>1 DEF SendClosed, CheckSent, Unsent, Sent, RunHandler, net, serving
  <2>2. CASE \E l \in Lanes : Send(r, l)
    <3>1. PICK l \in {"interactive", "bulk"} : Send(r, l) BY <2>2, LanesAssumption
    <3>2. Asks(r) \in Frames /\ r \notin asked
      BY <3>1 DEF Asks, Frames, Send, At, Order, AskedLater
    <3>3. \A u \in Counted : Asks(r) # Asks(u) BY <3>2 DEF Asks, Counted
    <3>4. UNCHANGED <<asked, overtaken, hand, wire, up, inFlight, cancelled>>
      BY <3>1 DEF Send, serving
    <3>5. UNCHANGED queue \/ queue' = [queue EXCEPT ![l] = Append(@, Asks(r))]
      BY <3>1 DEF Send, Push, Asks
    <3>6. CASE UNCHANGED queue BY <1>1, <3>4, <3>6
    <3>7. CASE l = "interactive" /\ queue' = [queue EXCEPT ![l] = Append(@, Asks(r))]
      <4>1. Counted' = Counted BY <3>4 DEF Counted
      <4> QED BY <1>0, <3>2, <3>3, <3>4, <3>7, <4>1, PushKeepsOrder
    <3>8. CASE l = "bulk" /\ queue' = [queue EXCEPT ![l] = Append(@, Asks(r))]
      BY <1>0, <3>2, <3>4, <3>8, BulkKeepsOrder
    <3> QED BY <3>5, <3>6, <3>7, <3>8
  <2>3. CASE SendCancel(r)
    <3>1. Stops(r) \in Frames BY DEF Stops, Frames
    <3>2. UNCHANGED <<hand, wire, up, inFlight, cancelled>> BY <2>3 DEF SendCancel, serving
    <3>3. CASE closed \/ Full
      <4>1. UNCHANGED <<queue, asked, overtaken>> BY <2>3, <3>3 DEF SendCancel, Push
      <4> QED BY <1>1, <3>2, <4>1
    <3>4. CASE ~closed /\ ~Full
      <4>1. /\ queue' = [queue EXCEPT !["interactive"] = Append(@, Stops(r))]
            /\ asked' = asked \cup {r}
            /\ overtaken' = IF InBulk(r) THEN overtaken \cup {r} ELSE overtaken
        BY <2>3, <3>4 DEF SendCancel, Push, Stops
      <4>2. \A u : Stops(r) # Asks(u) BY DEF Stops, Asks
      <4>3. CASE InBulk(r) \/ r \in overtaken
        <5>1. overtaken' = overtaken \cup {r} BY <4>1, <4>3
        <5>2. CASE r \notin Counted
          <6>1. Counted' = Counted BY <4>1, <5>1, <5>2 DEF Counted
          <6> QED BY <1>0, <3>1, <3>2, <4>1, <4>2, <6>1, PushKeepsOrder
        <5>3. CASE r \in Counted
          <6>1. ~InBulk(r) /\ r \notin overtaken BY <5>3 DEF Order, InBulk, Asks, Counted
          <6> QED BY <4>3, <6>1
        <5> QED BY <5>2, <5>3
      <4>4. CASE ~InBulk(r) /\ r \notin overtaken
        <5>1. Counted' = Counted \cup {r} BY <4>1, <4>4 DEF Counted
        <5> QED BY <1>0, <3>1, <3>2, <4>1, <4>4, <5>1, PushKeepsOrder
      <4> QED BY <4>3, <4>4
    <3> QED BY <3>3, <3>4
  <2> QED BY <1>3, <2>1, <2>2, <2>3 DEF Asking
<1>4. ASSUME NEW r \in Requests, Reply(r) PROVE Order'
  BY <1>0, <1>4, StandsStill DEF Reply, client
<1>5. CASE Io
  <2>1. CASE IoClose \/ IoClosed \/ IoStop
    BY <1>1, <2>1 DEF IoClose, IoClosed, IoStop, OnClosed, HandleClosed, client, net, serving
  <2>2. CASE Write("interactive")
    <3> DEFINE q == queue["interactive"]
    <3>2. /\ q # <<>> /\ wire' = Append(wire, Head(q)) /\ queue'["interactive"] = Tail(q)
          /\ queue'["bulk"] = queue["bulk"]
          /\ UNCHANGED <<hand, up, asked, overtaken, inFlight, cancelled>>
      BY <2>2 DEF Write, TypeOK, client, serving
    <3>3. wire \in Seq(Frames) /\ q \in Seq(Frames) BY DEF TypeOK
    <3>4. Append(wire, Head(q)) \o Tail(q) = wire \o q BY <3>2, <3>3, HeadOver
    <3>5. Stream' = Stream /\ Counted' = Counted BY <3>2, <3>4 DEF Stream, Ahead, Counted
    <3>6. ASSUME up' PROVE Followed(Stream, inFlight, cancelled)'
      <4>1. Followed(Stream, inFlight, cancelled) BY <3>2, <3>6 DEF Order
      <4> QED BY <3>2, <3>5, <4>1 DEF Followed
    <3> QED BY <1>0, <3>2, <3>5, <3>6 DEF Order
  <2>4. CASE Write("bulk") BY <1>0, <2>4, BulkWriteKeepsOrder
  <2>3. ASSUME NEW r \in Requests, Receive(r) PROVE Order'
    BY <1>1, <2>3 DEF Receive, serving
  <2> QED BY <1>5, <2>1, <2>2, <2>3, <2>4 DEF Io
<1>6. CASE Closers
  BY <1>1, <1>6 DEF Closers, FailClosed, FailStop, StopJoined, StopClosed, OnClosed,
                    HandleClosed, client, net, serving
<1>7. CASE Fail \/ Stop BY <1>1, <1>7 DEF Fail, Stop, client, net, serving
<1>8. CASE LinkLost
  <2>1. UNCHANGED <<asked, overtaken, queue>> /\ ~up' BY <1>8 DEF LinkLost, client
  <2>2. Counted' = Counted BY <2>1 DEF Counted
  <2> QED BY <1>0, <2>1, <2>2 DEF Order
<1>9. CASE UNCHANGED vars BY <1>1, <1>9 DEF vars
<1> QED
  BY <1>0, <1>2, <1>3, <1>4, <1>5, <1>6, <1>7, <1>8, <1>9, ServerKeepsOrder DEF Next

LEMMA InitOrder == Init => Order
<1> SUFFICES ASSUME Init PROVE Order
  OBVIOUS
<1> QED BY DEF Init, Order, AskedLater, Followed, Counted

\* What is in the stream is in the hand, on the wire or queued.
LEMMA OrderReaches == TypeOK /\ Order => CancelReaches
<1> SUFFICES ASSUME TypeOK, Order, up, NEW r \in (asked \cap inFlight) \ overtaken,
                    r \notin cancelled
             PROVE  \/ hand = <<Stops(r)>>
                    \/ \E i \in DOMAIN wire : wire[i] = Stops(r)
                    \/ \E i \in DOMAIN queue["interactive"] :
                           queue["interactive"][i] = Stops(r)
  BY DEF CancelReaches, Stops
<1> DEFINE q == queue["interactive"]
<1>1. /\ hand \in Seq(Frames) /\ wire \in Seq(Frames) /\ q \in Seq(Frames)
      /\ Len(hand) <= 1 /\ Len(hand) \in Nat /\ Len(wire) \in Nat /\ Len(q) \in Nat
      /\ DOMAIN wire = 1 .. Len(wire) /\ DOMAIN q = 1 .. Len(q)
  BY DEF TypeOK
<1>2. /\ Ahead \in Seq(Frames) /\ Len(Ahead) = Len(wire) + Len(q)
      /\ \A i \in 1 .. Len(wire) + Len(q) :
            Ahead[i] = IF i <= Len(wire) THEN wire[i] ELSE q[i - Len(wire)]
  BY <1>1, ConcatProperties DEF Ahead
<1>3. /\ Len(Stream) = Len(hand) + Len(Ahead)
      /\ \A i \in 1 .. Len(hand) + Len(Ahead) :
            Stream[i] = IF i <= Len(hand) THEN hand[i] ELSE Ahead[i - Len(hand)]
  BY <1>1, <1>2, ConcatProperties DEF Stream
<1>4. PICK k \in 1 .. Len(Stream) : Stream[k] = Stops(r) BY DEF Order, Followed, Counted
<1> HIDE DEF q
<1>5. CASE k <= Len(hand)
  <2>1. k \in 1 .. Len(hand) + Len(Ahead) /\ k \in Nat /\ k >= 1 BY <1>1, <1>2, <1>3, <1>4
  <2>2. hand[k] = Stops(r) BY <1>3, <1>4, <1>5, <2>1
  <2>3. k = 1 /\ Len(hand) = 1
    <3>1. PICK n \in Nat : n = Len(hand) BY <1>1
    <3>2. k <= n /\ n <= 1 BY <1>1, <1>5, <3>1
    <3> QED BY <2>1, <3>1, <3>2
  <2>4. hand # <<>> BY <2>3
  <2> QED BY <1>1, <2>2, <2>3, <2>4, Singleton
<1>6. CASE ~(k <= Len(hand))
  <2> DEFINE m == k - Len(hand)
  <2>1. m \in 1 .. Len(wire) + Len(q) /\ Ahead[m] = Stops(r)
    BY <1>1, <1>2, <1>3, <1>4, <1>6
  <2> HIDE DEF m
  <2>2. CASE m <= Len(wire)
    <3>1. m \in DOMAIN wire /\ wire[m] = Stops(r) BY <1>1, <1>2, <2>1, <2>2
    <3> QED BY <3>1
  <2>3. CASE ~(m <= Len(wire))
    <3>1. m - Len(wire) \in DOMAIN q /\ q[m - Len(wire)] = Stops(r)
      BY <1>1, <1>2, <2>1, <2>3
    <3> QED BY <3>1 DEF q
  <2> QED BY <2>2, <2>3
<1> QED BY <1>5, <1>6

\* RemotePeer::Cancel, for requests on either lane: on a link that is up a request
\* in flight whose cancel was sent is marked, or its cancel is still on the way,
\* unless it waited in the bulk lane when the cancel was sent past it.
THEOREM CancelNotLost == Spec => []CancelReaches
BY NextOrder, InitOrder, OrderReaches, PeerTypeCorrect, PTL DEF Spec

-----------------------------------------------------------------------------
(* The refinement.                                                           *)

LEMMA InitRefines == Init => Contract!Init
BY DEF Init, Contract!Init, Outcome

\* The value of Outcome for one request.
LEMMA OutcomeOf ==
    ASSUME NEW r \in Requests
    PROVE  /\ Outcome[r] = IF ran[r] > 0 THEN "answered" ELSE IF returned[r] = "zero" THEN "refused"
                           ELSE IF asker[r] = "idle" THEN "unmade" ELSE "made"
           /\ Outcome'[r] = IF ran'[r] > 0 THEN "answered"
                            ELSE IF returned'[r] = "zero" THEN "refused"
                            ELSE IF asker'[r] = "idle" THEN "unmade" ELSE "made"
BY DEF Outcome

LEMMA Becoming ==
    ASSUME NEW r \in Requests, NEW from, NEW to, Outcome[r] = from, Outcome'[r] = to,
           \A q \in Requests \ {r} : Outcome'[q] = Outcome[q]
    PROVE  Contract!Becomes(r, from, to)
<1>1. Outcome = [q \in Requests |-> Outcome[q]] BY DEF Outcome
<1>2. Outcome' = [q \in Requests |-> Outcome'[q]] BY DEF Outcome
<1> QED BY <1>1, <1>2 DEF Contract!Becomes

\* Only five actions change an outcome; each is one of the contract's.
LEMMA NextRefines == Sound /\ [Next]_vars => [Contract!Next]_Outcome
<1> SUFFICES ASSUME Sound, [Next]_vars PROVE Contract!Next \/ UNCHANGED Outcome
  OBVIOUS
<1>1. ASSUME UNCHANGED ran, NEW q \in Requests,
             asker' = asker \/ \E s \in Steps \ {"idle"} : asker' = [asker EXCEPT ![q] = s],
             asker[q] # "idle", UNCHANGED returned
      PROVE  UNCHANGED Outcome
  BY <1>1 DEF Outcome, Sound, Steps
<1>2. ASSUME NEW r \in Requests, Register(r) PROVE Contract!Next
  <2>1. CASE peerClosed
    <3>1. Contract!Becomes(r, "unmade", "refused")
      BY <1>2, <2>1, OutcomeOf, Becoming DEF Register, Sound, Progress, Returns, Steps
    <3> QED BY <3>1 DEF Contract!Next, Contract!Refuse
  <2>2. CASE ~peerClosed
    <3>1. Contract!Becomes(r, "unmade", "made")
      BY <1>2, <2>2, OutcomeOf, Becoming DEF Register, Sound, Progress, Steps
    <3> QED BY <3>1 DEF Contract!Next, Contract!Make
  <2> QED BY <2>1, <2>2
<1>3. ASSUME NEW r \in Requests, Unsent(r) PROVE Contract!Next \/ UNCHANGED Outcome
  <2>1. CASE r \in pending
    <3>1. Contract!Becomes(r, "made", "refused")
      BY <1>3, <2>1, OutcomeOf, Becoming DEF Unsent, At, Sound, Progress, Returns, Steps,
                        OneOutcome, InOnePlace
    <3> QED BY <3>1 DEF Contract!Next, Contract!Refuse
  <2>2. CASE r \notin pending
    BY <1>3, <2>2 DEF Outcome, Unsent, At, Sound, Progress, Returns, Steps
  <2> QED BY <2>1, <2>2
<1>4. ASSUME NEW r \in Requests, Sent(r) PROVE UNCHANGED Outcome
  BY <1>4 DEF Outcome, Sent, At, Sound, Progress, Returns, Steps
<1>5. ASSUME NEW r \in Requests, RunHandler(r) PROVE Contract!Next
  <2>1. Contract!Becomes(r, "made", "answered")
    BY <1>5, OutcomeOf, Becoming DEF RunHandler, Sound, Progress, Steps, OneOutcome,
                InOnePlace, Refused
  <2> QED BY <2>1 DEF Contract!Next, Contract!Answer
<1>6. ASSUME NEW r \in Requests, Cancel(r) \/ Asking(r) PROVE Contract!Next \/ UNCHANGED Outcome
  <2>1. CASE Cancel(r) BY <1>1, <2>1 DEF Cancel, At, Steps
  <2>2. CASE SendClosed(r) BY <1>1, <2>2 DEF SendClosed, At, Steps
  <2>3. CASE \E l \in Lanes : Send(r, l) BY <1>1, <2>3 DEF Send, At, Steps
  <2>4. CASE CheckSent(r) BY <1>1, <2>4 DEF CheckSent, At, Steps
  <2>5. CASE SendCancel(r) BY <1>1, <2>5 DEF SendCancel, At, Steps
  <2> QED BY <1>3, <1>4, <1>5, <1>6, <2>1, <2>2, <2>3, <2>4, <2>5 DEF Asking
<1>7. ASSUME HandleClosed \/ UNCHANGED client PROVE UNCHANGED Outcome
  BY <1>7 DEF HandleClosed, client, Outcome
<1>8. ASSUME NEW r \in Requests, Reply(r) \/ Receive(r) PROVE UNCHANGED Outcome
  BY <1>8 DEF Reply, Receive, client, Outcome
<1>9. CASE Server
  BY <1>7, <1>9 DEF Server, ServerRead, Dispatch, DispatchFull, OpCancel
<1>10. CASE Closers
  BY <1>7, <1>10 DEF Closers, FailClosed, FailStop, StopJoined, StopClosed, OnClosed
<1>11. CASE Io
  BY <1>7, <1>8, <1>11 DEF Io, IoClose, IoClosed, IoStop, OnClosed, Write
<1>12. CASE Fail \/ Stop \/ LinkLost
  BY <1>7, <1>12 DEF Fail, Stop, LinkLost
<1>13. CASE UNCHANGED vars BY <1>7, <1>13 DEF vars, client
<1> QED BY <1>2, <1>6, <1>8, <1>9, <1>10, <1>11, <1>12, <1>13 DEF Next

\* RemotePeer::SendRequest and all that races it implement the contract: a
\* request is made, then answered or refused, once.
THEOREM ImplementsSafety == Spec => Contract!Safety
<1> QED BY InitRefines, NextRefines, InitSound, NextSound, PTL DEF Spec, Contract!Safety
=============================================================================
