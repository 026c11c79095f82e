-------------------------- MODULE HostSessionProofs --------------------------
(***************************************************************************)
(* RestsHonestly for any number of connects, disconnects and links.  It     *)
(* needs to know, for every place the session thread can be in, which       *)
(* states can be on show there: Shown below.                                *)
(***************************************************************************)
EXTENDS HostSession, TLAPS

\* The states that can be on show while the thread is in each place.  A failed
\* attempt or a left loop leaves NeedsAuth or Offline showing only with a wake
\* pending that the thread takes next and that LinkDied cannot replace.
Shown ==
    /\ thread = "rest" =>
        \/ state \in {"Ready", "Disconnected"}
        \/ Interrupted /\ state \in {"NeedsAuth", "Offline"}
    /\ thread = "failed" =>
        \/ state = "Disconnected"
        \/ Interrupted /\ state = "NeedsAuth"
    /\ thread = "auth" => state = "NeedsAuth"
    /\ thread = "backoff" => state = "Offline"
    /\ state = "Ready" => thread \in {"rest", "dropping", "failing", "reporting", "gone"}

\* Where a client is at hand: a greeted one on its way into connection_, and
\* one in connection_ whenever the session rests connected.
AtHand ==
    /\ thread \in {"greeted", "attached"} => fresh # 0
    /\ thread = "replaced" => client # 0
    /\ thread = "rest" /\ state = "Ready" => client # 0

Honest == made \in Nat /\ Shown /\ AtHand

LEMMA InitHonest == Init => Honest
  BY DEF Init, Honest, Shown, AtHand, Interrupted

LEMMA NextCounted == made \in Nat /\ [Next]_vars => made' \in Nat
<1> SUFFICES ASSUME made \in Nat, [Next]_vars PROVE made' \in Nat
  OBVIOUS
<1>1. CASE Greeted
  BY <1>1 DEF Greeted
<1>2. CASE UNCHANGED made
  BY <1>2
<1>3. Greeted \/ UNCHANGED made
  BY DEF Next, Thread, Attempts, Connect, Disconnect, Destroy, Destroyed, LinkDies,
     Closed, TakeConnect, TakeDisconnect, TakeLinkDied, TakeStop, Drop, FailOld,
     ReportDisconnected, MasterAlive, MasterDown, MasterUp, NoMaster, NeedsAuth,
     Authenticated, AuthTimedOut, AuthLeft, NotStarted, MarkConnected, Install,
     InstallDone, InstallFailed, Replace, ReportReady, AttemptFailed, Retry,
     LeaveLoop, StartServer, GiveUp, links, vars
<1> QED
  BY <1>1, <1>2, <1>3

LEMMA NextShown == Honest /\ [Next]_vars => Shown'
<1> SUFFICES ASSUME Honest, [Next]_vars PROVE Shown'
  OBVIOUS
<1> USE DEF Honest, Shown, Interrupted
<1>1. CASE Connect \/ Disconnect \/ Destroy \/ Destroyed
  BY <1>1 DEF Connect, Disconnect, Destroy, Destroyed
<1>2. ASSUME NEW c \in Clients, LinkDies(c) \/ Closed(c) PROVE Shown'
  BY <1>2 DEF LinkDies, Closed, LinkDied
<1>3. CASE TakeConnect \/ TakeDisconnect \/ TakeLinkDied \/ TakeStop
  BY <1>3 DEF TakeConnect, TakeDisconnect, TakeLinkDied, TakeStop, Take
<1>4. CASE Drop \/ FailOld \/ ReportDisconnected
  BY <1>4 DEF Drop, FailOld, ReportDisconnected, LinkDied
<1>5. CASE Attempts
  <2>1. CASE MasterAlive \/ MasterDown \/ MasterUp \/ NoMaster \/ NeedsAuth
    BY <2>1 DEF MasterAlive, MasterDown, MasterUp, NoMaster, NeedsAuth,
       StartServer, GiveUp
  <2>2. CASE Authenticated \/ AuthTimedOut \/ AuthLeft \/ NotStarted
    BY <2>2 DEF Authenticated, AuthTimedOut, AuthLeft, NotStarted, StartServer, GiveUp
  <2>3. CASE Greeted \/ MarkConnected \/ Install \/ InstallDone \/ InstallFailed
    BY <2>3 DEF Greeted, MarkConnected, Install, InstallDone, InstallFailed, GiveUp
  <2>4. CASE Replace \/ ReportReady \/ AttemptFailed \/ Retry \/ LeaveLoop
    BY <2>4 DEF Replace, ReportReady, AttemptFailed, Retry, LeaveLoop
  <2> QED
    BY <1>5, <2>1, <2>2, <2>3, <2>4 DEF Attempts
<1>6. CASE UNCHANGED vars
  BY <1>6 DEF vars
<1> QED
  BY <1>1, <1>2, <1>3, <1>4, <1>5, <1>6 DEF Next, Thread

LEMMA NextAtHand == Honest /\ [Next]_vars => AtHand'
<1> SUFFICES ASSUME Honest, [Next]_vars PROVE AtHand'
  OBVIOUS
<1> USE DEF Honest, AtHand, Shown
<1>1. CASE Connect \/ Disconnect \/ Destroy \/ Destroyed
  BY <1>1 DEF Connect, Disconnect, Destroy, Destroyed, links
<1>2. ASSUME NEW c \in Clients, LinkDies(c) \/ Closed(c) PROVE AtHand'
  BY <1>2 DEF LinkDies, Closed
<1>3. CASE TakeConnect \/ TakeDisconnect \/ TakeLinkDied \/ TakeStop
  BY <1>3 DEF TakeConnect, TakeDisconnect, TakeLinkDied, TakeStop, Take, links
<1>4. CASE Drop \/ FailOld \/ ReportDisconnected
  BY <1>4 DEF Drop, FailOld, ReportDisconnected, links
<1>5. CASE Attempts
  <2>1. CASE MasterAlive \/ MasterDown \/ MasterUp \/ NoMaster \/ NeedsAuth
    BY <2>1 DEF MasterAlive, MasterDown, MasterUp, NoMaster, NeedsAuth,
       StartServer, GiveUp, links
  <2>2. CASE Authenticated \/ AuthTimedOut \/ AuthLeft \/ NotStarted
    BY <2>2 DEF Authenticated, AuthTimedOut, AuthLeft, NotStarted, StartServer,
       GiveUp, links
  <2>3. CASE Greeted
    BY <2>3 DEF Greeted
  <2>4. CASE MarkConnected \/ Install \/ InstallDone \/ InstallFailed
    BY <2>4 DEF MarkConnected, Install, InstallDone, InstallFailed, GiveUp, links
  <2>5. CASE Replace \/ ReportReady \/ AttemptFailed \/ Retry \/ LeaveLoop
    BY <2>5 DEF Replace, ReportReady, AttemptFailed, Retry, LeaveLoop, links
  <2> QED
    BY <1>5, <2>1, <2>2, <2>3, <2>4, <2>5 DEF Attempts
<1>6. CASE UNCHANGED vars
  BY <1>6 DEF vars
<1> QED
  BY <1>1, <1>2, <1>3, <1>4, <1>5, <1>6 DEF Next, Thread

LEMMA AlwaysHonest == Spec => []Honest
<1>1. Honest /\ [Next]_vars => Honest'
  BY NextCounted, NextShown, NextAtHand DEF Honest
<1> QED
  BY <1>1, InitHonest, PTL DEF Spec

LEMMA InitType == Init => TypeOK
<1> SUFFICES ASSUME Init PROVE TypeOK
  OBVIOUS
<1>1. /\ 0 \in 0..MaxClients /\ 0 \in 0..MaxConnects /\ 0 \in 0..MaxDisconnects
  BY BoundsAssumption
<1> QED
  BY <1>1 DEF Init, TypeOK, Wakes, States, Places

\* The clients at hand are ones that were made: that takes AtHand.
LEMMA NextType == TypeOK /\ AtHand /\ [Next]_vars => TypeOK'
<1> SUFFICES ASSUME TypeOK, AtHand, [Next]_vars PROVE TypeOK'
  OBVIOUS
<1> USE DEF TypeOK, Wakes, States, Places
<1>1. CASE Connect \/ Disconnect
  <2>1. CASE Connect
    <3>1. connects + 1 \in 0..MaxConnects
      BY <2>1, BoundsAssumption DEF Connect
    <3> QED
      BY <2>1, <3>1 DEF Connect, attempt, links
  <2>2. CASE Disconnect
    <3>1. disconnects + 1 \in 0..MaxDisconnects
      BY <2>2, BoundsAssumption DEF Disconnect
    <3> QED
      BY <2>2, <3>1 DEF Disconnect, attempt, links
  <2> QED
    BY <1>1, <2>1, <2>2
<1>2. CASE Destroy
  BY <1>2 DEF Destroy, attempt, links, calls
<1>3. CASE Destroyed
  <2>1. client \in Clients /\ 0 \in 0..MaxClients
    BY <1>3, BoundsAssumption DEF Destroyed, Clients
  <2> QED
    BY <1>3, <2>1 DEF Destroyed, attempt, calls
<1>4. ASSUME NEW c \in Clients, LinkDies(c) \/ Closed(c) PROVE TypeOK'
  BY <1>4 DEF LinkDies, Closed, LinkDied, attempt, calls
<1>5. CASE TakeConnect \/ TakeDisconnect \/ TakeLinkDied \/ TakeStop
  BY <1>5 DEF TakeConnect, TakeDisconnect, TakeLinkDied, TakeStop, Take, links,
     attempt, calls
<1>6. CASE Drop \/ FailOld \/ ReportDisconnected
  <2>1. 0 \in 0..MaxClients
    BY BoundsAssumption
  <2> QED
    BY <1>6, <2>1 DEF Drop, FailOld, ReportDisconnected, LinkDied, links, attempt, calls
<1>7. CASE Attempts
  <2>1. CASE MasterAlive \/ MasterDown \/ MasterUp \/ NoMaster \/ NeedsAuth
    BY <2>1 DEF MasterAlive, MasterDown, MasterUp, NoMaster, NeedsAuth,
       StartServer, GiveUp, links, attempt, calls
  <2>2. CASE Authenticated \/ AuthTimedOut \/ AuthLeft \/ NotStarted
    BY <2>2 DEF Authenticated, AuthTimedOut, AuthLeft, NotStarted, StartServer,
       GiveUp, links, attempt, calls
  <2>3. CASE Greeted
    <3>1. made + 1 \in Clients /\ made + 1 \in 0..MaxClients
      BY <2>3, BoundsAssumption DEF Greeted, Clients
    <3> QED
      BY <2>3, <3>1 DEF Greeted, attempt, calls
  <2>4. CASE MarkConnected
    <3>1. fresh \in Clients
      BY <2>4, BoundsAssumption DEF MarkConnected, AtHand, Clients
    <3> QED
      BY <2>4, <3>1 DEF MarkConnected, attempt, calls
  <2>5. CASE Install \/ InstallDone \/ InstallFailed
    BY <2>5 DEF Install, InstallDone, InstallFailed, GiveUp, links, attempt, calls
  <2>6. CASE Replace
    <3>1. 0 \in 0..MaxClients
      BY BoundsAssumption
    <3> QED
      BY <2>6, <3>1 DEF Replace, attempt, calls
  <2>7. CASE ReportReady \/ AttemptFailed \/ Retry \/ LeaveLoop
    BY <2>7 DEF ReportReady, AttemptFailed, Retry, LeaveLoop, links, attempt, calls
  <2> QED
    BY <1>7, <2>1, <2>2, <2>3, <2>4, <2>5, <2>6, <2>7 DEF Attempts
<1>8. CASE UNCHANGED vars
  BY <1>8 DEF vars
<1> QED
  BY <1>1, <1>2, <1>3, <1>4, <1>5, <1>6, <1>7, <1>8 DEF Next, Thread

\* RemoteHostSession's state keeps its type; every client it holds, marks
\* connected or hears the end of is one it made.
THEOREM SessionTypeCorrect == Spec => []TypeOK
<1>1. Honest => AtHand
  BY DEF Honest
<1> QED
  BY <1>1, InitType, NextType, AlwaysHonest, PTL DEF Spec

\* A session at rest is connected with a client or disconnected: an attempt that
\* is interrupted, times out or fails never leaves a state showing that promises
\* work no thread does.
THEOREM SessionRestsHonestly == Spec => []RestsHonestly
<1>1. Honest => RestsHonestly
  BY DEF Honest, Shown, AtHand, RestsHonestly, AtRest, Interrupted
<1> QED
  BY <1>1, AlwaysHonest, PTL
=============================================================================
