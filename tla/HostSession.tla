----------------------------- MODULE HostSession -----------------------------
(***************************************************************************)
(* project::remote::RemoteHostSession: the connection to one host.  A       *)
(* session thread (Run) serves one pending wake at a time; the user's       *)
(* Connect, Disconnect and the destructor, and the closed handler of a      *)
(* client's link, only set `pending'.  One attempt is a chain of blocking   *)
(* ssh calls, each a step here, between which anything may happen.          *)
(*                                                                          *)
(* Clients are numbered as they are created; 0 is no client.                *)
(***************************************************************************)
EXTENDS Naturals

CONSTANTS
    MaxClients,      \* bound: links ever brought up
    MaxConnects,     \* bound: calls of Connect (Remote: Reconnect, reopening)
    MaxDisconnects   \* bound: calls of Disconnect

ASSUME BoundsAssumption ==
    MaxClients \in Nat /\ MaxConnects \in Nat /\ MaxDisconnects \in Nat

States == {"Disconnected", "Connecting", "NeedsAuth", "StartingServer",
           "Installing", "Ready", "Reconnecting", "Offline"}
Wakes == {"None", "Connect", "Disconnect", "LinkDied", "Stop"}

\* Where the session thread is: at rest in Run, in a step of Attempt, in the
\* backoff of the LinkDied loop, in a step of Disconnect, or gone.
Places == {"rest", "master", "bringup", "auth", "starting", "installing",
           "greeted", "attached", "replaced", "failed", "backoff",
           "dropping", "failing", "reporting", "gone"}

VARIABLES
    pending,      \* pending_
    state,        \* status_.state, as last reported
    thread,       \* where the session thread is
    reconnecting, \* Attempt's argument
    looping,      \* Attempt was called by the LinkDied loop
    installed,    \* Attempt has run Install
    fresh,        \* the client StartServer returned, not yet in connection_
    client,       \* connection_->client()
    made,         \* clients made so far
    alive,        \* clients whose link works
    connected,    \* clients that set connected_
    told,         \* clients whose on_closed ran
    connects, disconnects   \* calls made

vars == <<pending, state, thread, reconnecting, looping, installed, fresh,
          client, made, alive, connected, told, connects, disconnects>>

Clients == 1..MaxClients

TypeOK ==
    /\ pending \in Wakes
    /\ state \in States
    /\ thread \in Places
    /\ reconnecting \in BOOLEAN /\ looping \in BOOLEAN /\ installed \in BOOLEAN
    /\ fresh \in 0..MaxClients /\ client \in 0..MaxClients /\ made \in 0..MaxClients
    /\ alive \subseteq Clients /\ connected \subseteq Clients /\ told \subseteq Clients
    /\ connects \in 0..MaxConnects /\ disconnects \in 0..MaxDisconnects

Init ==
    /\ pending = "None"
    /\ state = "Disconnected"
    /\ thread = "rest"
    /\ reconnecting = FALSE /\ looping = FALSE /\ installed = FALSE
    /\ fresh = 0 /\ client = 0 /\ made = 0
    /\ alive = {} /\ connected = {} /\ told = {}
    /\ connects = 0 /\ disconnects = 0

-----------------------------------------------------------------------------
(* Other threads.                                                            *)

links == <<fresh, client, made, alive, connected, told>>
attempt == <<reconnecting, looping, installed>>
calls == <<connects, disconnects>>

\* As Connect, over a pending Stop too.
ConnectAnyway ==
    /\ connects < MaxConnects
    /\ connects' = connects + 1
    /\ pending' = "Connect"
    /\ UNCHANGED <<state, thread, attempt, links, disconnects>>

Connect ==
    /\ connects < MaxConnects
    /\ connects' = connects + 1
    /\ pending' = IF pending = "Stop" THEN "Stop" ELSE "Connect"
    /\ UNCHANGED <<state, thread, attempt, links, disconnects>>

Disconnect ==
    /\ disconnects < MaxDisconnects
    /\ disconnects' = disconnects + 1
    /\ pending' = IF pending = "Stop" THEN "Stop" ELSE "Disconnect"
    /\ UNCHANGED <<state, thread, attempt, links, connects>>

\* ~RemoteHostSession: the link signal is cut, the thread told to stop.
Destroy ==
    /\ pending # "Stop"
    /\ pending' = "Stop"
    /\ UNCHANGED <<state, thread, attempt, links, calls>>

\* After the join: Replace(nullptr) and Stop, which runs no closed hook.
Destroyed ==
    /\ thread = "gone" /\ client # 0
    /\ client' = 0
    /\ alive' = alive \ {client}
    /\ told' = told \cup {client}
    /\ UNCHANGED <<pending, state, thread, attempt, fresh, made, connected, calls>>

\* LinkDied(): taken only when nothing else is pending.
LinkDied == IF pending = "None" THEN "LinkDied" ELSE pending

\* The link is cut, or three pings go unanswered: the transport will close.
LinkDies(c) ==
    /\ c \in alive
    /\ alive' = alive \ {c}
    /\ UNCHANGED <<pending, state, thread, attempt, fresh, client, made,
                   connected, told, calls>>

\* The client's on_closed, on its I/O thread: the session hears of it only from
\* a client that has set connected_, and only while the session exists.
Closed(c) ==
    /\ c <= made /\ c \notin alive /\ c \notin told
    /\ told' = told \cup {c}
    /\ pending' = IF c \in connected THEN LinkDied ELSE pending
    /\ UNCHANGED <<state, thread, attempt, fresh, client, made, alive,
                   connected, calls>>

-----------------------------------------------------------------------------
(* Run: the thread takes the pending wake.                                   *)

Take(wake) ==
    /\ thread = "rest" /\ pending = wake
    /\ pending' = IF wake = "Stop" THEN "Stop" ELSE "None"

\* As TakeConnect, with Offline among the states that need nothing.
TakeConnectOnline ==
    /\ Take("Connect")
    /\ IF state \in {"Ready", "Connecting", "Offline"}
       THEN UNCHANGED <<thread, attempt>>
       ELSE /\ thread' = "master"
            /\ reconnecting' = FALSE
            /\ looping' = FALSE
            /\ installed' = FALSE
    /\ UNCHANGED <<state, links, calls>>

TakeConnect ==
    /\ Take("Connect")
    /\ IF state \in {"Ready", "Connecting"}
       THEN UNCHANGED <<thread, attempt>>
       ELSE /\ thread' = "master"
            /\ reconnecting' = (state = "Offline")
            /\ looping' = FALSE
            /\ installed' = FALSE
    /\ UNCHANGED <<state, links, calls>>

TakeDisconnect ==
    /\ Take("Disconnect")
    /\ thread' = "dropping"
    /\ UNCHANGED <<state, attempt, links, calls>>

TakeLinkDied ==
    /\ Take("LinkDied")
    /\ IF state # "Ready"
       THEN UNCHANGED <<state, thread, attempt>>
       ELSE /\ state' = "Reconnecting"
            /\ thread' = "master"
            /\ reconnecting' = TRUE
            /\ looping' = TRUE
            /\ installed' = FALSE
    /\ UNCHANGED <<links, calls>>

TakeStop ==
    /\ Take("Stop")
    /\ thread' = "gone"
    /\ UNCHANGED <<state, attempt, links, calls>>

-----------------------------------------------------------------------------
(* Disconnect's three steps.                                                 *)

\* connection_->Replace(nullptr): host terminals and processes are let go.
Drop ==
    /\ thread = "dropping"
    /\ thread' = "failing"
    /\ fresh' = client
    /\ client' = 0
    /\ UNCHANGED <<pending, state, attempt, made, alive, connected, told, calls>>

\* As FailOld, without the test that there was a client.
FailOldUnchecked ==
    /\ thread = "failing"
    /\ thread' = "reporting"
    /\ alive' = alive \ {fresh}
    /\ told' = told \cup {fresh}
    /\ pending' = IF fresh \in connected \ told THEN LinkDied ELSE pending
    /\ fresh' = 0
    /\ UNCHANGED <<state, attempt, client, made, connected, calls>>

\* client->peer().Fail: on_closed runs here unless it already has.
FailOld ==
    /\ thread = "failing"
    /\ thread' = "reporting"
    /\ alive' = alive \ {fresh}
    /\ told' = told \cup (Clients \cap {fresh})
    /\ pending' = IF fresh \in connected \ told THEN LinkDied ELSE pending
    /\ fresh' = 0
    /\ UNCHANGED <<state, attempt, client, made, connected, calls>>

ReportDisconnected ==
    /\ thread = "reporting"
    /\ thread' = "rest"
    /\ state' = "Disconnected"
    /\ UNCHANGED <<pending, attempt, links, calls>>

-----------------------------------------------------------------------------
(* Attempt.                                                                  *)

\* It gave up: what it reported, if anything, is reported.
GiveUp(reported) ==
    /\ thread' = "failed"
    /\ state' = reported
    /\ UNCHANGED <<pending, attempt, links, calls>>

StartServer ==
    /\ thread' = "starting"
    /\ state' = IF reconnecting THEN "Reconnecting" ELSE "StartingServer"
    /\ UNCHANGED <<pending, attempt, links, calls>>

MasterAlive == thread = "master" /\ StartServer

MasterDown ==
    /\ thread = "master"
    /\ thread' = "bringup"
    /\ state' = IF reconnecting THEN "Reconnecting" ELSE "Connecting"
    /\ UNCHANGED <<pending, attempt, links, calls>>

MasterUp == thread = "bringup" /\ StartServer

NoMaster == thread = "bringup" /\ GiveUp("Disconnected")

NeedsAuth ==
    /\ thread = "bringup"
    /\ thread' = "auth"
    /\ state' = "NeedsAuth"
    /\ UNCHANGED <<pending, attempt, links, calls>>

\* As Interrupted, deaf to Disconnect.
InterruptedByConnect == pending \in {"Connect", "Stop"}

Interrupted == pending \in {"Connect", "Disconnect", "Stop"}

Authenticated == thread = "auth" /\ ~Interrupted /\ StartServer
AuthTimedOut == thread = "auth" /\ ~Interrupted /\ GiveUp("Disconnected")
AuthLeft == thread = "auth" /\ Interrupted /\ GiveUp(state)

\* The attach command ran and the server answered the hello.
Greeted ==
    /\ thread = "starting"
    /\ made < MaxClients
    /\ made' = made + 1
    /\ fresh' = made'
    /\ alive' = alive \cup {made'}
    /\ thread' = "greeted"
    /\ UNCHANGED <<pending, state, attempt, client, connected, told, calls>>

\* As MarkConnected, without connected_ = true.
MarkNothing ==
    /\ thread = "greeted"
    /\ thread' = "attached"
    /\ UNCHANGED <<pending, state, attempt, links, calls>>

\* Handshake's last line: connected_ = true, and StartServer returns the client.
MarkConnected ==
    /\ thread = "greeted"
    /\ connected' = connected \cup {fresh}
    /\ thread' = "attached"
    /\ UNCHANGED <<pending, state, attempt, fresh, client, made, alive, told, calls>>

NotStarted == thread = "starting" /\ GiveUp("Disconnected")

\* No server on the host, or one too old: install once and start again.
Install ==
    /\ thread = "starting" /\ ~installed
    /\ thread' = "installing"
    /\ state' = "Installing"
    /\ installed' = TRUE
    /\ UNCHANGED <<pending, reconnecting, looping, links, calls>>

InstallDone ==
    /\ thread = "installing"
    /\ thread' = "starting"
    /\ state' = "StartingServer"
    /\ UNCHANGED <<pending, attempt, links, calls>>

InstallFailed == thread = "installing" /\ GiveUp("Disconnected")

\* connection_->Replace(client), which reattaches what is tracked.
Replace ==
    /\ thread = "attached"
    /\ thread' = "replaced"
    /\ client' = fresh
    /\ fresh' = 0
    /\ UNCHANGED <<pending, state, attempt, made, alive, connected, told, calls>>

ReportReady ==
    /\ thread = "replaced"
    /\ thread' = "rest"
    /\ state' = "Ready"
    /\ UNCHANGED <<pending, attempt, links, calls>>

\* A failed attempt ends a Connect; the LinkDied loop reports Offline and waits.
AttemptFailed ==
    /\ thread = "failed"
    /\ IF looping
       THEN thread' = "backoff" /\ state' = "Offline"
       ELSE thread' = "rest" /\ UNCHANGED state
    /\ UNCHANGED <<pending, attempt, links, calls>>

\* WaitFor(delay) ran out: report Offline again and attempt.
Retry ==
    /\ thread = "backoff" /\ ~Interrupted
    /\ thread' = "master"
    /\ state' = "Offline"
    /\ installed' = FALSE
    /\ UNCHANGED <<pending, reconnecting, looping, links, calls>>

\* Woken by Connect, Disconnect or shutdown: the loop above decides.
LeaveLoop ==
    /\ thread = "backoff" /\ Interrupted
    /\ thread' = "rest"
    /\ UNCHANGED <<pending, state, attempt, links, calls>>

-----------------------------------------------------------------------------

Attempts ==
    \/ MasterAlive \/ MasterDown \/ MasterUp \/ NoMaster
    \/ NeedsAuth \/ Authenticated \/ AuthTimedOut \/ AuthLeft
    \/ Greeted \/ MarkConnected \/ NotStarted
    \/ Install \/ InstallDone \/ InstallFailed
    \/ Replace \/ ReportReady \/ AttemptFailed \/ Retry \/ LeaveLoop

Thread ==
    \/ TakeConnect \/ TakeDisconnect \/ TakeLinkDied \/ TakeStop
    \/ Drop \/ FailOld \/ ReportDisconnected
    \/ Attempts

Next ==
    \/ Connect \/ Disconnect \/ Destroy \/ Destroyed
    \/ \E c \in Clients : LinkDies(c) \/ Closed(c)
    \/ Thread

Spec == Init /\ [][Next]_vars

\* Every ssh call has a timeout, so the session thread always gets on; a closed
\* transport's I/O thread reports it.
FairSpec ==
    /\ Spec
    /\ WF_vars(Thread)
    /\ WF_vars(Destroyed)
    /\ \A c \in Clients : WF_vars(Closed(c))

-----------------------------------------------------------------------------
(* Properties.                                                               *)

AtRest == thread = "rest" /\ pending = "None"

\* A session with nothing left to do says so: it rests connected, with a client,
\* or disconnected - never in a state that promises work no thread is doing.
RestsHonestly ==
    AtRest => \/ state = "Ready" /\ client # 0
              \/ state = "Disconnected"

\* The session is Ready on a client whose link is dead.
ReadyOnDead == state = "Ready" /\ client # 0 /\ client \notin alive

\* A link that dies while the session is connected is noticed: the session does
\* not stay Ready on a dead client, whatever wakes, retries and disconnects come
\* between. Two cases are excused: a Connect that takes LinkDied's place in the
\* one slot of pending_, and a client told of its death before its Handshake had
\* set connected_.
DeadLinkNoticed ==
    ReadyOnDead /\ client \notin told ~> ~ReadyOnDead \/ pending = "Connect"

\* Disconnect is carried out whatever the thread is in the middle of, unless a
\* later Connect or the destructor takes its place.
DisconnectObeyed ==
    pending = "Disconnect"
        ~> \/ state = "Disconnected" /\ client = 0
           \/ pending \in {"Connect", "Stop"}

\* The destructor's join returns, from whatever the thread was in the middle of,
\* and no client outlives the session in connection_.
StopJoins == pending = "Stop" ~> thread = "gone" /\ client = 0
=============================================================================
