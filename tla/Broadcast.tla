------------------------------ MODULE Broadcast ------------------------------
(***************************************************************************)
(* The connections of the web clients (appsrv.c): each has a thread that   *)
(* serves it until its socket dies and then takes it off the list and      *)
(* frees it, while the collector's thread and the connections' own threads *)
(* broadcast messages to all that are on the list.                         *)
(*                                                                         *)
(* A broadcast goes through the list from its head for every connection,   *)
(* since the list may change while it sends without the lock; the flag     *)
(* is_busy says which connections are done, and the end of a connection    *)
(* waits for it.  The flags are read and written without the lock by the   *)
(* connections' threads, so the two steps in which a broadcast looks at a  *)
(* connection and marks it are two steps here.  Every other locked section *)
(* is one: the lock is that of module Mutex.                               *)
(***************************************************************************)
EXTENDS Naturals, Sequences, SequencesExt

CONSTANTS
  Connections,     \* connections that may be accepted, each once
  Collector,       \* the collector's thread
  MaxBroadcasts,   \* bound: how many messages are broadcast
  None

ASSUME CollectorAssumption == Collector \notin Connections
ASSUME NoneAssumption == None \notin Connections \cup {Collector}
ASSUME BroadcastsAssumption == MaxBroadcasts \in Nat

Threads == Connections \cup {Collector}   \* a connection stands for its thread

VARIABLES
  list,        \* all_connections
  state,       \* where the thread of a connection is
  socketDead,  \* socket_interface.is_dead
  isDead, isBusy,
  lock,        \* all_connections_mutex, between a look and its mark
  at,          \* where the broadcast of a thread is
  pCONN,       \* the connection it has chosen
  sent,        \* how many broadcasts have begun
  \* History, for the properties.
  got,         \* the connections the broadcast of a thread was sent to
  began,       \* those that were on the list when it began
  overlapped,  \* whether another broadcast ran at the same time
  late         \* whether its connection was dead when it was marked

connVars == <<list, state, socketDead, isDead>>
history == <<got, began, overlapped, late>>
vars == <<list, state, socketDead, isDead, isBusy, lock, at, pCONN, sent, history>>

Listed == ToSet(list)
OnTheList == {"serve", "wait", "unlink"}

\* The list holds the connections whose threads have entered them and not yet
\* taken them off, once each.
TypeOK ==
  /\ list \in Seq(Connections) /\ IsInjective(list)
  /\ Listed = {c \in Connections : state[c] \in OnTheList}
  /\ state \in [Connections -> {"none", "free", "freed"} \cup OnTheList]
  /\ socketDead \in [Connections -> BOOLEAN]
  /\ isDead \in [Connections -> BOOLEAN]
  /\ isBusy \in [Connections -> BOOLEAN]
  /\ lock \in Threads \cup {None}
  /\ at \in [Threads -> {"idle", "scan", "mark", "send", "finish"}]
  /\ pCONN \in [Threads -> Connections \cup {None}]
  /\ sent \in 0 .. MaxBroadcasts
  /\ got \in [Threads -> SUBSET Connections]
  /\ began \in [Threads -> SUBSET Connections]
  /\ overlapped \in [Threads -> BOOLEAN] /\ late \in [Threads -> BOOLEAN]

Init ==
  /\ list = <<>>
  /\ state = [c \in Connections |-> "none"]
  /\ socketDead = [c \in Connections |-> FALSE]
  /\ isDead = [c \in Connections |-> FALSE]
  /\ isBusy = [c \in Connections |-> FALSE]
  /\ lock = None
  /\ at = [t \in Threads |-> "idle"]
  /\ pCONN = [t \in Threads |-> None]
  /\ sent = 0
  /\ got = [t \in Threads |-> {}] /\ began = [t \in Threads |-> {}]
  /\ overlapped = [t \in Threads |-> FALSE] /\ late = [t \in Threads |-> FALSE]

-----------------------------------------------------------------------------
(* appsrv_broadcast.                                                       *)

\* A thread that may broadcast: the collector's at any time, a connection's
\* while it handles a request.
MayBroadcast(t) == t = Collector \/ (t \in Connections /\ state[t] = "serve")

Broadcasting == {t \in Threads : at[t] # "idle"}

\* The history of a broadcast that is over.
Forget(t) ==
  /\ got' = [got EXCEPT ![t] = {}] /\ began' = [began EXCEPT ![t] = {}]
  /\ overlapped' = [overlapped EXCEPT ![t] = FALSE]
  /\ late' = [late EXCEPT ![t] = FALSE]

\* All connections are marked as ready.
Begin(t) ==
  /\ at[t] = "idle" /\ MayBroadcast(t) /\ sent < MaxBroadcasts
  /\ lock = None
  /\ isBusy' = [c \in Connections |-> c \notin Listed /\ isBusy[c]]
  /\ at' = [at EXCEPT ![t] = "scan"]
  /\ sent' = sent + 1
  /\ began' = [began EXCEPT ![t] = Listed]
  /\ overlapped' = [u \in Threads |-> IF u = t THEN Broadcasting # {}
                                      ELSE overlapped[u] \/ u \in Broadcasting]
  /\ UNCHANGED <<connVars, lock, pCONN, got, late>>

\* MUTANT: the scan ends at a dead connection.
ReadyUntilDead == {i \in DOMAIN list : /\ ~isBusy[list[i]]
                                       /\ \A j \in 1 .. i : ~isDead[list[j]]}

\* The places of the connections that are neither dead nor done.
Ready == {i \in DOMAIN list : ~isDead[list[i]] /\ ~isBusy[list[i]]}

\* The first connection that is ready is chosen, and the lock kept.
Choose(t) ==
  /\ at[t] = "scan" /\ lock = None
  /\ \E i \in Ready :
       /\ \A j \in Ready : i <= j
       /\ pCONN' = [pCONN EXCEPT ![t] = list[i]]
  /\ at' = [at EXCEPT ![t] = "mark"]
  /\ lock' = t
  /\ UNCHANGED <<connVars, isBusy, sent, history>>

\* There is none left.
ChooseNone(t) ==
  /\ at[t] = "scan" /\ lock = None
  /\ Ready = {}
  /\ at' = [at EXCEPT ![t] = "finish"]
  /\ UNCHANGED <<connVars, isBusy, lock, pCONN, sent, history>>

\* MUTANT: the connection is not marked.
MarkNot(t) ==
  /\ at[t] = "mark"
  /\ at' = [at EXCEPT ![t] = "send"]
  /\ lock' = None
  /\ UNCHANGED <<connVars, isBusy, pCONN, sent, history>>

\* The chosen connection is marked, and the lock released.
Mark(t) ==
  /\ at[t] = "mark"
  /\ isBusy' = [isBusy EXCEPT ![pCONN[t]] = TRUE]
  /\ at' = [at EXCEPT ![t] = "send"]
  /\ lock' = None
  /\ late' = [late EXCEPT ![t] = isDead[pCONN[t]]]
  /\ UNCHANGED <<connVars, pCONN, sent, got, began, overlapped>>

\* The message is sent without the lock, which takes as long as the socket lets it.
Send(t) ==
  /\ at[t] = "send"
  /\ got' = [got EXCEPT ![t] = @ \cup {pCONN[t]}]
  /\ pCONN' = [pCONN EXCEPT ![t] = None]
  /\ at' = [at EXCEPT ![t] = "scan"]
  /\ UNCHANGED <<connVars, isBusy, lock, sent, began, overlapped, late>>

\* MUTANT: the marks are left.
FinishMarked(t) ==
  /\ at[t] = "finish" /\ lock = None
  /\ at' = [at EXCEPT ![t] = "idle"]
  /\ UNCHANGED <<connVars, isBusy, lock, pCONN, sent, history>>

\* All connections are marked as idle.
Finish(t) ==
  /\ at[t] = "finish" /\ lock = None
  /\ isBusy' = [c \in Connections |-> c \notin Listed /\ isBusy[c]]
  /\ at' = [at EXCEPT ![t] = "idle"]
  /\ Forget(t)
  /\ UNCHANGED <<connVars, lock, pCONN, sent>>

-----------------------------------------------------------------------------
(* The threads of the connections.                                         *)

\* The server accepts a client, whose new thread enters the connection at the
\* head of the list.
Accept(c) ==
  /\ state[c] = "none" /\ lock = None
  /\ list' = <<c>> \o list
  /\ state' = [state EXCEPT ![c] = "serve"]
  /\ isBusy' = [isBusy EXCEPT ![c] = FALSE]
  /\ UNCHANGED <<socketDead, isDead, lock, at, pCONN, sent, history>>

\* The client closes its socket.
SocketDies(c) ==
  /\ state[c] = "serve" /\ ~socketDead[c]
  /\ socketDead' = [socketDead EXCEPT ![c] = TRUE]
  /\ UNCHANGED <<list, state, isDead, isBusy, lock, at, pCONN, sent, history>>

\* The thread, between two requests, sees that it is over.
Over(c) ==
  /\ state[c] = "serve" /\ at[c] = "idle"
  /\ isDead[c] \/ socketDead[c]
  /\ isDead' = [isDead EXCEPT ![c] = TRUE]
  /\ state' = [state EXCEPT ![c] = "wait"]
  /\ UNCHANGED <<list, socketDead, isBusy, lock, at, pCONN, sent, history>>

\* It has waited until no broadcast has marked it.
Waited(c) ==
  /\ state[c] = "wait" /\ ~isBusy[c]
  /\ state' = [state EXCEPT ![c] = "unlink"]
  /\ UNCHANGED <<list, socketDead, isDead, isBusy, lock, at, pCONN, sent, history>>

Unlink(c) ==
  /\ state[c] = "unlink" /\ lock = None
  /\ \E i \in DOMAIN list : list[i] = c /\ list' = RemoveAt(list, i)
  /\ state' = [state EXCEPT ![c] = "free"]
  /\ UNCHANGED <<socketDead, isDead, isBusy, lock, at, pCONN, sent, history>>

\* The interface and the socket are destroyed and the connection is freed.
Free(c) ==
  /\ state[c] = "free"
  /\ state' = [state EXCEPT ![c] = "freed"]
  /\ UNCHANGED <<list, socketDead, isDead, isBusy, lock, at, pCONN, sent, history>>

\* The collector's thread or the server's has ended, and APP_main marks all
\* connections as dead.
Stop ==
  /\ lock = None
  /\ \E c \in Listed : ~isDead[c]
  /\ isDead' = [c \in Connections |-> c \in Listed \/ isDead[c]]
  /\ UNCHANGED <<list, state, socketDead, isBusy, lock, at, pCONN, sent, history>>

-----------------------------------------------------------------------------
BroadcastStep(t) == Choose(t) \/ ChooseNone(t) \/ Mark(t) \/ Send(t) \/ Finish(t)
EndStep(c) == Over(c) \/ Waited(c) \/ Unlink(c) \/ Free(c)

Next ==
  \/ \E t \in Threads : Begin(t) \/ BroadcastStep(t)
  \/ \E c \in Connections : Accept(c) \/ SocketDies(c) \/ EndStep(c)
  \/ Stop

\* Threads run, but nothing says that a socket takes a message in the end.  That
\* one which waits for the lock gets it need not be asked for, since the broadcasts
\* are bounded.
Fairness ==
  /\ \A t \in Threads : WF_vars(at[t] # "send" /\ BroadcastStep(t))
  /\ \A c \in Connections : WF_vars(EndStep(c))

Spec == Init /\ [][Next]_vars /\ Fairness

-----------------------------------------------------------------------------
\* A broadcast that runs alone is sent once to a connection: it starts again
\* from the head of the list after every one, and the marks are all it has to
\* tell which are done.
OnceEach ==
  [][\A t \in Threads : Send(t) /\ ~overlapped[t] => pCONN[t] \notin got[t]]_vars

\* A broadcast that runs alone reaches every connection that was on the list
\* when it began and has not died since, although others come and go.
ReachesAll ==
  \A t \in Threads : at[t] = "finish" /\ ~overlapped[t] =>
    \A c \in began[t] \cap Listed : isDead[c] \/ c \in got[t]

\* A broadcast that runs alone sends to a connection that has been freed only
\* if its thread ended between the look and the mark: the interlock of is_busy
\* (appsrv.c:1002) covers every other order.
FreedOnlyIfLate ==
  \A t \in Threads : at[t] = "send" /\ state[pCONN[t]] \in {"free", "freed"} =>
    overlapped[t] \/ late[t]

\* A connection that is over, since its socket has died or since it was marked as
\* dead, is freed in the end: no broadcast leaves the mark on it that its thread waits
\* for (appsrv.c:1012), unless a message to some client is being sent for ever.
DeadAreFreed ==
  \/ \A c \in Connections :
       state[c] \in {"serve", "wait"} /\ (isDead[c] \/ socketDead[c]) ~> state[c] = "freed"
  \/ \E t \in Threads : <>[](at[t] = "send")
=============================================================================
