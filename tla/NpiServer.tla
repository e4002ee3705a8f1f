----------------------------- MODULE NpiServer ------------------------------
(***************************************************************************)
(* The NPI server (app_main.c), which shares one serial port among the     *)
(* programs that connect to it.  Each connection has two threads: one      *)
(* takes requests from the socket to the port, the other indications from  *)
(* the port to the socket.  A thread of the port gives every indication to *)
(* all connections on the list.  The two threads of a connection end it    *)
(* together: the flags is_dead and u2s_busy are read and written without a *)
(* lock, and the one destroys what the other uses.  Each step on the list  *)
(* of connections is what is done under its lock.                          *)
(***************************************************************************)
EXTENDS Naturals, Sequences, SequencesExt

CONSTANTS
  MaxClients,
  Limits    \* bounds: connections that are accepted, and messages that come from the
            \* port unasked

ASSUME NpiAssumption ==
  /\ MaxClients \in Nat
  /\ Limits \subseteq [clients : 0 .. MaxClients, indications : Nat]

\* connection_id.
Clients == 1 .. MaxClients
NoClient == 0

VARIABLES
  limit,       \* never changes
  uartError,   \* STREAM_isError of the port
  uartAlive, serverAlive,
  indications, \* how many have come
  conns,       \* all_connections
  stored,      \* thread_id_s2u has been stored
  u2s, s2u,    \* where the threads of each connection are
  dead, u2sBusy,
  areqs,       \* areq_list
  inHand,      \* what the u2s thread has taken from it
  uartOwner,   \* uart_mutex
  \* History.
  since,       \* how many indications had come when a connection was listed
  told,        \* what was sent to the client
  unseen       \* s2u was looked for before its handle was stored

serverVars == <<limit, uartError, uartAlive, serverAlive, indications>>
u2sVars == <<u2s, u2sBusy, inHand, told, unseen>>
npiVars == <<serverVars, u2sVars, conns, stored, s2u, dead, areqs, uartOwner, since>>

NpiInit ==
  /\ limit \in Limits
  /\ uartError = FALSE /\ uartAlive = TRUE /\ serverAlive = TRUE
  /\ indications = 0 /\ conns = <<>> /\ stored = [c \in Clients |-> FALSE]
  /\ u2s = [c \in Clients |-> "none"] /\ s2u = [c \in Clients |-> "none"]
  /\ dead = [c \in Clients |-> FALSE] /\ u2sBusy = [c \in Clients |-> FALSE]
  /\ areqs = [c \in Clients |-> <<>>] /\ inHand = [c \in Clients |-> 0]
  /\ uartOwner = NoClient
  /\ since = [c \in Clients |-> 0] /\ told = [c \in Clients |-> <<>>]
  /\ unseen = [c \in Clients |-> FALSE]

-----------------------------------------------------------------------------
(* server_thread: a connection is listed, then its threads are created;    *)
(* the handle of the second is stored when THREAD_create returns.          *)

Accepting == serverAlive /\ \A d \in Clients : u2s[d] # "none" => stored[d]

Accept(c) ==
  /\ Accepting /\ c <= limit.clients /\ \A d \in Clients : u2s[d] = "none" <=> d >= c
  /\ conns' = <<c>> \o conns
  /\ since' = [since EXCEPT ![c] = indications]
  /\ u2s' = [u2s EXCEPT ![c] = "start"] /\ s2u' = [s2u EXCEPT ![c] = "start"]
  /\ UNCHANGED <<serverVars, stored, dead, u2sBusy, areqs, inHand, uartOwner, told, unseen>>

StoreS2u(c) ==
  /\ u2s[c] # "none" /\ ~stored[c]
  /\ stored' = [stored EXCEPT ![c] = TRUE]
  /\ UNCHANGED <<serverVars, u2sVars, conns, s2u, dead, areqs, uartOwner, since>>

\* The listening socket has failed.
ServerEnds ==
  /\ Accepting /\ serverAlive' = FALSE
  /\ UNCHANGED <<limit, uartError, uartAlive, indications, u2sVars, conns, stored, s2u, dead, areqs,
                 uartOwner, since>>

\* APP_main, once neither of the two threads is alive.
MarkDead ==
  /\ ~uartAlive /\ ~serverAlive /\ \E c \in ToSet(conns) : ~dead[c]
  /\ dead' = [c \in Clients |-> dead[c] \/ c \in ToSet(conns)]
  /\ UNCHANGED <<serverVars, u2sVars, conns, stored, s2u, areqs, uartOwner, since>>

-----------------------------------------------------------------------------
(* uart_thread.                                                            *)

\* MUTANT: the last connection on the list is given nothing.
GiveClones ==
  /\ uartAlive /\ ~uartError /\ indications < limit.indications
  /\ indications' = indications + 1
  /\ areqs' = [c \in Clients |-> IF c \in ToSet(conns) /\ c # Last(conns)
                                 THEN Append(areqs[c], indications') ELSE areqs[c]]
  /\ UNCHANGED <<limit, uartError, uartAlive, serverAlive, u2sVars, conns, stored, s2u, dead,
                 uartOwner, since>>

\* A clone to each connection but the last, which is given the message itself.
Give ==
  /\ uartAlive /\ ~uartError /\ indications < limit.indications
  /\ indications' = indications + 1
  /\ areqs' = [c \in Clients |-> IF c \in ToSet(conns)
                                 THEN Append(areqs[c], indications') ELSE areqs[c]]
  /\ UNCHANGED <<limit, uartError, uartAlive, serverAlive, u2sVars, conns, stored, s2u, dead,
                 uartOwner, since>>

UartEnds ==
  /\ uartAlive /\ uartError /\ uartAlive' = FALSE
  /\ UNCHANGED <<limit, uartError, serverAlive, indications, u2sVars, conns, stored, s2u, dead,
                 areqs, uartOwner, since>>

UartFails ==
  /\ ~uartError /\ uartError' = TRUE
  /\ UNCHANGED <<limit, uartAlive, serverAlive, indications, u2sVars, conns, stored, s2u, dead,
                 areqs, uartOwner, since>>

-----------------------------------------------------------------------------
(* u2s_thread, from the port to the socket.                                *)

U2s(c, from, to) ==
  /\ u2s[c] = from /\ u2s' = [u2s EXCEPT ![c] = to]
  /\ UNCHANGED <<serverVars, stored, s2u, uartOwner, since>>

UartReady(c) == u2s[c] \notin {"none", "start"}
SocketReady(c) == s2u[c] \notin {"none", "start"}

U2sReady(c) ==
  /\ U2s(c, "start", "wait")
  /\ UNCHANGED <<conns, dead, u2sBusy, areqs, inHand, told, unseen>>

\* MUTANT: it is not marked as busy.
U2sBeginIdle(c) ==
  /\ SocketReady(c) /\ U2s(c, "wait", "check")
  /\ UNCHANGED <<conns, dead, u2sBusy, areqs, inHand, told, unseen>>

U2sBegin(c) ==
  /\ SocketReady(c) /\ U2s(c, "wait", "check")
  /\ u2sBusy' = [u2sBusy EXCEPT ![c] = TRUE]
  /\ UNCHANGED <<conns, dead, areqs, inHand, told, unseen>>

\* An error of the port ends the connection.
U2sCheck(c) ==
  /\ dead' = [dead EXCEPT ![c] = @ \/ uartError]
  /\ U2s(c, "check", IF dead'[c] THEN "join" ELSE "remove")
  /\ u2sBusy' = [u2sBusy EXCEPT ![c] = @ /\ ~dead'[c]]
  /\ UNCHANGED <<conns, areqs, inHand, told, unseen>>

\* The wait for an indication ends with one or without.  What was taken for a connection
\* that has died meanwhile is not sent.
U2sRemove(c) ==
  /\ areqs' = [areqs EXCEPT ![c] = IF @ = <<>> THEN @ ELSE Tail(@)]
  /\ U2s(c, "remove", IF dead[c] \/ areqs[c] = <<>> THEN "check" ELSE "send")
  /\ inHand' = [inHand EXCEPT ![c] = IF u2s'[c] = "send" THEN Head(areqs[c]) ELSE 0]
  /\ UNCHANGED <<conns, dead, u2sBusy, told, unseen>>

U2sSend(c) ==
  /\ U2s(c, "send", "check")
  /\ told' = [told EXCEPT ![c] = Append(@, inHand[c])]
  /\ inHand' = [inHand EXCEPT ![c] = 0]
  /\ UNCHANGED <<conns, dead, u2sBusy, areqs, unseen>>

\* THREAD_isAlive, which is false of a handle that has not been stored.
U2sJoin(c) ==
  /\ ~stored[c] \/ s2u[c] = "ended"
  /\ U2s(c, "join", "unlink")
  /\ unseen' = [unseen EXCEPT ![c] = ~stored[c]]
  /\ UNCHANGED <<conns, dead, u2sBusy, areqs, inHand, told>>

U2sFree(c) ==
  /\ U2s(c, "unlink", "freed")
  /\ \E i \in DOMAIN conns : conns[i] = c /\ conns' = RemoveAt(conns, i)
  /\ UNCHANGED <<dead, u2sBusy, areqs, inHand, told, unseen>>

U2sStep(c) ==
  \/ U2sReady(c) \/ U2sBegin(c) \/ U2sCheck(c) \/ U2sRemove(c) \/ U2sSend(c)
  \/ U2sJoin(c) \/ U2sFree(c)

-----------------------------------------------------------------------------
(* s2u_thread, from the socket to the port.                                *)

S2u(c, from, to) ==
  /\ s2u[c] = from /\ s2u' = [s2u EXCEPT ![c] = to]
  /\ UNCHANGED <<serverVars, u2sVars, conns, stored, areqs, since>>

\* The interface of the socket is there.
S2uReady(c) ==
  /\ S2u(c, "start", "wait")
  /\ UNCHANGED <<dead, uartOwner>>

S2uBegin(c) ==
  /\ UartReady(c) /\ S2u(c, "wait", "check")
  /\ UNCHANGED <<dead, uartOwner>>

\* The socket may have failed, or the port.
S2uCheck(c) ==
  /\ \E socketDead \in BOOLEAN : dead' = [dead EXCEPT ![c] = @ \/ socketDead \/ uartError]
  /\ S2u(c, "check", IF dead'[c] THEN "leave" ELSE "remove")
  /\ UNCHANGED uartOwner

\* Nothing has come, or a message to which there is no answer, which goes to the port without
\* its lock; or a request.
S2uRemove(c) ==
  /\ \E to \in {"check", "lock"} : S2u(c, "remove", to)
  /\ UNCHANGED <<dead, uartOwner>>

\* A request is kept back until the answer to another one has come.
LockUart(c) ==
  /\ uartOwner = NoClient /\ S2u(c, "lock", "txrx")
  /\ uartOwner' = c
  /\ UNCHANGED dead

\* MUTANT: the lock is kept, as by an early return when there is no answer.
ForwardSreqKeeps(c) ==
  /\ S2u(c, "txrx", "check")
  /\ UNCHANGED <<dead, uartOwner>>

\* The request and its answer, or a timeout.
ForwardSreq(c) ==
  /\ S2u(c, "txrx", "check")
  /\ uartOwner' = NoClient
  /\ UNCHANGED dead

\* MUTANT: it does not wait for the other thread.
S2uEndAtOnce(c) ==
  /\ S2u(c, "leave", "ended")
  /\ UNCHANGED <<dead, uartOwner>>

S2uEnd(c) ==
  /\ ~u2sBusy[c] /\ S2u(c, "leave", "ended")
  /\ UNCHANGED <<dead, uartOwner>>

S2uStep(c) ==
  \/ S2uReady(c) \/ S2uBegin(c) \/ S2uCheck(c) \/ S2uRemove(c) \/ LockUart(c)
  \/ ForwardSreq(c) \/ S2uEnd(c)

-----------------------------------------------------------------------------
NpiNext ==
  \/ Give \/ UartEnds \/ UartFails \/ ServerEnds \/ MarkDead
  \/ \E c \in Clients : Accept(c) \/ StoreS2u(c) \/ U2sStep(c) \/ S2uStep(c)

\* Threads run; and each that waits for the lock of the port is given it.
NpiFairness ==
  /\ WF_npiVars(UartEnds) /\ WF_npiVars(MarkDead)
  /\ \A c \in Clients :
       /\ WF_npiVars(StoreS2u(c)) /\ WF_npiVars(U2sStep(c))
       /\ WF_npiVars(S2uStep(c)) /\ SF_npiVars(LockUart(c))

NpiSpec == NpiInit /\ [][NpiNext]_npiVars /\ NpiFairness

-----------------------------------------------------------------------------
NpiTypeOK ==
  /\ conns \in Seq(Clients) /\ IsInjective(conns)
  /\ u2s \in [Clients -> {"none", "start", "wait", "check", "remove", "send", "join",
                          "unlink", "freed"}]
  /\ s2u \in [Clients -> {"none", "start", "wait", "check", "remove", "lock", "txrx",
                          "leave", "ended"}]
  /\ uartOwner \in Clients \cup {NoClient}

\* What one thread of a connection uses, the other has made and not yet destroyed or freed:
\* the flags, set and read in opposite orders, are enough of a lock (u2s_thread and
\* s2u_thread).  Only when the handle of the s2u thread had not been stored, the u2s thread
\* may not have waited for it.
UsedWhileThere ==
  \A c \in Clients :
    /\ u2s[c] = "send" => SocketReady(c) /\ s2u[c] # "ended"
    /\ u2s[c] = "freed" /\ ~unseen[c] =>
         s2u[c] = "ended" /\ stored[c] /\ c \notin ToSet(conns)

\* A connection is told each indication once and in their order, from the first one after
\* it was listed on (uart_thread and u2s_thread).
ToldInOrder ==
  \A c \in Clients :
    ~dead[c] /\ u2s[c] # "none" =>
      told[c] \o (IF inHand[c] = 0 THEN <<>> ELSE <<inHand[c]>>) \o areqs[c] =
        [i \in 1 .. indications - since[c] |-> since[c] + i]

\* A connection that has died, or whose port has, is freed, whatever its threads were
\* waiting for.
EndedAreFreed ==
  \A c \in Clients : dead[c] \/ (uartError /\ u2s[c] # "none") ~> u2s[c] = "freed"
=============================================================================
