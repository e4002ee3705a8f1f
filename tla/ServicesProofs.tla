---------------------------- MODULE ServicesProofs ----------------------------
(***************************************************************************)
(* The services beside the gateway.  NpiServer: for any number of clients  *)
(* and indications, connections are freed only when nobody uses them, and  *)
(* each client is told everything in order.  BootLoader: for any file,     *)
(* flash, buffer and line, a file that was verified is in the flash.       *)
(***************************************************************************)
EXTENDS NpiServer, BootLoader, SequenceTheorems, TLAPS

-----------------------------------------------------------------------------
(* The list of connections.                                                *)

\* What is left after an element has been taken out of a list that holds it once.
LEMMA TakenOut ==
  ASSUME NEW S, NEW s \in Seq(S), IsInjective(s), NEW i \in DOMAIN s
  PROVE  /\ RemoveAt(s, i) \in Seq(S) /\ IsInjective(RemoveAt(s, i))
         /\ ToSet(RemoveAt(s, i)) = ToSet(s) \ {s[i]}
<1> DEFINE t == RemoveAt(s, i)
<1>1. /\ t \in Seq(S) /\ Len(t) = Len(s) - 1
      /\ \A j \in 1 .. Len(t) : t[j] = IF j < i THEN s[j] ELSE s[j + 1]
  <2> DEFINE a == SubSeq(s, 1, i - 1)
             b == SubSeq(s, i + 1, Len(s))
  <2>1. /\ a \in Seq(S) /\ Len(a) = i - 1 /\ i \in 1 .. Len(s) /\ Len(s) \in Nat
        /\ \A j \in 1 .. i - 1 : a[j] = s[j]
    OBVIOUS
  <2>2. b \in Seq(S) /\ Len(b) = Len(s) - i /\ \A j \in 1 .. Len(s) - i : b[j] = s[i + j]
    OBVIOUS
  <2>3. t = a \o b
    BY DEF RemoveAt
  <2> HIDE DEF a, b, t
  <2>4. t \in Seq(S) /\ Len(t) = Len(s) - 1
    BY <2>1, <2>2, <2>3
  <2>5. ASSUME NEW j \in 1 .. Len(t) PROVE t[j] = IF j < i THEN s[j] ELSE s[j + 1]
    <3>1. t[j] = IF j <= Len(a) THEN a[j] ELSE b[j - Len(a)]
      BY SMTT(30), <2>1, <2>2, <2>3, <2>4
    <3>2. CASE j < i
      BY <2>1, <2>4, <3>1, <3>2
    <3>3. CASE ~(j < i)
      <4>1. j - (i - 1) \in 1 .. Len(s) - i /\ i + (j - (i - 1)) = j + 1 /\ ~(j <= Len(a))
        BY <2>1, <2>4, <3>3
      <4>2. b[j - (i - 1)] = s[j + 1]
        BY <2>2, <4>1
      <4> QED
        BY <2>1, <3>1, <3>3, <4>1, <4>2
    <3> QED
      BY <3>2, <3>3
  <2> QED
    BY <2>4, <2>5
<1> HIDE DEF t
<1>2. DOMAIN s = 1 .. Len(s) /\ DOMAIN t = 1 .. Len(t) /\ Len(s) \in Nat /\ Len(t) \in Nat
  BY <1>1
<1>3. IsInjective(t)
  BY SMTT(30), <1>1, <1>2 DEF IsInjective
<1>4. ASSUME NEW j \in DOMAIN t PROVE t[j] \in ToSet(s) \ {s[i]}
  BY SMTT(30), <1>1, <1>2 DEF IsInjective, ToSet
<1>5. ASSUME NEW j \in DOMAIN s, s[j] # s[i] PROVE s[j] \in ToSet(t)
  <2>1. CASE j < i
    BY <1>1, <1>2, <2>1 DEF ToSet
  <2>2. CASE i < j
    <3>1. j - 1 \in DOMAIN t /\ t[j - 1] = s[j]
      BY <1>1, <1>2, <2>2
    <3> QED
      BY <3>1 DEF ToSet
  <2> QED
    BY <1>2, <1>5, <2>1, <2>2
<1>6. ToSet(t) = ToSet(s) \ {s[i]}
  BY <1>4, <1>5 DEF ToSet
<1> QED
  BY <1>1, <1>3, <1>6 DEF t

\* A connection is put before the others.
LEMMA PutBefore ==
  ASSUME NEW S, NEW s \in Seq(S), IsInjective(s), NEW e \in S, e \notin ToSet(s)
  PROVE  /\ <<e>> \o s \in Seq(S) /\ IsInjective(<<e>> \o s)
         /\ ToSet(<<e>> \o s) = ToSet(s) \cup {e}
<1> DEFINE t == <<e>> \o s
<1>1. /\ t \in Seq(S) /\ Len(t) = Len(s) + 1 /\ t[1] = e
      /\ \A j \in 1 .. Len(s) : t[j + 1] = s[j]
  OBVIOUS
<1> HIDE DEF t
<1>2. DOMAIN s = 1 .. Len(s) /\ DOMAIN t = 1 .. Len(t) /\ Len(s) \in Nat
  BY <1>1
<1>3. \A j \in DOMAIN t : j = 1 \/ (j - 1 \in DOMAIN s /\ t[j] = s[j - 1])
  BY <1>1, <1>2
<1>4. IsInjective(t)
  BY SMTT(30), <1>1, <1>2, <1>3 DEF IsInjective, ToSet
<1>5. ToSet(t) = ToSet(s) \cup {e}
  <2>1. \A j \in DOMAIN t : t[j] \in ToSet(s) \cup {e}
    BY <1>1, <1>3 DEF ToSet
  <2>2. \A j \in DOMAIN s : j + 1 \in DOMAIN t /\ t[j + 1] = s[j]
    BY <1>1, <1>2
  <2>3. 1 \in DOMAIN t
    BY <1>1, <1>2
  <2> QED
    BY <1>1, <2>1, <2>2, <2>3 DEF ToSet
<1> QED
  BY <1>1, <1>4, <1>5 DEF t

-----------------------------------------------------------------------------
(* The two threads of a connection.                                        *)

NpiTypes ==
  /\ NpiTypeOK
  /\ dead \in [Clients -> BOOLEAN] /\ u2sBusy \in [Clients -> BOOLEAN]
  /\ stored \in [Clients -> BOOLEAN] /\ unseen \in [Clients -> BOOLEAN]

\* A connection is listed from its birth until it is freed.
ListedUntilFreed ==
  \A c \in Clients :
    /\ u2s[c] = "none" <=> s2u[c] = "none"
    /\ u2s[c] = "none" => ~stored[c]
    /\ c \in ToSet(conns) <=> u2s[c] \notin {"none", "freed"}

\* The u2s thread is marked as busy as long as it uses the connection, and the s2u thread
\* leaves only a connection that is dead.
BusyWhileUsed ==
  \A c \in Clients :
    /\ u2s[c] \in {"check", "remove", "send"} => u2sBusy[c] /\ SocketReady(c)
    /\ s2u[c] \in {"leave", "ended"} => dead[c]
    /\ u2s[c] \in {"remove", "send"} => s2u[c] # "ended"
    /\ u2s[c] \in {"unlink", "freed"} /\ ~unseen[c] => s2u[c] = "ended" /\ stored[c]

NpiInv == NpiTypes /\ ListedUntilFreed /\ BusyWhileUsed

LEMMA InitNpiInv == NpiInit => NpiInv
<1> SUFFICES ASSUME NpiInit PROVE NpiInv
  OBVIOUS
<1>1. conns \in Seq(Clients) /\ IsInjective(conns) /\ ToSet(conns) = {}
  BY DEF NpiInit, IsInjective, ToSet
<1> QED
  BY <1>1 DEF NpiInit, NpiInv, NpiTypes, NpiTypeOK, ListedUntilFreed, BusyWhileUsed, NoClient

LEMMA U2sInv ==
  ASSUME NpiInv, NEW c \in Clients, U2sStep(c)
  PROVE  NpiInv'
<1> USE DEF NpiInv, NpiTypes, NpiTypeOK, ListedUntilFreed, BusyWhileUsed, U2s, serverVars,
            SocketReady
<1>1. CASE U2sReady(c)
  BY <1>1 DEF U2sReady
<1>2. CASE U2sBegin(c)
  BY <1>2 DEF U2sBegin
<1>3. CASE U2sCheck(c)
  BY <1>3 DEF U2sCheck
<1>4. CASE U2sRemove(c)
  BY <1>4 DEF U2sRemove
<1>5. CASE U2sSend(c)
  BY <1>5 DEF U2sSend
<1>6. CASE U2sJoin(c)
  <2>1. u2s' = [u2s EXCEPT ![c] = "unlink"] /\ unseen' = [unseen EXCEPT ![c] = ~stored[c]]
        /\ u2s[c] = "join" /\ UNCHANGED <<conns, dead, u2sBusy, stored, s2u, uartOwner>>
    BY <1>6 DEF U2sJoin
  <2>2. unseen' \in [Clients -> BOOLEAN]
    BY <2>1
  <2>3. ~unseen'[c] => s2u'[c] = "ended" /\ stored'[c]
    BY <1>6 DEF U2sJoin
  <2>4. /\ NpiTypes' /\ ListedUntilFreed'
    BY <2>1, <2>2
  <2>5. BusyWhileUsed'
    BY <2>1, <2>3
  <2> QED
    BY <2>4, <2>5
<1>7. CASE U2sFree(c)
  BY <1>7, TakenOut DEF U2sFree
<1> QED
  BY <1>1, <1>2, <1>3, <1>4, <1>5, <1>6, <1>7 DEF U2sStep

LEMMA S2uInv ==
  ASSUME NpiInv, NEW c \in Clients, S2uStep(c)
  PROVE  NpiInv'
<1> USE DEF NpiInv, NpiTypes, NpiTypeOK, ListedUntilFreed, BusyWhileUsed, S2u, serverVars,
            u2sVars, SocketReady
<1>1. CASE S2uReady(c)
  BY <1>1 DEF S2uReady
<1>2. CASE S2uBegin(c)
  BY <1>2 DEF S2uBegin
<1>3. CASE S2uCheck(c)
  BY <1>3 DEF S2uCheck
<1>4. CASE S2uRemove(c)
  BY <1>4 DEF S2uRemove
<1>5. CASE LockUart(c)
  BY <1>5 DEF LockUart
<1>6. CASE ForwardSreq(c)
  BY <1>6 DEF ForwardSreq
<1>7. CASE S2uEnd(c)
  BY <1>7 DEF S2uEnd
<1> QED
  BY <1>1, <1>2, <1>3, <1>4, <1>5, <1>6, <1>7 DEF S2uStep

LEMMA ServerInv ==
  ASSUME NpiInv,
         \/ Give \/ UartEnds \/ UartFails \/ ServerEnds \/ MarkDead
         \/ (\E c \in Clients : Accept(c) \/ StoreS2u(c)) \/ UNCHANGED npiVars
  PROVE  NpiInv'
<1> USE DEF NpiInv, NpiTypes, NpiTypeOK, ListedUntilFreed, BusyWhileUsed, serverVars, u2sVars,
            SocketReady
<1>1. CASE Give \/ UartEnds \/ UartFails \/ ServerEnds \/ UNCHANGED npiVars
  BY <1>1 DEF Give, UartEnds, UartFails, ServerEnds, npiVars
<1>2. CASE MarkDead
  BY <1>2 DEF MarkDead
<1>3. ASSUME NEW c \in Clients, Accept(c) PROVE NpiInv'
  <2>1. c \notin ToSet(conns) /\ u2s[c] = "none" /\ conns' = <<c>> \o conns
    BY <1>3, NpiAssumption DEF Accept, Clients
  <2>2. conns' \in Seq(Clients) /\ IsInjective(conns') /\ ToSet(conns') = ToSet(conns) \cup {c}
    BY <2>1, PutBefore
  <2> QED
    BY <1>3, <2>1, <2>2, c = c DEF Accept
<1>4. ASSUME NEW c \in Clients, StoreS2u(c) PROVE NpiInv'
  BY <1>4 DEF StoreS2u
<1> QED
  BY <1>1, <1>2, <1>3, <1>4

LEMMA NpiInvariant == NpiSpec => []NpiInv
<1>1. NpiInv /\ [NpiNext]_npiVars => NpiInv'
  BY U2sInv, S2uInv, ServerInv DEF NpiNext
<1> QED
  BY <1>1, InitNpiInv, PTL DEF NpiSpec

\* What one thread of a connection uses is there, however the two threads, the thread of
\* the port and the main thread end it.
THEOREM NothingFreedIsUsed == NpiSpec => []UsedWhileThere
<1>1. NpiInv => UsedWhileThere
  BY DEF NpiInv, ListedUntilFreed, BusyWhileUsed, UsedWhileThere
<1> QED
  BY <1>1, NpiInvariant, PTL

-----------------------------------------------------------------------------
(* What a client is told.                                                  *)

\* The messages t were sent, h is in hand and a waits: together they are the numbers
\* after m up to n.
IsAll(t, h, a, m, n) ==
  LET k == Len(t) + IF h = 0 THEN 0 ELSE 1
  IN  /\ \A i \in 1 .. Len(t) : t[i] = m + i
      /\ h # 0 => h = m + k
      /\ \A i \in 1 .. Len(a) : a[i] = m + k + i
      /\ n = m + k + Len(a)

LEMMA NothingIsAll == \A m \in Nat : IsAll(<<>>, 0, <<>>, m, m)
  BY DEF IsAll

\* One more has come.
LEMMA GivenIsAll ==
  ASSUME NEW t \in Seq(Nat), NEW h \in Nat, NEW a \in Seq(Nat), NEW m \in Nat, NEW n \in Nat,
         IsAll(t, h, a, m, n)
  PROVE  IsAll(t, h, Append(a, n + 1), m, n + 1)
<1> DEFINE k == Len(t) + IF h = 0 THEN 0 ELSE 1
           b == Append(a, n + 1)
<1>1. /\ Len(b) = Len(a) + 1 /\ Len(a) \in Nat /\ k \in Nat
      /\ \A i \in 1 .. Len(a) : b[i] = a[i]
      /\ b[Len(a) + 1] = n + 1
  OBVIOUS
<1>2. n = m + k + Len(a) /\ \A i \in 1 .. Len(a) : a[i] = m + k + i
  BY DEF IsAll
<1> HIDE DEF k, b
<1>3. ASSUME NEW i \in 1 .. Len(b) PROVE b[i] = m + k + i
  <2>1. CASE i \in 1 .. Len(a)
    BY <1>1, <1>2, <2>1
  <2>2. CASE i = Len(a) + 1
    BY <1>1, <1>2, <2>2
  <2> QED
    BY <1>1, <2>1, <2>2
<1>4. n + 1 = m + k + Len(b)
  BY <1>1, <1>2
<1> QED
  BY <1>3, <1>4 DEF IsAll, k, b

\* The first that waits is taken.
LEMMA TakenIsAll ==
  ASSUME NEW t \in Seq(Nat), NEW a \in Seq(Nat), a # <<>>, Head(a) # 0, NEW m \in Nat, NEW n \in Nat,
         IsAll(t, 0, a, m, n)
  PROVE  IsAll(t, Head(a), Tail(a), m, n)
<1> DEFINE k == Len(t)
           b == Tail(a)
<1>1. /\ Len(b) = Len(a) - 1 /\ Len(a) \in Nat \ {0} /\ k \in Nat /\ Head(a) = a[1]
      /\ \A i \in 1 .. Len(b) : b[i] = a[i + 1]
  OBVIOUS
<1>2. n = m + k + Len(a) /\ \A i \in 1 .. Len(a) : a[i] = m + k + i
  BY <1>1 DEF IsAll
<1>3. \A i \in 1 .. Len(t) : t[i] = m + i
  BY DEF IsAll
<1> HIDE DEF k, b
<1>4. \A i \in 1 .. Len(b) : b[i] = m + (k + 1) + i
  BY <1>1, <1>2
<1>5. Head(a) = m + (k + 1) /\ n = m + (k + 1) + Len(b)
  BY <1>1, <1>2
<1> QED
  BY <1>3, <1>4, <1>5 DEF IsAll, k, b

\* The one in hand is sent.
LEMMA SentIsAll ==
  ASSUME NEW t \in Seq(Nat), NEW h \in Nat \ {0}, NEW a \in Seq(Nat), NEW m \in Nat, NEW n \in Nat,
         IsAll(t, h, a, m, n)
  PROVE  IsAll(Append(t, h), 0, a, m, n)
<1> DEFINE u == Append(t, h)
<1>1. /\ Len(u) = Len(t) + 1 /\ Len(t) \in Nat /\ u[Len(t) + 1] = h
      /\ \A i \in 1 .. Len(t) : u[i] = t[i]
  OBVIOUS
<1>2. /\ h = m + (Len(t) + 1) /\ n = m + (Len(t) + 1) + Len(a)
      /\ \A i \in 1 .. Len(t) : t[i] = m + i
      /\ \A i \in 1 .. Len(a) : a[i] = m + (Len(t) + 1) + i
  BY DEF IsAll
<1> HIDE DEF u
<1>3. ASSUME NEW i \in 1 .. Len(u) PROVE u[i] = m + i
  <2>1. CASE i \in 1 .. Len(t)
    BY <1>1, <1>2, <2>1
  <2>2. CASE i = Len(t) + 1
    BY <1>1, <1>2, <2>2
  <2> QED
    BY <1>1, <2>1, <2>2
<1>4. n = m + (Len(u) + 0) + Len(a) /\ \A i \in 1 .. Len(a) : a[i] = m + (Len(u) + 0) + i
  BY <1>1, <1>2
<1>5. IsAll(u, 0, a, m, n)
  BY <1>3, <1>4 DEF IsAll
<1> QED
  BY <1>5 DEF u

\* Two runs of numbers, one after the other, are one.
LEMMA OneRun ==
  ASSUME NEW t \in Seq(Nat), NEW h \in Seq(Nat), NEW m \in Nat,
         \A i \in 1 .. Len(t) : t[i] = m + i,
         \A i \in 1 .. Len(h) : h[i] = m + Len(t) + i
  PROVE  /\ t \o h \in Seq(Nat) /\ Len(t \o h) = Len(t) + Len(h)
         /\ \A i \in 1 .. Len(t \o h) : (t \o h)[i] = m + i
<1> DEFINE b == t \o h
<1>1. /\ b \in Seq(Nat) /\ Len(b) = Len(t) + Len(h) /\ Len(t) \in Nat /\ Len(h) \in Nat
      /\ \A i \in 1 .. Len(b) : b[i] = IF i <= Len(t) THEN t[i] ELSE h[i - Len(t)]
  OBVIOUS
<1> HIDE DEF b
<1>2. ASSUME NEW i \in 1 .. Len(b) PROVE b[i] = m + i
  <2>1. CASE i <= Len(t)
    <3>1. i \in 1 .. Len(t)
      BY <1>1, <2>1
    <3> QED
      BY <1>1, <2>1, <3>1
  <2>2. CASE ~(i <= Len(t))
    <3>1. i - Len(t) \in 1 .. Len(h)
      BY <1>1, <2>2
    <3>2. h[i - Len(t)] = m + Len(t) + (i - Len(t))
      BY <3>1
    <3> QED
      BY <1>1, <2>2, <3>2
  <2> QED
    BY <2>1, <2>2
<1> QED
  BY <1>1, <1>2 DEF b

Together(t, h, a) == t \o (IF h = 0 THEN <<>> ELSE <<h>>) \o a
Upto(m, n) == [i \in 1 .. n - m |-> m + i]

\* The three sequences put together are the numbers in order.
LEMMA AllInOrder ==
  ASSUME NEW t \in Seq(Nat), NEW h \in Nat, NEW a \in Seq(Nat), NEW m \in Nat, NEW n \in Nat,
         IsAll(t, h, a, m, n)
  PROVE  Together(t, h, a) = Upto(m, n)
<1> DEFINE g == IF h = 0 THEN <<>> ELSE <<h>>
           b == t \o g
           c == b \o a
           all == [i \in 1 .. n - m |-> m + i]
<1>1. g \in Seq(Nat) /\ Len(g) = (IF h = 0 THEN 0 ELSE 1) /\ Len(t) \in Nat /\ Len(a) \in Nat
  OBVIOUS
<1>2. ASSUME NEW i \in 1 .. Len(g) PROVE g[i] = m + Len(t) + i
  <2>1. h # 0 /\ i = 1 /\ g[i] = h
    BY <1>1
  <2>2. h = m + (Len(t) + 1)
    BY <2>1 DEF IsAll
  <2> QED
    BY <1>1, <2>1, <2>2
<1>3. \A i \in 1 .. Len(t) : t[i] = m + i
  BY DEF IsAll
<1>4. n = m + Len(t) + Len(g) + Len(a) /\ \A i \in 1 .. Len(a) : a[i] = m + (Len(t) + Len(g)) + i
  BY <1>1 DEF IsAll
<1>5. all \in Seq(Nat) /\ Len(all) = n - m /\ \A i \in 1 .. Len(all) : all[i] = m + i
  <2>1. n - m \in Nat
    BY <1>1, <1>4
  <2> QED
    BY <2>1
<1> HIDE DEF g, all
<1>6. b \in Seq(Nat) /\ Len(b) = Len(t) + Len(g) /\ \A i \in 1 .. Len(b) : b[i] = m + i
  BY <1>1, <1>2, <1>3, OneRun
<1> HIDE DEF b
<1>7. c \in Seq(Nat) /\ Len(c) = Len(b) + Len(a) /\ \A i \in 1 .. Len(c) : c[i] = m + i
  <2>1. \A i \in 1 .. Len(a) : a[i] = m + Len(b) + i
    BY <1>4, <1>6
  <2> QED
    BY <1>6, <2>1, OneRun
<1> HIDE DEF c
<1>8. Len(c) = Len(all)
  <2>1. n - m = Len(t) + Len(g) + Len(a)
    BY <1>1, <1>4
  <2>2. Len(c) = Len(t) + Len(g) + Len(a)
    BY <1>6, <1>7
  <2> QED
    BY <1>5, <2>1, <2>2
<1>9. c = all
  <2>1. \A i \in 1 .. Len(c) : c[i] = all[i]
    BY <1>5, <1>7, <1>8
  <2> QED
    BY <1>5, <1>7, <1>8, <2>1, SeqEqual
<1> QED
  BY <1>9 DEF c, b, g, all, Together, Upto

ToldAll(c) == IsAll(told[c], inHand[c], areqs[c], since[c], indications)

TalesAreTyped ==
  /\ told \in [Clients -> Seq(Nat)] /\ areqs \in [Clients -> Seq(Nat \ {0})]
  /\ inHand \in [Clients -> Nat] /\ since \in [Clients -> Nat] /\ indications \in Nat

LEMMA TalesOf ==
  ASSUME TalesAreTyped, NEW c \in Clients
  PROVE  /\ told[c] \in Seq(Nat) /\ areqs[c] \in Seq(Nat \ {0}) /\ areqs[c] \in Seq(Nat)
         /\ inHand[c] \in Nat /\ since[c] \in Nat /\ indications \in Nat
  BY DEF TalesAreTyped

\* A message is in hand when it is about to be sent; nothing waits for a connection before
\* it is there; and one that is alive is told all.
ToldInv ==
  /\ TalesAreTyped
  /\ \A c \in Clients :
       /\ inHand[c] # 0 <=> u2s[c] = "send"
       /\ u2s[c] \in {"join", "unlink", "freed"} => dead[c]
       /\ u2s[c] = "none" => told[c] = <<>> /\ areqs[c] = <<>>
       /\ ~dead[c] /\ u2s[c] # "none" => ToldAll(c)

LEMMA InitToldInv == NpiInit => ToldInv
  BY DEF NpiInit, ToldInv, TalesAreTyped

LEMMA GiveTold == NpiInv /\ ToldInv /\ Give => ToldInv'
<1> SUFFICES ASSUME NpiInv, ToldInv, Give PROVE ToldInv'
  OBVIOUS
<1> USE DEF Give, u2sVars
<1>1. indications \in Nat /\ indications' = indications + 1
  BY DEF ToldInv, TalesAreTyped
<1>2. ASSUME NEW c \in Clients
      PROVE  /\ areqs[c] \in Seq(Nat \ {0})
             /\ areqs'[c] = IF c \in ToSet(conns)
                            THEN Append(areqs[c], indications + 1) ELSE areqs[c]
             /\ areqs'[c] \in Seq(Nat \ {0})
  <2>1. areqs[c] \in Seq(Nat \ {0}) /\ indications + 1 \in Nat \ {0}
    BY <1>1 DEF ToldInv, TalesAreTyped
  <2>2. Append(areqs[c], indications + 1) \in Seq(Nat \ {0})
    BY <2>1, AppendProperties
  <2>3. areqs'[c] = IF c \in ToSet(conns)
                    THEN Append(areqs[c], indications + 1) ELSE areqs[c]
    BY <1>1
  <2> QED
    BY <2>1, <2>2, <2>3
<1>3. areqs' \in [Clients -> Seq(Nat \ {0})]
  <2>1. areqs' = [c \in Clients |-> areqs'[c]]
    OBVIOUS
  <2> QED
    BY <1>2, <2>1
<1>4. ASSUME NEW c \in Clients, ~dead[c], u2s[c] # "none"
      PROVE  ToldAll(c)'
  <2>1. areqs'[c] = Append(areqs[c], indications + 1)
    <3>1. u2s[c] # "freed"
      BY <1>4 DEF ToldInv
    <3>2. c \in ToSet(conns)
      BY <1>4, <3>1 DEF NpiInv, ListedUntilFreed
    <3> QED
      BY <1>2, <3>2
  <2>2. ToldAll(c)
    BY <1>4 DEF ToldInv
  <2>3. IsAll(told[c], inHand[c], Append(areqs[c], indications + 1), since[c], indications + 1)
    BY <2>2, TalesOf, GivenIsAll DEF ToldAll, ToldInv
  <2> QED
    BY <1>1, <2>1, <2>3 DEF ToldAll
<1>5. ASSUME NEW c \in Clients, u2s[c] = "none" PROVE areqs'[c] = areqs[c]
  BY <1>2, <1>5 DEF NpiInv, ListedUntilFreed
<1>6. TalesAreTyped'
  BY <1>1, <1>3 DEF ToldInv, TalesAreTyped
<1> QED
  BY <1>4, <1>5, <1>6 DEF ToldInv

\* A step of the u2s thread of c tells the other clients nothing.
LEMMA U2sTold ==
  ASSUME NpiInv, ToldInv, NEW c \in Clients, U2sStep(c)
  PROVE  ToldInv'
<1> USE DEF U2s, serverVars
<1>1. ASSUME TalesAreTyped',
             \A d \in Clients : dead[d] => dead'[d],
             \A d \in Clients : d # c => UNCHANGED <<u2s[d], areqs[d], inHand[d], told[d]>>,
             inHand'[c] # 0 <=> u2s'[c] = "send",
             u2s'[c] \in {"join", "unlink", "freed"} => dead'[c],
             u2s'[c] # "none", u2s[c] # "none",
             ~dead[c] /\ ToldAll(c) => ToldAll(c)'
      PROVE  ToldInv'
  <2>1. UNCHANGED <<since, indications>>
    BY DEF U2sStep, U2sReady, U2sBegin, U2sCheck, U2sRemove, U2sSend, U2sJoin, U2sFree
  <2>2. \A d \in Clients : d # c => (ToldAll(d)' <=> ToldAll(d))
    BY <1>1, <2>1 DEF ToldAll
  <2> HIDE DEF ToldAll
  <2> QED
    BY <1>1, <2>2 DEF ToldInv
<1> DEFINE Same == UNCHANGED <<areqs, inHand, told>> /\ (\A d \in Clients : dead[d] => dead'[d])
<1>2. ASSUME NEW to, U2s(c, u2s[c], to), u2s[c] \notin {"none", "send"}, to # "send", Same,
             to # "none", to \in {"join", "unlink", "freed"} => dead'[c]
      PROVE  ToldInv'
  <2>1. u2s'[c] = to /\ \A d \in Clients : d # c => u2s'[d] = u2s[d]
    BY <1>2 DEF NpiInv, NpiTypes, NpiTypeOK
  <2>2. ToldAll(c)' <=> ToldAll(c)
    BY <1>2 DEF ToldAll
  <2>3. TalesAreTyped'
    BY <1>2 DEF ToldInv, TalesAreTyped
  <2>4. inHand'[c] # 0 <=> u2s'[c] = "send"
    BY <1>2, <2>1 DEF ToldInv
  <2> HIDE DEF ToldAll
  <2> QED
    BY <1>1, <1>2, <2>1, <2>2, <2>3, <2>4
<1>3. CASE U2sReady(c)
  BY <1>2, <1>3 DEF U2sReady
<1>4. CASE U2sBegin(c)
  BY <1>2, <1>4 DEF U2sBegin
<1>5. CASE U2sCheck(c)
  <2>1. /\ U2s(c, "check", IF dead'[c] THEN "join" ELSE "remove") /\ Same
        /\ u2s[c] = "check"
    BY <1>5 DEF U2sCheck, NpiInv, NpiTypes
  <2> QED
    BY <1>2, <2>1
<1>6. CASE U2sJoin(c)
  BY <1>2, <1>6 DEF U2sJoin, ToldInv
<1>7. CASE U2sFree(c)
  BY <1>2, <1>7 DEF U2sFree, ToldInv
<1>8. CASE U2sRemove(c)
  <2>1. /\ areqs[c] \in Seq(Nat \ {0}) /\ inHand[c] = 0 /\ told[c] \in Seq(Nat)
        /\ since[c] \in Nat
    BY <1>8 DEF U2sRemove, ToldInv, TalesAreTyped
  <2>2. /\ u2s[c] = "remove" /\ UNCHANGED <<dead, told, since, indications>>
        /\ u2s'[c] \in {"check", "send"}
        /\ inHand'[c] = IF u2s'[c] = "send" THEN Head(areqs[c]) ELSE 0
        /\ areqs'[c] = IF areqs[c] = <<>> THEN areqs[c] ELSE Tail(areqs[c])
        /\ \A d \in Clients : d # c => UNCHANGED <<u2s[d], areqs[d], inHand[d]>>
        /\ u2s'[c] = "send" <=> ~(dead[c] \/ areqs[c] = <<>>)
    BY <1>8 DEF U2sRemove, NpiInv, NpiTypes, NpiTypeOK, ToldInv, TalesAreTyped
  <2>3. u2s'[c] = "send" => Head(areqs[c]) \in Nat \ {0}
    BY <2>1, <2>2
  <2>4. TalesAreTyped'
    BY <1>8, <2>1, <2>2, <2>3 DEF U2sRemove, ToldInv, TalesAreTyped
  <2>5. ASSUME ~dead[c], ToldAll(c) PROVE ToldAll(c)'
    <3>1. CASE areqs[c] = <<>>
      BY <2>1, <2>2, <2>5, <3>1 DEF ToldAll
    <3>2. CASE areqs[c] # <<>>
      <4>1. inHand'[c] = Head(areqs[c]) /\ Head(areqs[c]) # 0 /\ areqs'[c] = Tail(areqs[c])
        BY <2>2, <2>3, <2>5, <3>2
      <4>2. IsAll(told[c], Head(areqs[c]), Tail(areqs[c]), since[c], indications)
        BY <2>1, <2>5, <3>2, <4>1, TalesOf, TakenIsAll DEF ToldAll, ToldInv
      <4> QED
        BY <2>2, <4>1, <4>2 DEF ToldAll
    <3> QED
      BY <3>1, <3>2
  <2> HIDE DEF ToldAll
  <2> QED
    BY <1>1, <2>2, <2>3, <2>4, <2>5
<1>9. CASE U2sSend(c)
  <2>1. /\ areqs[c] \in Seq(Nat) /\ inHand[c] \in Nat \ {0} /\ told[c] \in Seq(Nat)
        /\ since[c] \in Nat
    BY <1>9 DEF U2sSend, ToldInv, TalesAreTyped
  <2>2. /\ u2s[c] = "send" /\ UNCHANGED <<dead, areqs, since, indications>>
        /\ u2s'[c] = "check" /\ inHand'[c] = 0
        /\ told'[c] = Append(told[c], inHand[c])
        /\ \A d \in Clients : d # c => UNCHANGED <<u2s[d], told[d], inHand[d]>>
    BY <1>9 DEF U2sSend, NpiInv, NpiTypes, NpiTypeOK, ToldInv, TalesAreTyped
  <2>3. TalesAreTyped'
    BY <1>9, <2>1, <2>2 DEF U2sSend, ToldInv, TalesAreTyped
  <2>4. ASSUME ToldAll(c) PROVE ToldAll(c)'
    <3>1. IsAll(Append(told[c], inHand[c]), 0, areqs[c], since[c], indications)
      BY <2>1, <2>4, TalesOf, SentIsAll DEF ToldAll, ToldInv
    <3> QED
      BY <2>2, <3>1 DEF ToldAll
  <2> HIDE DEF ToldAll
  <2> QED
    BY <1>1, <2>2, <2>3, <2>4
<1> QED
  BY <1>3, <1>4, <1>5, <1>6, <1>7, <1>8, <1>9 DEF U2sStep

LEMMA AcceptTold ==
  ASSUME NpiInv, ToldInv, NEW c \in Clients, Accept(c)
  PROVE  ToldInv'
<1> USE DEF Accept, serverVars
<1>1. /\ u2s[c] = "none" /\ u2s'[c] = "start" /\ since'[c] = indications
      /\ \A d \in Clients : d # c => UNCHANGED <<u2s[d], since[d]>>
      /\ UNCHANGED <<told, inHand, areqs, dead, indications>>
  BY NpiAssumption DEF NpiInv, NpiTypes, NpiTypeOK, ToldInv, TalesAreTyped, Clients
<1>2. TalesAreTyped'
  BY <1>1 DEF ToldInv, TalesAreTyped
<1>3. inHand[c] = 0 /\ told[c] = <<>> /\ areqs[c] = <<>> /\ indications \in Nat
  BY <1>1 DEF ToldInv, TalesAreTyped
<1>4. ToldAll(c)'
  BY <1>1, <1>3, NothingIsAll DEF ToldAll
<1>5. \A d \in Clients : d # c => (ToldAll(d)' <=> ToldAll(d))
  BY <1>1 DEF ToldAll
<1> HIDE DEF ToldAll
<1> QED
  BY <1>1, <1>2, <1>3, <1>4, <1>5 DEF ToldInv

\* A step that sends nothing and gives nothing.
LEMMA OtherTold ==
  ASSUME ToldInv, UNCHANGED <<u2s, told, areqs, inHand, since, indications>>,
         \A c \in Clients : dead[c] => dead'[c]
  PROVE  ToldInv'
<1>1. TalesAreTyped' /\ \A d \in Clients : ToldAll(d)' <=> ToldAll(d)
  BY DEF ToldInv, TalesAreTyped, ToldAll
<1> HIDE DEF ToldAll
<1> QED
  BY <1>1 DEF ToldInv

LEMMA S2uTold ==
  ASSUME NpiInv, ToldInv, NEW c \in Clients, S2uStep(c)
  PROVE  ToldInv'
<1>1. UNCHANGED <<u2s, told, areqs, inHand, since, indications>>
  BY DEF S2uStep, S2uReady, S2uBegin, S2uCheck, S2uRemove, LockUart, ForwardSreq, S2uEnd,
         S2u, serverVars, u2sVars
<1>2. \A d \in Clients : dead[d] => dead'[d]
  BY DEF S2uStep, S2uReady, S2uBegin, S2uCheck, S2uRemove, LockUart, ForwardSreq, S2uEnd,
         S2u, NpiInv, NpiTypes
<1> QED
  BY <1>1, <1>2, OtherTold

\* A connection is told each indication once and in their order, from the first one after
\* it was listed on, whatever the other connections do.
THEOREM IndicationsInOrder == NpiSpec => []ToldInOrder
<1>1. ToldInv /\ NpiInv /\ [NpiNext]_npiVars => ToldInv'
  <2> SUFFICES ASSUME ToldInv, NpiInv, [NpiNext]_npiVars PROVE ToldInv'
    OBVIOUS
  <2>1. CASE UartEnds \/ UartFails \/ ServerEnds \/ UNCHANGED npiVars
    BY <2>1, OtherTold DEF UartEnds, UartFails, ServerEnds, npiVars, u2sVars, serverVars
  <2>2. CASE MarkDead
    BY <2>2, OtherTold DEF MarkDead, u2sVars, serverVars
  <2>3. ASSUME NEW c \in Clients, StoreS2u(c) PROVE ToldInv'
    BY <2>3, OtherTold DEF StoreS2u, u2sVars, serverVars
  <2> QED
    BY <2>1, <2>2, <2>3, GiveTold, AcceptTold, U2sTold, S2uTold DEF NpiNext
<1>2. ToldInv => ToldInOrder
  <2> SUFFICES ASSUME ToldInv, NEW c \in Clients, ~dead[c], u2s[c] # "none"
               PROVE  Together(told[c], inHand[c], areqs[c]) = Upto(since[c], indications)
    BY DEF ToldInOrder, Together, Upto
  <2>1. IsAll(told[c], inHand[c], areqs[c], since[c], indications) /\ TalesAreTyped
    BY DEF ToldInv, ToldAll
  <2> QED
    BY <2>1, TalesOf, AllInOrder
<1> QED
  BY <1>1, <1>2, InitToldInv, NpiInvariant, PTL DEF NpiSpec

-----------------------------------------------------------------------------
(* The inductive invariant of the boot loader's client.                    *)

BootBytes == {"0", "cc", "33", "3", "6", "40", "42", "44", "same", "other"}

BootCommands ==
  [cmd : {"sync", "status", "garbled"}] \cup [cmd : {"erase"}, page : Int]
  \cup [cmd : {"download"}, at : Int, size : Int] \cup [cmd : {"data"}, data : Seq(Int)]
  \cup [cmd : {"crc"}, at : Int, data : Seq(Int)]

Phases == {"connect", "erase", "download", "send", "verify", "done", "failed"}
Steps == {"call", "read", "ack", "getStatus", "statusAck", "statusData", "crc"}

HostStates ==
  [phase : Phases, step : Steps, page : Int, tries : Int, pos : Nat, eof : BOOLEAN, buf : Seq(Int), at : Nat, ext : Nat,
   prevEnd : Int, ack : BootBytes, status : BootBytes, last : BootBytes]

DeviceStates ==
  [flash : [0 .. FlashSize - 1 -> Int], ptr : Int, left : Int, status : {"40", "42", "44"}]

BootTypes ==
  /\ task \in Tasks /\ host \in HostStates /\ device \in DeviceStates
  /\ toDevice \in Seq(BootCommands) /\ fromDevice \in Seq(BootBytes)

\* A file is read to its end, and not beyond.
ReadsOn ==
  IF task.bin THEN host.pos <= task.size
  ELSE /\ host.pos <= Len(task.records)
       /\ host.pos = Len(task.records) <=> host.eof
       /\ Working /\ host.step = "read" => ~host.eof

Verifying == host.phase = "verify"

StepsVerify ==
  /\ Verifying => host.step \in {"read", "call", "ack", "crc"}
  /\ Working /\ host.step = "crc" => Verifying
  /\ Verifying /\ host.step = "crc" => host.last \in {"cc", "33"}

\* No answer that holds a CRC is under way.
NoSix(bytes) == \A i \in DOMAIN bytes : bytes[i] # "6"
NoCrc == (\A i \in DOMAIN toDevice : toDevice[i].cmd # "crc") /\ NoSix(fromDevice)

\* The command of this buffer is the last one, or its answer the last answer.
CrcAsked ==
  \E p \in Seq(BootCommands) :
     /\ toDevice = Append(p, CrcCommand)
     /\ \A i \in DOMAIN p : p[i].cmd # "crc"
     /\ NoSix(fromDevice)
CrcAnswered ==
  /\ toDevice = <<>>
  /\ \E q \in Seq(BootBytes) :
        NoSix(q) /\ fromDevice = q \o CrcPacket(Holds(host.at, host.buf))

OneCrc ==
  IF Verifying /\ host.step \in {"ack", "crc"} THEN NoCrc \/ CrcAsked \/ CrcAnswered
  ELSE Working => NoCrc

\* What is in the buffer, and where it comes from.
BufferIsFile ==
  Verifying =>
    /\ \A i \in DOMAIN host.buf : host.buf[i] = host.at + i
    /\ IF task.bin
       THEN /\ host.at + Len(host.buf) = StartAddress + host.pos
            /\ host.eof => host.pos = task.size
       ELSE /\ host.ext = Base(host.pos)
            /\ host.step = "read" /\ host.prevEnd # NoEnd =>
                 /\ host.at + Len(host.buf) = host.ext + host.prevEnd
                 /\ host.at >= host.ext
    /\ host.step = "read" /\ (task.bin \/ host.prevEnd = NoEnd) => host.buf = <<>>

RecordAt(k) == Base(k) + task.records[k].at .. Base(k) + task.records[k].at + task.records[k].size - 1

ReadSoFar ==
  IF task.bin THEN StartAddress .. StartAddress + host.pos - 1
  ELSE UNION {RecordAt(k) : k \in 1 .. host.pos}

FlashedAt(a) == a < FlashSize /\ device.flash[a] = a + 1

\* No command changes the flash any more.
Harmless == \A i \in DOMAIN toDevice : toDevice[i].cmd \in {"crc", "garbled"}

\* What has been read was verified and stays, but for what is in the buffer.
VerifiedSoFar ==
  Verifying => \A a \in ReadSoFar : \/ a \in host.at .. host.at + Len(host.buf) - 1
                                    \/ Harmless /\ FlashedAt(a)

DoneIsFlashed == Succeeds /\ "verify" \in task.options => toDevice = <<>> /\ IsFlashed

BootInv ==
  /\ BootTypes /\ ReadsOn /\ StepsVerify /\ OneCrc /\ BufferIsFile /\ VerifiedSoFar
  /\ DoneIsFlashed

-----------------------------------------------------------------------------
(* The tasks, and parts of sequences.                                      *)

LEMMA TaskIs ==
  ASSUME task \in Tasks
  PROVE  /\ StartAddress \in Nat /\ StartAddress \div PageSize \in Int
         /\ task.bin \in BOOLEAN /\ task.size \in Nat
         /\ ~task.bin =>
              /\ task.records \in Seq(HexRecords) /\ Len(task.records) \in Nat \ {0}
              /\ DOMAIN task.records = 1 .. Len(task.records)
              /\ \A k \in DOMAIN task.records :
                   /\ task.records[k] \in HexRecords
                   /\ task.records[k].type = "end" <=> k = Len(task.records)
                   /\ task.records[k].type # "data" =>
                        task.records[k].at = 0 /\ task.records[k].size = 0
<1>1. PageSize \in Nat \ {0} /\ NumPages \in Nat \ {0} /\ PageSize * NumPages \in Nat
  BY BootAssumption
<1>2. task.start \in Nat
  <2>1. task.start \in 0 .. PageSize * NumPages - 1
    BY BootAssumption
  <2> QED
    BY <1>1, <2>1
<1>3. StartAddress \in Nat
  BY <1>1, <1>2 DEF StartAddress
<1>4. StartAddress \div PageSize \in Int
  BY <1>1, <1>3
<1>5. task.bin \in BOOLEAN /\ task.size \in Nat
  BY FileAssumption
<1>6. ASSUME ~task.bin
      PROVE  /\ task.records \in Seq(HexRecords) /\ Len(task.records) \in Nat \ {0}
             /\ DOMAIN task.records = 1 .. Len(task.records)
             /\ \A k \in DOMAIN task.records :
                  /\ task.records[k] \in HexRecords
                  /\ task.records[k].type = "end" <=> k = Len(task.records)
                  /\ task.records[k].type # "data" =>
                       task.records[k].at = 0 /\ task.records[k].size = 0
  <2>1. task.records \in Seq(HexRecords) \ {<<>>}
    BY FileAssumption, <1>6
  <2>2. \A k \in DOMAIN task.records :
           /\ task.records[k].type = "end" <=> k = Len(task.records)
           /\ task.records[k].type # "data" =>
                task.records[k].at = 0 /\ task.records[k].size = 0
    BY FileAssumption, <1>6
  <2>3. /\ task.records \in Seq(HexRecords) /\ Len(task.records) \in Nat \ {0}
        /\ DOMAIN task.records = 1 .. Len(task.records)
        /\ \A k \in DOMAIN task.records : task.records[k] \in HexRecords
    BY <2>1
  <2> QED
    BY <2>2, <2>3
<1> QED
  BY <1>3, <1>4, <1>5, <1>6

\* What is left when n have been read.
LEMMA RestIs ==
  ASSUME NEW S, NEW s \in Seq(S), NEW n \in Nat
  PROVE  /\ SubSeq(s, n + 1, Len(s)) \in Seq(S)
         /\ \A i \in DOMAIN SubSeq(s, n + 1, Len(s)) :
               n + i \in DOMAIN s /\ SubSeq(s, n + 1, Len(s))[i] = s[n + i]
         /\ Len(s) <= n => SubSeq(s, n + 1, Len(s)) = <<>>
         /\ Len(s) > n => Len(SubSeq(s, n + 1, Len(s))) = Len(s) - n
<1> QED
  OBVIOUS

LEMMA PartIs ==
  ASSUME NEW S, NEW s \in Seq(S), NEW m \in 0 .. Len(s)
  PROVE  SubSeq(s, 1, m) \in Seq(S)
  OBVIOUS

LEMMA BytesAre ==
  ASSUME fromDevice \in Seq(BootBytes), host \in HostStates, NEW n \in 1 .. 6
  PROVE  /\ Bytes(n) \in [1 .. n -> BootBytes]
         /\ \A i \in 1 .. n : i \in DOMAIN fromDevice => Bytes(n)[i] = fromDevice[i]
         /\ fromDevice = <<>> => \A i \in 1 .. n : Bytes(n)[i] = host.last
<1>1. host.last \in BootBytes
  BY DEF HostStates
<1>2. /\ Len(fromDevice) \in Nat /\ DOMAIN fromDevice = 1 .. Len(fromDevice)
      /\ \A i \in DOMAIN fromDevice : fromDevice[i] \in BootBytes
  OBVIOUS
<1>3. \A i \in 1 .. n : i <= Len(fromDevice) => fromDevice[i] \in BootBytes
  BY <1>2
<1>4. Len(fromDevice) # 0 => fromDevice[Len(fromDevice)] \in BootBytes
  BY <1>2
<1>5. fromDevice = <<>> => Len(fromDevice) = 0
  OBVIOUS
<1> QED
  BY <1>1, <1>2, <1>3, <1>4, <1>5 DEF Bytes

-----------------------------------------------------------------------------
(* The outcomes of commands.                                               *)

\* But for the bytes that were read.
Agrees(g, h) ==
  /\ g \in HostStates
  /\ g.phase = h.phase /\ g.step = h.step /\ g.pos = h.pos /\ g.eof = h.eof
  /\ g.buf = h.buf /\ g.at = h.at /\ g.ext = h.ext /\ g.prevEnd = h.prevEnd

LEMMA LastKept ==
  ASSUME NEW h \in HostStates, NEW b \in BootBytes
  PROVE  Agrees([h EXCEPT !.last = b], h) /\ Agrees([h EXCEPT !.status = b, !.last = b], h)
<1>1. [h EXCEPT !.last = b] \in HostStates /\ [h EXCEPT !.status = b, !.last = b] \in HostStates
  BY DEF HostStates
<1> QED
  BY <1>1 DEF Agrees, HostStates

LEMMA ToReadIs ==
  ASSUME NEW h \in HostStates
  PROVE  /\ ToRead(h) \in HostStates /\ ToRead(h).step = "read"
         /\ ToRead(h).buf = <<>> /\ ToRead(h).prevEnd = NoEnd
         /\ ToRead(h).phase = h.phase /\ ToRead(h).pos = h.pos /\ ToRead(h).eof = h.eof
         /\ ToRead(h).ext = h.ext /\ ToRead(h).at = h.at /\ ToRead(h).last = h.last
<1>1. ASSUME NEW r \in Steps, NEW b \in Seq(Int), NEW e \in Int
      PROVE  [h EXCEPT !.step = r, !.buf = b, !.prevEnd = e] \in HostStates
  BY DEF HostStates
<1>2. "read" \in Steps /\ <<>> \in Seq(Int) /\ NoEnd \in Int
  BY DEF Steps, NoEnd
<1>3. ToRead(h) \in HostStates
  BY <1>1, <1>2 DEF ToRead
<1> QED
  BY <1>3 DEF ToRead, HostStates

LEMMA EnterIs ==
  ASSUME BootTypes, NEW p \in {"erase", "download", "verify", "done"}
  PROVE  /\ Enter(p) \in HostStates
         /\ Enter(p).phase = p /\ Enter(p).step \in {"call", "read"}
         /\ Enter(p).pos = 0 /\ ~Enter(p).eof /\ Enter(p).ext = 0 /\ Enter(p).at = StartAddress
         /\ p = "verify" => /\ Enter(p).step = "read" /\ Enter(p).prevEnd = NoEnd
                            /\ Enter(p).buf = <<>>
<1>1. host \in HostStates /\ StartAddress \in Nat /\ StartAddress \div PageSize \in Int
  BY TaskIs DEF BootTypes
<1> DEFINE h == [host EXCEPT !.phase = p, !.step = "call", !.tries = 0, !.pos = 0,
                             !.eof = FALSE, !.ext = 0, !.at = StartAddress,
                             !.page = StartAddress \div PageSize]
<1>2. /\ h \in HostStates /\ h.phase = p /\ h.step = "call" /\ h.pos = 0 /\ ~h.eof /\ h.ext = 0
      /\ h.at = StartAddress
  <2>1. ASSUME NEW q \in Phases, NEW r \in Steps, NEW t \in Int, NEW o \in Nat, NEW e \in BOOLEAN,
               NEW x \in Nat, NEW a \in Nat, NEW k \in Int
        PROVE  [host EXCEPT !.phase = q, !.step = r, !.tries = t, !.pos = o, !.eof = e,
                            !.ext = x, !.at = a, !.page = k] \in HostStates
    BY <1>1 DEF HostStates
  <2>2. h \in HostStates
    <3>1. p \in Phases /\ "call" \in Steps /\ 0 \in Int /\ 0 \in Nat /\ FALSE \in BOOLEAN
      BY DEF Phases, Steps
    <3> QED
      BY <1>1, <2>1, <3>1
  <2>3. /\ h.phase = p /\ h.step = "call" /\ h.pos = 0 /\ h.ext = 0 /\ h.at = StartAddress
        /\ h.eof = FALSE
    BY <1>1 DEF HostStates
  <2> QED
    BY <2>2, <2>3
<1>3. Enter(p) = IF p = "verify" \/ (p = "download" /\ ~task.bin) THEN ToRead(h) ELSE h
  BY DEF Enter
<1> HIDE DEF h
<1>4. /\ ToRead(h) \in HostStates /\ ToRead(h).phase = p /\ ToRead(h).step = "read"
      /\ ToRead(h).pos = 0 /\ ~ToRead(h).eof /\ ToRead(h).ext = 0 /\ ToRead(h).at = StartAddress
      /\ ToRead(h).prevEnd = NoEnd /\ ToRead(h).buf = <<>>
  BY <1>2, ToReadIs
<1> QED
  BY <1>2, <1>3, <1>4

LEMMA PhaseAfterIs ==
  ASSUME NEW p \in {"connect", "erase", "download"}
  PROVE  /\ PhaseAfter(p) \in {"erase", "download", "verify", "done"}
         /\ PhaseAfter(p) = "done" => "verify" \notin task.options
  BY DEF PhaseAfter

\* What the invariant needs to know of a host that follows a command.
After(o, ok) ==
  /\ o \in HostStates
  /\ o.phase = "failed" \/ o.step # "crc"
  /\ Verifying => o.phase \in {"verify", "done", "failed"}
  /\ o.phase = "verify" =>
       /\ o.step = "read" /\ o.prevEnd = NoEnd /\ o.buf = <<>>
       /\ \/ /\ ~Verifying /\ o.pos = 0 /\ ~o.eof /\ o.ext = 0 /\ o.at = StartAddress
          \/ /\ Verifying /\ ok /\ ~host.eof /\ o.pos = host.pos /\ o.eof = host.eof
             /\ o.ext = host.ext /\ o.at = host.at + Len(host.buf)
  /\ o.phase = "done" => "verify" \notin task.options \/ (Verifying /\ ok /\ host.eof)
  /\ \/ o.pos = 0 /\ ~o.eof
     \/ /\ o.pos = host.pos /\ o.eof = host.eof
        /\ o.step = "read" => task.bin \/ ~host.eof \/ o.phase = "failed"

LEMMA KeepsPlace ==
  ASSUME NEW o \in HostStates, NEW ok \in BOOLEAN, ~Verifying, o.step # "crc",
         o.phase \notin {"verify", "done"}, o.pos = host.pos, o.eof = host.eof,
         o.step = "read" => task.bin \/ ~host.eof
  PROVE  After(o, ok)
  BY DEF After

LEMMA EnterAfter ==
  ASSUME BootTypes, NEW ok \in BOOLEAN, NEW p \in {"erase", "download", "verify", "done"},
         ~Verifying, p = "done" => "verify" \notin task.options
  PROVE  After(Enter(p), ok)
  BY EnterIs, Zenon DEF After

LEMMA OutcomeIs ==
  ASSUME BootTypes, Working, NEW ok \in BOOLEAN
  PROVE  After(Outcome(ok), ok)
<1> DEFINE rest == SubSeq(host.buf, Len(Chunk) + 1, Len(host.buf))
           sent == [host EXCEPT !.buf = rest, !.tries = 0]
           o == Outcome(ok)
<1>h. host \in HostStates /\ host.phase \in Phases /\ host.buf \in Seq(Int) /\ host.eof \in BOOLEAN
      /\ host.tries \in Int /\ host.page \in Int /\ host.at \in Nat
  BY DEF BootTypes, HostStates
<1>t. task.bin \in BOOLEAN
  BY TaskIs DEF BootTypes
<1>s. "call" \in Steps /\ "send" \in Phases /\ "failed" \in Phases /\ "download" \in Phases
  BY DEF Steps, Phases
<1>r. rest \in Seq(Int)
  <2>1. Len(host.buf) \in Nat
    BY <1>h
  <2>2. Fewer(MaxTransfer, Len(host.buf)) \in 0 .. Len(host.buf)
    BY <2>1, BootAssumption DEF Fewer
  <2>3. Chunk \in Seq(Int)
    BY <1>h, <2>2, PartIs DEF Chunk
  <2>4. Len(Chunk) \in Nat
    BY <2>3
  <2> QED
    BY <1>h, <2>4, RestIs
<1>m. sent \in HostStates /\ sent.phase = host.phase /\ sent.step = host.step /\ sent.pos = host.pos
      /\ sent.eof = host.eof /\ sent.page = host.page
  <2>1. ASSUME NEW b \in Seq(Int), NEW t \in Int
        PROVE  [host EXCEPT !.buf = b, !.tries = t] \in HostStates
    <3>1. host \in HostStates
      BY <1>h
    <3> QED
      BY <3>1 DEF HostStates
  <2>2. sent \in HostStates
    <3> HIDE DEF rest
    <3>1. 0 \in Int
      OBVIOUS
    <3> QED
      BY <1>r, <2>1, <3>1
  <2> QED
    BY <1>h, <2>2 DEF HostStates
<1> HIDE DEF rest
<1>1. CASE host.phase = "connect"
  <2>1. CASE ok
    <3>1. o = Enter(PhaseAfter("connect"))
      BY <1>1, <2>1 DEF Outcome
    <3> QED
      BY <1>1, <3>1, EnterAfter, PhaseAfterIs DEF Verifying
  <2>2. CASE ~ok
    <3>1. o = [host EXCEPT !.step = "call"]
      BY <1>1, <2>2 DEF Outcome
    <3>2. o \in HostStates
      BY <1>h, <1>s, <3>1 DEF HostStates
    <3>3. o.phase = "connect" /\ o.step = "call" /\ o.pos = host.pos /\ o.eof = host.eof
      BY <1>h, <1>1, <3>1 DEF HostStates
    <3> QED
      BY <1>1, <3>2, <3>3, KeepsPlace DEF Verifying
  <2> QED
    BY <2>1, <2>2
<1>2. CASE host.phase = "erase" /\ ok
  <2>1. CASE host.page + 1 < NumPages
    <3>1. o = [host EXCEPT !.page = @ + 1, !.step = "call"]
      BY <1>2, <2>1 DEF Outcome
    <3>2. o \in HostStates
      <4>1. ASSUME NEW x \in Int, NEW r \in Steps PROVE [host EXCEPT !.page = x, !.step = r] \in HostStates
        BY <1>h DEF HostStates
      <4>2. host.page + 1 \in Int /\ o = [host EXCEPT !.page = host.page + 1, !.step = "call"]
        BY <1>h, <3>1
      <4> QED
        BY <1>s, <4>1, <4>2
    <3>3. o.phase = "erase" /\ o.step = "call" /\ o.pos = host.pos /\ o.eof = host.eof
      BY <1>h, <1>2, <3>1 DEF HostStates
    <3> QED
      BY <1>2, <3>2, <3>3, KeepsPlace DEF Verifying
  <2>2. CASE ~(host.page + 1 < NumPages)
    <3>1. o = Enter(PhaseAfter("erase"))
      BY <1>2, <2>2 DEF Outcome
    <3> QED
      BY <1>2, <3>1, EnterAfter, PhaseAfterIs DEF Verifying
  <2> QED
    BY <2>1, <2>2
<1>3. CASE host.phase = "download" /\ task.bin
  <2> DEFINE g == [host EXCEPT !.phase = "send"]
  <2>1. o = ToRead(g)
    BY <1>3 DEF Outcome
  <2>2. g \in HostStates
    BY <1>h, <1>s DEF HostStates
  <2>3. g.phase = "send" /\ g.pos = host.pos /\ g.eof = host.eof
    BY <1>h DEF HostStates
  <2> HIDE DEF g
  <2> QED
    BY <1>3, <2>1, <2>2, <2>3, ToReadIs, KeepsPlace DEF Verifying
<1>4. CASE host.phase = "download" /\ ~task.bin /\ ok
  <2>1. o = [host EXCEPT !.phase = "send", !.step = "call"]
    BY <1>4 DEF Outcome
  <2>2. o \in HostStates
    <3>1. ASSUME NEW q \in Phases, NEW r \in Steps PROVE [host EXCEPT !.phase = q, !.step = r] \in HostStates
      BY <1>h DEF HostStates
    <3> QED
      BY <1>s, <2>1, <3>1, Zenon
  <2>3. o.phase = "send" /\ o.step = "call" /\ o.pos = host.pos /\ o.eof = host.eof
    BY <1>h, <2>1 DEF HostStates
  <2> QED
    BY <1>4, <2>2, <2>3, KeepsPlace DEF Verifying
<1>5. CASE host.phase = "send" /\ ~ok /\ host.tries < 3
  <2>1. o = [host EXCEPT !.tries = @ + 1, !.step = "call"]
    BY <1>5 DEF Outcome
  <2>2. o \in HostStates
    <3>1. ASSUME NEW x \in Int, NEW r \in Steps PROVE [host EXCEPT !.tries = x, !.step = r] \in HostStates
      BY <1>h DEF HostStates
    <3>2. host.tries + 1 \in Int /\ o = [host EXCEPT !.tries = host.tries + 1, !.step = "call"]
      BY <1>h, <2>1
    <3> QED
      BY <1>s, <3>1, <3>2
  <2>3. o.phase = "send" /\ o.step = "call" /\ o.pos = host.pos /\ o.eof = host.eof
    BY <1>h, <1>5, <2>1 DEF HostStates
  <2> QED
    BY <1>5, <2>2, <2>3, KeepsPlace DEF Verifying
<1>6. CASE host.phase = "send" /\ ok /\ host.eof
  <2>1. o = Enter(PhaseAfter("download"))
    BY <1>6 DEF Outcome
  <2> QED
    BY <1>6, <2>1, EnterAfter, PhaseAfterIs DEF Verifying
<1>7. CASE host.phase = "send" /\ ok /\ ~host.eof
  <2>1. CASE rest # <<>>
    <3>1. o = [sent EXCEPT !.step = "call"]
      BY <1>7, <2>1 DEF Outcome, rest
    <3> HIDE DEF sent
    <3>2. o \in HostStates
      BY <1>m, <1>s, <3>1 DEF HostStates
    <3>3. o.phase = "send" /\ o.step = "call" /\ o.pos = host.pos /\ o.eof = host.eof
      BY <1>m, <1>7, <3>1 DEF HostStates
    <3> QED
      BY <1>7, <3>2, <3>3, KeepsPlace DEF Verifying
  <2>2. CASE rest = <<>>
    <3> DEFINE g == [sent EXCEPT !.phase = IF task.bin THEN "send" ELSE "download"]
    <3>1. o = ToRead(g)
      BY <1>7, <2>2 DEF Outcome, rest
    <3> HIDE DEF sent
    <3>2. g \in HostStates
      BY <1>m, <1>s DEF HostStates
    <3>3. g.phase \in {"send", "download"} /\ g.pos = host.pos /\ g.eof = host.eof
      BY <1>m DEF HostStates
    <3> HIDE DEF g, o
    <3>4. /\ o \in HostStates /\ o.step = "read" /\ o.phase \in {"send", "download"}
          /\ o.pos = host.pos /\ o.eof = host.eof
      BY <3>1, <3>2, <3>3, ToReadIs
    <3>5. After(o, ok)
      BY <1>7, <3>4, KeepsPlace DEF Verifying
    <3> QED
      BY <3>5 DEF o
  <2> QED
    BY <2>1, <2>2
<1>8. CASE host.phase = "verify" /\ ok
  <2>1. CASE host.eof
    <3>1. o = Enter("done")
      BY <1>8, <2>1 DEF Outcome
    <3> QED
      BY <1>8, <2>1, <3>1, EnterIs DEF After, Verifying
  <2>2. CASE ~host.eof
    <3> DEFINE g == [host EXCEPT !.at = @ + Len(host.buf)]
    <3>1. o = ToRead(g)
      BY <1>8, <2>2 DEF Outcome
    <3>2. Len(host.buf) \in Nat
      BY <1>h
    <3>3. g \in HostStates
      <4>1. ASSUME NEW a \in Nat PROVE [host EXCEPT !.at = a] \in HostStates
        BY <1>h DEF HostStates
      <4>2. host.at + Len(host.buf) \in Nat
        BY <1>h, <3>2
      <4> QED
        BY <4>1, <4>2
    <3>4. /\ g.phase = "verify" /\ g.pos = host.pos /\ g.eof = host.eof /\ g.ext = host.ext
          /\ g.at = host.at + Len(host.buf)
      BY <1>h, <1>8 DEF HostStates
    <3> HIDE DEF g, o
    <3>5. /\ o \in HostStates /\ o.step = "read" /\ o.phase = "verify" /\ o.prevEnd = NoEnd
          /\ o.pos = host.pos /\ o.eof = host.eof /\ o.buf = <<>> /\ o.ext = host.ext
          /\ o.at = host.at + Len(host.buf)
      BY <3>1, <3>3, <3>4, ToReadIs
    <3>6. After(o, ok)
      BY <1>8, <2>2, <3>5 DEF After, Verifying
    <3> QED
      BY <3>6 DEF o
  <2> QED
    BY <2>1, <2>2
<1>9. CASE o = Fail
  <2>1. o \in HostStates
    BY <1>h, <1>s, <1>9 DEF HostStates, Fail
  <2>2. o.phase = "failed" /\ o.pos = host.pos /\ o.eof = host.eof
    BY <1>h, <1>9 DEF HostStates, Fail
  <2> QED
    BY <2>1, <2>2 DEF After
<1>10. \/ o = Fail \/ host.phase = "connect" \/ (host.phase = "erase" /\ ok)
       \/ host.phase = "download" /\ (task.bin \/ ok)
       \/ (host.phase = "send" /\ (ok \/ host.tries < 3)) \/ (host.phase = "verify" /\ ok)
  BY <1>h, <1>t DEF Outcome, Phases, Working
<1> QED
  BY <1>1, <1>2, <1>3, <1>4, <1>5, <1>6, <1>7, <1>8, <1>9, <1>10, <1>h, <1>t

-----------------------------------------------------------------------------
(* An answer is taken.                                                     *)

LEMMA HeldIsFlashed ==
  ASSUME BootTypes, BufferIsFile, Verifying, Holds(host.at, host.buf),
         NEW a \in host.at .. host.at + Len(host.buf) - 1
  PROVE  FlashedAt(a)
<1> DEFINE i == a - host.at + 1
<1>1. host.at \in Nat /\ host.buf \in Seq(Int) /\ Len(host.buf) \in Nat
  BY DEF BootTypes, HostStates
<1>2. i \in DOMAIN host.buf /\ host.at + i - 1 = a /\ host.at + i = a + 1 /\ a \in Int
  BY <1>1
<1>3. FlashSize \in Nat
  BY BootAssumption DEF FlashSize
<1>4. host.at + Len(host.buf) <= FlashSize /\ device.flash[host.at + i - 1] = host.buf[i]
  BY <1>2 DEF Holds, InFlash
<1>5. host.buf[i] = host.at + i
  BY <1>2 DEF BufferIsFile
<1> HIDE DEF i
<1> QED
  <2>1. a < FlashSize
    BY <1>1, <1>3, <1>4
  <2>2. device.flash[a] = a + 1
    BY <1>2, <1>4, <1>5, Zenon
  <2> QED
    BY <2>1, <2>2 DEF FlashedAt

LEMMA ImageIsRead ==
  ASSUME BootTypes, ReadsOn, BufferIsFile, Verifying, host.eof
  PROVE  Image = ReadSoFar
<1>1. CASE task.bin
  BY <1>1 DEF Image, ReadSoFar, BufferIsFile
<1>2. CASE ~task.bin
  <2>1. host.pos = Len(task.records) /\ DOMAIN task.records = 1 .. Len(task.records)
    BY <1>2, TaskIs DEF ReadsOn, BootTypes
  <2> QED
    BY <1>2, <2>1 DEF Image, ReadSoFar, RecordAt
<1> QED
  BY <1>1, <1>2, TaskIs DEF BootTypes

LEMMA BaseOfNone == Base(0) = 0
<1>1. {l \in 1 .. 0 : task.records[l].type = "linear"} = {}
  OBVIOUS
<1> QED
  BY <1>1 DEF Base

\* What is said of the file stays.
LEMMA FileStays ==
  ASSUME task' = task
  PROVE  /\ StartAddress' = StartAddress /\ Image' = Image
         /\ \A k \in Nat : Base(k)' = Base(k) /\ RecordAt(k)' = RecordAt(k)
         /\ host'.pos = host.pos => ReadSoFar' = ReadSoFar
<1>1. StartAddress' = StartAddress
  BY DEF StartAddress
<1>2. \A k : Base(k)' = Base(k)
  BY DEF Base
<1>3. \A k : RecordAt(k)' = RecordAt(k)
  BY <1>2 DEF RecordAt
<1>4. Image' = Image
  BY <1>1, <1>2 DEF Image
<1>5. host'.pos = host.pos => ReadSoFar' = ReadSoFar
  BY <1>1, <1>3 DEF ReadSoFar
<1> QED
  BY <1>1, <1>2, <1>3, <1>4, <1>5

LEMMA AnswerTaken ==
  ASSUME BootInv, Working, NEW ok \in BOOLEAN, Agrees(host', Outcome(ok)), UNCHANGED <<task, device, toDevice>>,
         fromDevice' \in Seq(BootBytes), NoSix(fromDevice) => NoSix(fromDevice)',
         Verifying /\ ok => toDevice = <<>> /\ fromDevice' = <<>> /\ Holds(host.at, host.buf)
  PROVE  BootInv'
<1> DEFINE o == Outcome(ok)
<1>1. After(o, ok)
  BY OutcomeIs DEF BootInv
<1>3. /\ host' \in HostStates
      /\ host'.phase = o.phase /\ host'.step = o.step /\ host'.pos = o.pos /\ host'.eof = o.eof
      /\ host'.buf = o.buf /\ host'.at = o.at /\ host'.ext = o.ext /\ host'.prevEnd = o.prevEnd
  BY DEF Agrees, o
<1> HIDE DEF o
<1>4. /\ host'.phase = "failed" \/ host'.step # "crc"
      /\ Verifying' =>
           /\ host'.step = "read" /\ host'.prevEnd = NoEnd /\ host'.buf = <<>>
           /\ \/ /\ ~Verifying /\ host'.pos = 0 /\ ~host'.eof /\ host'.ext = 0
                 /\ host'.at = StartAddress
              \/ /\ Verifying /\ ok /\ ~host.eof /\ host'.pos = host.pos /\ host'.eof = host.eof
                 /\ host'.ext = host.ext /\ host'.at = host.at + Len(host.buf)
      /\ host'.phase = "done" => "verify" \notin task.options \/ (Verifying /\ ok /\ host.eof)
      /\ Verifying => host'.phase \in {"verify", "done", "failed"}
      /\ \/ host'.pos = 0 /\ ~host'.eof
         \/ /\ host'.pos = host.pos /\ host'.eof = host.eof
            /\ host'.step = "read" => task.bin \/ ~host.eof \/ host'.phase = "failed"
  BY <1>1, <1>3 DEF After, Verifying
<1>e. /\ Verifying' /\ Verifying => ok /\ host'.pos = host.pos
      /\ host'.phase = "done" => "verify" \notin task.options \/ (Verifying /\ ok /\ host.eof)
  <2>1. Verifying' /\ Verifying => ok
    BY <1>4, Zenon
  <2>2. Verifying' /\ Verifying => host'.pos = host.pos
    BY <1>4
  <2>3. host'.phase = "done" => "verify" \notin task.options \/ (Verifying /\ ok /\ host.eof)
    BY <1>4, Zenon
  <2> QED
    BY <2>1, <2>2, <2>3, Zenon
<1>5. BootTypes'
  BY <1>3 DEF BootInv, BootTypes
<1>6. ReadsOn'
  BY <1>4, TaskIs DEF BootInv, ReadsOn, BootTypes, Working
<1>7. StepsVerify'
  BY <1>4 DEF StepsVerify, Working, Verifying
<1>8. OneCrc'
  <2>1. ASSUME Working' PROVE NoCrc'
    <3>1. CASE Verifying
      <4>1. Verifying'
        BY <1>4, <2>1, <3>1 DEF Working, Verifying
      <4>2. toDevice' = <<>> /\ fromDevice' = <<>>
        BY <1>4, <3>1, <4>1
      <4> QED
        BY <4>2 DEF NoCrc, NoSix
    <3>2. CASE ~Verifying
      <4>1. NoCrc
        BY <3>2 DEF BootInv, OneCrc
      <4> QED
        BY <4>1 DEF NoCrc
    <3> QED
      BY <3>1, <3>2
  <2>2. ~(Verifying' /\ host'.step \in {"ack", "crc"})
    BY <1>4
  <2> QED
    BY <2>1, <2>2 DEF OneCrc
<1>9. BufferIsFile'
  <2>1. SUFFICES ASSUME Verifying' PROVE BufferIsFile'
    BY DEF BufferIsFile
  <2>2. host'.buf = <<>> /\ host'.prevEnd = NoEnd /\ Len(host'.buf) = 0
    BY <1>4, <2>1
  <2>3. StartAddress' = StartAddress /\ StartAddress \in Nat /\ Base(0)' = 0
        /\ Base(host.pos)' = Base(host.pos')
    BY BaseOfNone, TaskIs DEF StartAddress, Base, BootInv, BootTypes
  <2>4. CASE ~Verifying
    <3>1. host'.pos = 0 /\ host'.eof = FALSE /\ host'.ext = 0 /\ host'.at = StartAddress'
      BY <1>4, <2>1, <2>3, <2>4
    <3>2. Base(host.pos)' = 0
      BY <2>3, <3>1, BaseOfNone
    <3> QED
      BY <2>2, <2>3, <3>1, <3>2 DEF BufferIsFile
  <2>5. CASE Verifying
    <3>1. /\ host'.pos = host.pos /\ ~host'.eof /\ host'.ext = host.ext
          /\ host'.at = host.at + Len(host.buf)
      BY <1>4, <2>1, <2>5
    <3>2. Base(host.pos)' = Base(host.pos)
      BY <2>3, <3>1
    <3>3. host.at \in Nat /\ Len(host.buf) \in Nat
      BY DEF BootInv, BootTypes, HostStates
    <3> QED
      BY <2>2, <2>3, <2>5, <3>1, <3>2, <3>3 DEF BufferIsFile, BootInv
  <2> QED
    BY <2>4, <2>5
<1>10. ASSUME Verifying, ok, NEW a \in ReadSoFar PROVE FlashedAt(a)
  BY <1>10, HeldIsFlashed DEF BootInv, VerifiedSoFar
<1>11. VerifiedSoFar'
  <2>1. SUFFICES ASSUME Verifying', NEW a \in ReadSoFar' PROVE Harmless' /\ FlashedAt(a)'
    BY DEF VerifiedSoFar
  <2>2. CASE ~Verifying
    <3>1. host'.pos = 0 /\ StartAddress' \in Nat
      BY <1>4, <2>1, <2>2, TaskIs DEF BootInv, BootTypes, StartAddress
    <3>2. ReadSoFar' = {}
      BY <3>1 DEF ReadSoFar
    <3> QED
      BY <2>1, <3>2
  <2>3. CASE Verifying
    <3>a. ok /\ host'.pos = host.pos
      BY <1>e, <2>1, <2>3, Zenon
    <3>b. ReadSoFar' = ReadSoFar
      BY <3>a, FileStays
    <3>1. ok /\ ReadSoFar' = ReadSoFar
      BY <3>a, <3>b
    <3>2. FlashedAt(a)
      BY <1>10, <2>1, <2>3, <3>1
    <3> QED
      BY <2>3, <3>1, <3>2 DEF FlashedAt, Harmless
  <2> QED
    BY <2>2, <2>3
<1>12. DoneIsFlashed'
  <2>1. SUFFICES ASSUME Succeeds', "verify" \in task'.options PROVE toDevice' = <<>> /\ IsFlashed'
    BY DEF DoneIsFlashed
  <2>2. Verifying /\ ok /\ host.eof
    <3>1. host'.phase = "done" /\ task' = task
      BY <2>1 DEF Succeeds
    <3>2. "verify" \in task.options
      BY <2>1, <3>1
    <3> QED
      BY <1>e, <3>1, <3>2, Zenon
  <2>3. Image = ReadSoFar /\ Image' = Image
    BY <2>2, ImageIsRead, FileStays DEF BootInv
  <2>4. \A a \in Image : FlashedAt(a)
    BY <1>10, <2>2, <2>3
  <2> QED
    BY <2>2, <2>3, <2>4 DEF IsFlashed, FlashedAt
<1> QED
  BY <1>5, <1>6, <1>7, <1>8, <1>9, <1>11, <1>12 DEF BootInv

-----------------------------------------------------------------------------
(* The steps of the host.                                                  *)

\* A part of the answers is read.
LEMMA ReadsTake ==
  ASSUME BootTypes, NEW n \in 1 .. 6, Reads(n)
  PROVE  /\ fromDevice' \in Seq(BootBytes) /\ task' = task /\ device' = device
         /\ fromDevice' = SubSeq(fromDevice, n + 1, Len(fromDevice))
         /\ NoSix(fromDevice) => NoSix(fromDevice)'
<1>1. /\ task' = task /\ device' = device
      /\ fromDevice' = SubSeq(fromDevice, n + 1, Len(fromDevice))
  BY DEF Reads
<1>2. fromDevice \in Seq(BootBytes) /\ n \in Nat
  BY DEF BootTypes
<1>3. /\ fromDevice' \in Seq(BootBytes)
      /\ \A i \in DOMAIN fromDevice' : n + i \in DOMAIN fromDevice /\ fromDevice'[i] = fromDevice[n + i]
  BY <1>1, <1>2, RestIs
<1> QED
  BY <1>1, <1>3 DEF NoSix

\* Another command is sent.
LEMMA OneMore ==
  ASSUME NEW s \in Seq(BootCommands), NEW c \in BootCommands
  PROVE  /\ Append(s, c) \in Seq(BootCommands)
         /\ \A i \in DOMAIN Append(s, c) :
               Append(s, c)[i] = c \/ (i \in DOMAIN s /\ Append(s, c)[i] = s[i])
  OBVIOUS

\* In the other phases only the types and the progress in the file matter.
LEMMA OtherPhase ==
  ASSUME BootInv, Working, ~Verifying, host' \in HostStates, host'.phase = host.phase,
         host'.step # "crc", task' = task, device' = device, NoCrc',
         toDevice' \in Seq(BootCommands), fromDevice' \in Seq(BootBytes), ReadsOn'
  PROVE  BootInv'
<1>1. ~Verifying' /\ ~Succeeds'
  BY DEF Verifying, Working, Succeeds
<1>2. BootTypes'
  BY DEF BootInv, BootTypes
<1> QED
  BY <1>1, <1>2 DEF BootInv, StepsVerify, OneCrc, BufferIsFile, VerifiedSoFar, DoneIsFlashed

LEMMA RefuseKeeps == BootInv /\ Working /\ Refuse => BootInv'
<1> SUFFICES ASSUME BootInv, Working, Refuse PROVE BootInv'
  OBVIOUS
<1>1. host' = Outcome(FALSE) /\ UNCHANGED <<task, device, toDevice, fromDevice>>
  BY DEF Refuse
<1>2. Outcome(FALSE) \in HostStates
  BY OutcomeIs DEF BootInv, After
<1>3. Agrees(host', Outcome(FALSE))
  BY <1>1, <1>2 DEF Agrees
<1> QED
  BY <1>1, <1>3, AnswerTaken DEF BootInv, BootTypes, NoSix

LEMMA GetStatusKeeps == BootInv /\ Working /\ GetStatus => BootInv'
<1> SUFFICES ASSUME BootInv, Working, GetStatus PROVE BootInv'
  OBVIOUS
<1>1. /\ host.step = "getStatus" /\ host' = [host EXCEPT !.step = "statusAck"]
      /\ UNCHANGED <<task, fromDevice, device>> /\ Send([cmd |-> "status"])
  BY DEF GetStatus
<1>2. /\ toDevice \in Seq(BootCommands) /\ fromDevice \in Seq(BootBytes) /\ host \in HostStates
      /\ "statusAck" \in Steps
  BY DEF BootInv, BootTypes, Steps
<1>3. /\ host' \in HostStates /\ host'.phase = host.phase /\ host'.step = "statusAck"
      /\ host'.pos = host.pos /\ host'.eof = host.eof
  BY <1>1, <1>2 DEF HostStates
<1>4. ~Verifying
  BY <1>1 DEF BootInv, StepsVerify
<1>5. NoCrc
  BY <1>4 DEF BootInv, OneCrc
<1>6. PICK c \in BootCommands : c.cmd # "crc" /\ toDevice' \in {toDevice, Append(toDevice, c)}
  <2>1. [cmd |-> "status"] \in BootCommands /\ [cmd |-> "garbled"] \in BootCommands
    BY DEF BootCommands
  <2> QED
    BY <1>1, <2>1 DEF Send
<1>7. toDevice' \in Seq(BootCommands) /\ NoCrc'
  <2>1. CASE toDevice' = toDevice
    BY <1>1, <1>2, <1>5, <2>1 DEF NoCrc, NoSix
  <2>2. CASE toDevice' = Append(toDevice, c)
    <3>1. toDevice' \in Seq(BootCommands) /\ \A i \in DOMAIN toDevice' : toDevice'[i].cmd # "crc"
      BY <1>2, <1>5, <1>6, <2>2, OneMore DEF NoCrc
    <3> QED
      BY <1>1, <1>5, <3>1 DEF NoCrc, NoSix
  <2> QED
    BY <1>6, <2>1, <2>2
<1>8. ReadsOn'
  BY <1>1, <1>3 DEF BootInv, ReadsOn
<1> QED
  BY <1>1, <1>2, <1>3, <1>4, <1>7, <1>8, OtherPhase

LEMMA StatusAckKeeps == BootInv /\ Working /\ StatusAck => BootInv'
<1> SUFFICES ASSUME BootInv, Working, StatusAck PROVE BootInv'
  OBVIOUS
<1> DEFINE b == Bytes(2)
<1>1. host.step = "statusAck" /\ Reads(2) /\ toDevice' = toDevice
  BY DEF StatusAck
<1>2. BootTypes /\ host \in HostStates
  BY DEF BootInv, BootTypes
<1>3. b[2] \in BootBytes
  BY <1>2, BytesAre DEF BootTypes
<1>4. /\ fromDevice' \in Seq(BootBytes) /\ UNCHANGED <<task, device>>
      /\ NoSix(fromDevice) => NoSix(fromDevice)'
  BY <1>1, <1>2, ReadsTake
<1>5. ~Verifying
  BY <1>1 DEF BootInv, StepsVerify
<1>6. NoCrc'
  BY <1>1, <1>4, <1>5 DEF BootInv, OneCrc, NoCrc
<1>7. CASE b = <<"0", "cc">>
  <2>1. host' = [host EXCEPT !.step = "statusData", !.last = b[2]]
    BY <1>7 DEF StatusAck
  <2>2. ASSUME NEW r \in Steps, NEW x \in BootBytes
        PROVE  [host EXCEPT !.step = r, !.last = x] \in HostStates
    BY <1>2 DEF HostStates
  <2>3. "statusData" \in Steps
    BY DEF Steps
  <2>4. host' \in HostStates
    BY <1>3, <2>1, <2>2, <2>3
  <2>5. host'.phase = host.phase /\ host'.step = "statusData" /\ host'.pos = host.pos
        /\ host'.eof = host.eof
    BY <1>2, <2>1 DEF HostStates
  <2>6. ReadsOn'
    BY <1>4, <2>5 DEF BootInv, ReadsOn
  <2> QED
    BY <1>1, <1>2, <1>4, <1>5, <1>6, <2>4, <2>5, <2>6, OtherPhase DEF BootTypes
<1>8. CASE b # <<"0", "cc">>
  <2> DEFINE ok == host.status = "40" /\ (host.phase = "download" => host.ack = "cc")
  <2>1. host' = [Outcome(ok) EXCEPT !.last = b[2]]
    BY <1>8 DEF StatusAck, Judged
  <2>2. ok \in BOOLEAN
    OBVIOUS
  <2> HIDE DEF ok
  <2>3. Agrees(host', Outcome(ok))
    BY <1>2, <1>3, <2>1, <2>2, LastKept, OutcomeIs DEF After
  <2> QED
    BY <1>1, <1>4, <1>5, <2>2, <2>3, AnswerTaken
<1> QED
  BY <1>7, <1>8

LEMMA AnnouncedIs == Announced \in {1, 4, 99}
  BY DEF Announced

LEMMA StatusDataKeeps == BootInv /\ Working /\ StatusData => BootInv'
<1> SUFFICES ASSUME BootInv, Working, StatusData PROVE BootInv'
  OBVIOUS
<1>1. host.step = "statusData" /\ toDevice' = toDevice
  BY DEF StatusData
<1>2. BootTypes /\ host \in HostStates
  BY DEF BootInv, BootTypes
<1>3. ~Verifying
  BY <1>1 DEF BootInv, StepsVerify
<1>4. PICK n \in {2, 3}, s \in BootBytes, x \in BootBytes :
         /\ Reads(n)
         /\ \/ host' = [Judged(s) EXCEPT !.status = x, !.last = x]
            \/ host' = [Judged(s) EXCEPT !.last = x]
  <2>1. Bytes(3)[3] \in BootBytes /\ Bytes(2)[2] \in BootBytes /\ host.status \in BootBytes
    BY <1>2, BytesAre DEF BootTypes, HostStates
  <2> QED
    BY <2>1 DEF StatusData
<1> DEFINE ok == s = "40" /\ (host.phase = "download" => host.ack = "cc")
<1>5. ok \in BOOLEAN /\ Judged(s) = Outcome(ok)
  BY DEF Judged
<1> HIDE DEF ok
<1>6. Agrees(host', Outcome(ok))
  <2>1. Outcome(ok) \in HostStates
    BY <1>2, <1>5, OutcomeIs DEF After
  <2> QED
    BY <1>4, <1>5, <2>1, LastKept, Zenon
<1>7. /\ fromDevice' \in Seq(BootBytes) /\ UNCHANGED <<task, device>>
      /\ NoSix(fromDevice) => NoSix(fromDevice)'
  BY <1>2, <1>4, ReadsTake
<1> QED
  BY <1>1, <1>3, <1>5, <1>6, <1>7, AnswerTaken

\* The packet that begins the answers is that of this buffer's CRC.
LEMMA CrcKeeps == BootInv /\ Working /\ Crc => BootInv'
<1> SUFFICES ASSUME BootInv, Working, Crc PROVE BootInv'
  OBVIOUS
<1> DEFINE n == IF Announced <= 4 THEN 2 + Announced ELSE 2
           b == Bytes(n)
           ok == n = 6 /\ \A i \in 2 .. 6 : b[i] = "same"
<1>1. host.step = "crc" /\ Reads(n) /\ toDevice' = toDevice /\ host' = [Outcome(ok) EXCEPT !.last = b[n]]
  BY DEF Crc
<1>2. BootTypes /\ host \in HostStates /\ fromDevice \in Seq(BootBytes)
  BY DEF BootInv, BootTypes
<1>3. Verifying /\ host.last \in {"cc", "33"}
  BY <1>1 DEF BootInv, StepsVerify
<1>4. n \in {2, 3, 6} /\ n \in 1 .. 6
  BY AnnouncedIs
<1>5. n = 6 => Announced = 4
  BY AnnouncedIs
<1>6. b[n] \in BootBytes
  BY <1>2, <1>4, BytesAre
<1>7. ok \in BOOLEAN
  OBVIOUS
<1>8. /\ fromDevice' \in Seq(BootBytes) /\ UNCHANGED <<task, device>>
      /\ fromDevice' = SubSeq(fromDevice, n + 1, Len(fromDevice))
      /\ NoSix(fromDevice) => NoSix(fromDevice)'
  BY <1>1, <1>2, <1>4, ReadsTake
<1>9. ASSUME ok PROVE toDevice = <<>> /\ fromDevice' = <<>> /\ Holds(host.at, host.buf)
  <2>1. n = 6 /\ Announced = 4 /\ b[2] = "same"
    BY <1>5, <1>9
  <2>2. Bytes(1)[1] = "6"
    BY <2>1 DEF Announced
  <2>3. fromDevice # <<>>
    <3>1. SUFFICES ASSUME fromDevice = <<>> PROVE Bytes(1)[1] = host.last
      BY <1>3, <2>2
    <3> QED
      BY <1>2, <3>1, BytesAre
  <2>4. 1 \in DOMAIN fromDevice /\ fromDevice[1] = "6"
    <3>1. 1 \in DOMAIN fromDevice
      BY <1>2, <2>3
    <3> QED
      BY <1>2, <2>2, <3>1, BytesAre
  <2>5. CrcAnswered
    BY <1>1, <1>3, <2>4 DEF BootInv, OneCrc, NoCrc, CrcAsked, NoSix
  <2>6. PICK q \in Seq(BootBytes) :
           NoSix(q) /\ fromDevice = q \o CrcPacket(Holds(host.at, host.buf))
    BY <2>5 DEF CrcAnswered
  <2>7. q = <<>>
    <3>1. SUFFICES ASSUME q # <<>> PROVE FALSE
      OBVIOUS
    <3>2. 1 \in DOMAIN q /\ fromDevice[1] = q[1]
      BY <2>6, <3>1 DEF CrcPacket
    <3> QED
      BY <2>4, <2>6, <3>2 DEF NoSix
  <2>8. fromDevice = CrcPacket(Holds(host.at, host.buf))
    BY <2>6, <2>7 DEF CrcPacket
  <2>9. Len(fromDevice) = 6 /\ DOMAIN fromDevice = 1 .. 6
        /\ (~Holds(host.at, host.buf) => fromDevice[2] = "other")
    BY <2>8 DEF CrcPacket
  <2>10. fromDevice[2] = "same"
    BY <1>2, <1>4, <2>1, <2>9, BytesAre
  <2>11. fromDevice' = <<>>
    BY <1>2, <1>8, <2>1, <2>9, RestIs
  <2> QED
    BY <2>5, <2>9, <2>10, <2>11 DEF CrcAnswered
<1> HIDE DEF ok, n, b
<1>10. Agrees(host', Outcome(ok))
  <2>1. Outcome(ok) \in HostStates
    BY <1>2, <1>7, OutcomeIs DEF After
  <2> QED
    BY <1>1, <1>6, <2>1, LastKept
<1> QED
  BY <1>1, <1>7, <1>8, <1>9, <1>10, AnswerTaken

\* Two bytes before the packet are taken.
LEMMA RestBefore ==
  ASSUME NEW q \in Seq(BootBytes), NEW p \in Seq(BootBytes), Len(q) >= 2
  PROVE  /\ SubSeq(q \o p, 3, Len(q \o p)) = SubSeq(q, 3, Len(q)) \o p
         /\ SubSeq(q, 3, Len(q)) \in Seq(BootBytes)
         /\ NoSix(q) => NoSix(SubSeq(q, 3, Len(q)))
<1>1. /\ SubSeq(q, 3, Len(q)) \in Seq(BootBytes)
      /\ \A i \in DOMAIN SubSeq(q, 3, Len(q)) : 2 + i \in DOMAIN q /\ SubSeq(q, 3, Len(q))[i] = q[2 + i]
  BY RestIs, 2 \in Nat, 2 + 1 = 3
<1>2. SubSeq(q \o p, 3, Len(q \o p)) = SubSeq(q, 3, Len(q)) \o p
  <2> DEFINE s == SubSeq(q \o p, 3, Len(q \o p))
             t == SubSeq(q, 3, Len(q)) \o p
  <2>1. s \in Seq(BootBytes) /\ t \in Seq(BootBytes)
    BY <1>1
  <2>2. Len(s) = Len(t)
    BY <1>1
  <2>3. \A i \in 1 .. Len(s) : s[i] = t[i]
    BY <1>1, <2>2
  <2> HIDE DEF s, t
  <2>4. s = t
    BY <2>1, <2>2, <2>3, SeqEqual
  <2> QED
    BY <2>4 DEF s, t
<1> QED
  BY <1>1, <1>2 DEF NoSix

LEMMA GetAckKeeps == BootInv /\ Working /\ GetAck => BootInv'
<1> SUFFICES ASSUME BootInv, Working, GetAck PROVE BootInv'
  OBVIOUS
<1> DEFINE b == Bytes(2)
           ack == IsResponse(b)
           taken == [host EXCEPT !.last = b[2], !.ack = b[2]]
<1>1. host.step = "ack" /\ Reads(2) /\ toDevice' = toDevice
  BY DEF GetAck
<1>2. BootTypes /\ host \in HostStates /\ fromDevice \in Seq(BootBytes)
  BY DEF BootInv, BootTypes
<1>3. b[1] \in BootBytes /\ b[2] \in BootBytes
  BY <1>2, BytesAre
<1>4. /\ fromDevice' \in Seq(BootBytes) /\ UNCHANGED <<task, device>>
      /\ fromDevice' = SubSeq(fromDevice, 3, Len(fromDevice))
      /\ NoSix(fromDevice) => NoSix(fromDevice)'
  BY <1>1, <1>2, ReadsTake, 2 + 1 = 3, 2 \in 1 .. 6
<1>5. ack \in BOOLEAN
  BY DEF IsResponse
<1>t. /\ taken \in HostStates /\ taken.phase = host.phase /\ taken.step = host.step
      /\ taken.pos = host.pos /\ taken.eof = host.eof /\ taken.buf = host.buf /\ taken.at = host.at
      /\ taken.ext = host.ext /\ taken.prevEnd = host.prevEnd /\ taken.last = b[2]
      /\ taken.status = host.status
  <2>1. ASSUME NEW x \in BootBytes PROVE [host EXCEPT !.last = x, !.ack = x] \in HostStates
    BY <1>2 DEF HostStates
  <2>2. taken \in HostStates
    BY <1>3, <2>1
  <2> QED
    BY <1>2, <2>2 DEF HostStates
<1>6. CASE host.phase = "connect"
  <2>1. host' = [Outcome(ack) EXCEPT !.last = b[2]]
    BY <1>6 DEF GetAck
  <2>2. Outcome(ack) \in HostStates
    BY <1>2, <1>5, OutcomeIs DEF After
  <2>3. Agrees(host', Outcome(ack))
    BY <1>3, <2>1, <2>2, LastKept
  <2> QED
    BY <1>1, <1>4, <1>5, <1>6, <2>3, AnswerTaken DEF Verifying
<1>7. CASE host.phase # "connect" /\ (~ack \/ (b[2] = "33" /\ host.phase # "download"))
  <2>1. host' = [Outcome(FALSE) EXCEPT !.last = b[2]]
    BY <1>7 DEF GetAck
  <2>2. Outcome(FALSE) \in HostStates
    BY <1>2, OutcomeIs DEF After
  <2>3. Agrees(host', Outcome(FALSE))
    BY <1>3, <2>1, <2>2, LastKept
  <2> QED
    BY <1>1, <1>4, <1>7, <2>3, AnswerTaken
<1>8. CASE ack /\ Verifying /\ b[2] # "33"
  <2>1. host' = [taken EXCEPT !.step = "crc"]
    BY <1>8 DEF GetAck, Verifying
  <2>2. b[1] = "0" /\ b[2] = "cc"
    BY <1>8 DEF IsResponse
  <2>3. Len(fromDevice) >= 2 /\ fromDevice[1] = "0" /\ fromDevice[2] = "cc"
    <3>1. Len(fromDevice) \in Nat
      BY <1>2
    <3>2. Len(fromDevice) # 0 /\ Len(fromDevice) # 1
      BY <2>2, <3>1 DEF Bytes
    <3> QED
      BY <2>2, <3>1, <3>2 DEF Bytes
  <2> HIDE DEF taken, b
  <2>4. /\ host' \in HostStates /\ host'.phase = host.phase /\ host'.step = "crc"
        /\ host'.pos = host.pos /\ host'.eof = host.eof /\ host'.buf = host.buf
        /\ host'.at = host.at /\ host'.ext = host.ext /\ host'.prevEnd = host.prevEnd
        /\ host'.last = "cc"
    <3>1. "crc" \in Steps
      BY DEF Steps
    <3>2. host' \in HostStates
      BY <1>t, <2>1, <3>1 DEF HostStates
    <3> QED
      BY <1>t, <2>1, <2>2, <3>2 DEF HostStates
  <2>5. BootTypes' /\ ReadsOn' /\ StepsVerify' /\ DoneIsFlashed'
    BY <1>1, <1>2, <1>4, <1>8, <2>4
    DEF BootTypes, ReadsOn, StepsVerify, DoneIsFlashed, BootInv, Verifying, Succeeds, Working
  <2>6. BufferIsFile' /\ VerifiedSoFar'
    BY <1>1, <1>4, <1>8, <2>4, FileStays
    DEF BootInv, BootTypes, HostStates, BufferIsFile, VerifiedSoFar, Verifying, Harmless, FlashedAt
  <2>7. Verifying' /\ CrcCommand' = CrcCommand /\ Holds(host.at, host.buf)' = Holds(host.at, host.buf)
    BY <1>4, <1>8, <2>4 DEF CrcCommand, Verifying, Holds
  <2>8. OneCrc'
    <3>1. NoCrc \/ CrcAsked \/ CrcAnswered
      BY <1>1, <1>8 DEF BootInv, OneCrc
    <3>2. CASE NoCrc
      <4>1. NoCrc'
        BY <1>1, <1>4, <3>2 DEF NoCrc
      <4> QED
        BY <2>4, <2>7, <4>1 DEF OneCrc
    <3>3. CASE CrcAsked
      <4>1. CrcAsked'
        BY <1>1, <1>4, <2>7, <3>3 DEF CrcAsked
      <4> QED
        BY <2>4, <2>7, <4>1 DEF OneCrc
    <3>4. CASE CrcAnswered
      <4> DEFINE p == CrcPacket(Holds(host.at, host.buf))
      <4>1. PICK q \in Seq(BootBytes) : NoSix(q) /\ fromDevice = q \o p
        BY <3>4 DEF CrcAnswered
      <4>2. p \in Seq(BootBytes) /\ Len(p) = 6 /\ p[1] = "6"
        BY DEF CrcPacket, BootBytes
      <4>p. CrcPacket(Holds(host.at, host.buf))' = p
        BY <2>7 DEF CrcPacket
      <4> HIDE DEF p
      <4>3. Len(q) >= 2
        <5>1. Len(q) \in Nat
          BY <4>1
        <5>2. fromDevice[Len(q) + 1] = "6"
          <6>1. /\ Len(q) + 1 \in 1 .. Len(q) + Len(p) /\ ~(Len(q) + 1 <= Len(q))
                /\ (Len(q) + 1) - Len(q) = 1
            BY <4>2, <5>1
          <6>2. (q \o p)[Len(q) + 1] = p[(Len(q) + 1) - Len(q)]
            BY <4>2, <6>1, ConcatProperties
          <6> QED
            BY <4>1, <4>2, <6>1, <6>2
        <5> QED
          BY <2>3, <5>1, <5>2
      <4>4. /\ fromDevice' = SubSeq(q, 3, Len(q)) \o p /\ SubSeq(q, 3, Len(q)) \in Seq(BootBytes)
            /\ NoSix(SubSeq(q, 3, Len(q)))
        BY <1>4, <4>1, <4>2, <4>3, RestBefore
      <4>5. toDevice' = <<>>
        BY <1>1, <3>4 DEF CrcAnswered
      <4>6. CrcAnswered'
        BY <4>4, <4>5, <4>p DEF CrcAnswered, NoSix
      <4> QED
        BY <2>4, <2>7, <4>6 DEF OneCrc
    <3> QED
      BY <3>1, <3>2, <3>3, <3>4
  <2> QED
    BY <2>5, <2>6, <2>8 DEF BootInv
<1>9. CASE /\ ack /\ ~Verifying /\ host.phase # "connect"
           /\ ~(b[2] = "33" /\ host.phase # "download")
  <2>1. PICK s \in BootBytes : host' = [taken EXCEPT !.step = "getStatus", !.status = s]
    <3>1. host.status \in BootBytes /\ "0" \in BootBytes
      BY <1>2 DEF HostStates, BootBytes
    <3>2. host' = [taken EXCEPT !.step = "getStatus",
                                !.status = IF host.phase = "erase" THEN host.status ELSE "0"]
      BY <1>9, <1>t DEF GetAck, Verifying
    <3> QED
      BY <3>1, <3>2
  <2> HIDE DEF taken, b
  <2>2. ASSUME NEW r \in Steps, NEW x \in BootBytes
        PROVE  [taken EXCEPT !.step = r, !.status = x] \in HostStates
    BY <1>t DEF HostStates
  <2>3. "getStatus" \in Steps
    BY DEF Steps
  <2>4. host' \in HostStates
    BY <2>1, <2>2, <2>3
  <2>5. host'.phase = host.phase /\ host'.step = "getStatus" /\ host'.pos = host.pos
        /\ host'.eof = host.eof
    BY <1>t, <2>1 DEF HostStates
  <2>6. ReadsOn'
    BY <1>4, <2>5 DEF BootInv, ReadsOn
  <2>7. NoCrc'
    BY <1>1, <1>4, <1>9 DEF BootInv, OneCrc, NoCrc
  <2> QED
    BY <1>1, <1>2, <1>4, <1>9, <2>4, <2>5, <2>6, <2>7, OtherPhase DEF BootTypes
<1> QED
  BY <1>6, <1>7, <1>8, <1>9 DEF Verifying

LEMMA CommandKeeps == BootInv /\ Working /\ Command => BootInv'
<1> SUFFICES ASSUME BootInv, Working, Command PROVE BootInv'
  OBVIOUS
<1>1. /\ host.step = "call" /\ host' = [host EXCEPT !.step = "ack"]
      /\ UNCHANGED <<task, fromDevice, device>>
  BY DEF Command
<1>2. /\ BootTypes /\ host \in HostStates /\ toDevice \in Seq(BootCommands)
      /\ fromDevice \in Seq(BootBytes) /\ host.buf \in Seq(Int)
  BY DEF BootInv, BootTypes, HostStates
<1>3. /\ host' \in HostStates /\ host'.phase = host.phase /\ host'.step = "ack"
      /\ host'.pos = host.pos /\ host'.eof = host.eof /\ host'.buf = host.buf
      /\ host'.at = host.at /\ host'.ext = host.ext /\ host'.prevEnd = host.prevEnd
  <2>1. "ack" \in Steps
    BY DEF Steps
  <2> QED
    BY <1>1, <1>2, <2>1 DEF HostStates
<1>4. ReadsOn'
  BY <1>1, <1>3 DEF BootInv, ReadsOn
<1>5. NoCrc
  BY <1>1 DEF BootInv, OneCrc
<1>6. [cmd |-> "garbled"] \in BootCommands
  BY DEF BootCommands
<1>7. CASE ~Verifying
  <2>1. PICK c \in BootCommands : c.cmd # "crc" /\ Send(c)
    <3>1. /\ SyncCommand \in BootCommands /\ SyncCommand.cmd # "crc"
          /\ EraseCommand \in BootCommands /\ EraseCommand.cmd # "crc"
          /\ DownloadCommand \in BootCommands /\ DownloadCommand.cmd # "crc"
          /\ DataCommand \in BootCommands /\ DataCommand.cmd # "crc"
      <4>1. host.page \in Int /\ host.at \in Int /\ Announces \in Int
        BY <1>2, TaskIs DEF HostStates, Announces, BootTypes
      <4>2. Chunk \in Seq(Int)
        <5>1. Fewer(MaxTransfer, Len(host.buf)) \in 0 .. Len(host.buf)
          BY <1>2, BootAssumption DEF Fewer
        <5> QED
          BY <1>2, <5>1, PartIs DEF Chunk
      <4> HIDE DEF Announces
      <4> QED
        BY <4>1, <4>2 DEF BootCommands, SyncCommand, EraseCommand, DownloadCommand, DataCommand
    <3>2. host.phase \in {"connect", "erase", "download", "send"}
      BY <1>2, <1>7 DEF HostStates, Phases, Working, Verifying
    <3> QED
      BY <3>1, <3>2 DEF Command
  <2>2. /\ toDevice' \in Seq(BootCommands)
        /\ \A i \in DOMAIN toDevice' : toDevice'[i].cmd # "crc"
    <3>1. CASE toDevice' = toDevice
      BY <1>2, <1>5, <3>1 DEF NoCrc
    <3>2. CASE toDevice' = Append(toDevice, c)
      BY <1>2, <1>5, <2>1, <3>2, OneMore DEF NoCrc
    <3>3. CASE toDevice' = Append(toDevice, [cmd |-> "garbled"])
      BY <1>2, <1>5, <1>6, <3>3, OneMore DEF NoCrc
    <3> QED
      BY <2>1, <3>1, <3>2, <3>3 DEF Send
  <2>3. NoCrc'
    BY <1>1, <1>5, <2>2 DEF NoCrc, NoSix
  <2> QED
    BY <1>1, <1>2, <1>3, <1>4, <1>7, <2>2, <2>3, OtherPhase
<1>8. CASE Verifying
  <2>1. Send(CrcCommand)
    BY <1>8 DEF Command, Verifying
  <2>2. CrcCommand \in BootCommands /\ CrcCommand.cmd = "crc" /\ CrcCommand' = CrcCommand
    <3>1. host.at \in Int
      BY <1>2 DEF HostStates
    <3> QED
      BY <1>2, <1>3, <3>1 DEF CrcCommand, BootCommands
  <2>3. toDevice' \in Seq(BootCommands) /\ (NoCrc \/ CrcAsked)' /\ (Harmless => Harmless')
    <3>1. CASE toDevice' = toDevice
      BY <1>1, <1>2, <1>5, <3>1 DEF NoCrc, NoSix, Harmless
    <3>2. CASE toDevice' = Append(toDevice, CrcCommand)
      <4>1. CrcAsked'
        BY <1>1, <1>2, <1>5, <2>2, <3>2 DEF CrcAsked, NoCrc, NoSix
      <4>2. toDevice' \in Seq(BootCommands) /\ (Harmless => Harmless')
        BY <1>2, <2>2, <3>2, OneMore DEF Harmless
      <4> QED
        BY <4>1, <4>2
    <3>3. CASE toDevice' = Append(toDevice, [cmd |-> "garbled"])
      <4>1. /\ toDevice' \in Seq(BootCommands) /\ (Harmless => Harmless')
            /\ \A i \in DOMAIN toDevice' : toDevice'[i].cmd # "crc"
        BY <1>2, <1>5, <1>6, <3>3, OneMore DEF Harmless, NoCrc
      <4> QED
        BY <1>1, <1>5, <4>1 DEF NoCrc, NoSix
    <3> QED
      BY <2>1, <3>1, <3>2, <3>3 DEF Send
  <2>4. Verifying' /\ ~Succeeds'
    BY <1>3, <1>8 DEF Verifying, Succeeds
  <2>5. BootTypes' /\ StepsVerify' /\ DoneIsFlashed' /\ OneCrc'
    BY <1>1, <1>2, <1>3, <2>3, <2>4
    DEF BootTypes, StepsVerify, DoneIsFlashed, OneCrc, Verifying
  <2>6. BufferIsFile' /\ VerifiedSoFar'
    BY <1>1, <1>3, <1>8, <2>3, FileStays
    DEF BootInv, BootTypes, HostStates, BufferIsFile, VerifiedSoFar, FlashedAt
  <2> QED
    BY <1>4, <2>5, <2>6 DEF BootInv
<1> QED
  BY <1>7, <1>8

LEMMA UnitsAre ==
  ASSUME NEW a \in Nat, NEW n \in Nat
  PROVE  /\ Units(a, n) \in Seq(Int) /\ Len(Units(a, n)) = n
         /\ DOMAIN Units(a, n) = 1 .. n /\ \A i \in 1 .. n : Units(a, n)[i] = a + i
  BY DEF Units

\* Reading puts into the buffer what has not been verified.
LEMMA FileRead ==
  ASSUME BootInv, Working, host.step = "read", UNCHANGED <<task, toDevice, fromDevice, device>>,
         host' \in HostStates, host'.phase = host.phase, host'.step \in {"call", "read"}, ReadsOn',
         Verifying => /\ BufferIsFile'
                      /\ \A a \in ReadSoFar' :
                            \/ a \in host'.at .. host'.at + Len(host'.buf) - 1
                            \/ a \in ReadSoFar /\ a \notin host.at .. host.at + Len(host.buf) - 1
  PROVE  BootInv'
<1>1. BootTypes
  BY DEF BootInv
<1>2. NoCrc /\ NoCrc'
  BY DEF BootInv, OneCrc, NoCrc, NoSix
<1>3. CASE ~Verifying
  BY <1>1, <1>2, <1>3, OtherPhase DEF BootTypes
<1>4. CASE Verifying
  <2>1. Verifying' /\ ~Succeeds'
    BY <1>4 DEF Verifying, Succeeds
  <2>2. VerifiedSoFar'
    <3>1. SUFFICES ASSUME NEW a \in ReadSoFar'
                   PROVE  \/ a \in host'.at .. host'.at + Len(host'.buf) - 1
                          \/ Harmless' /\ FlashedAt(a)'
      BY DEF VerifiedSoFar
    <3>2. CASE a \in host'.at .. host'.at + Len(host'.buf) - 1
      BY <3>2
    <3>3. CASE a \in ReadSoFar /\ a \notin host.at .. host.at + Len(host.buf) - 1
      <4>1. Harmless /\ FlashedAt(a)
        BY <1>4, <3>3 DEF BootInv, VerifiedSoFar
      <4> QED
        BY <4>1 DEF Harmless, FlashedAt
    <3> QED
      BY <1>4, <3>1, <3>2, <3>3
  <2>3. BootTypes' /\ StepsVerify' /\ DoneIsFlashed' /\ OneCrc'
    BY <1>1, <1>2, <2>1 DEF BootTypes, StepsVerify, DoneIsFlashed, OneCrc
  <2> QED
    BY <1>4, <2>2, <2>3 DEF BootInv
<1> QED
  BY <1>3, <1>4

LEMMA ReadBinaryKeeps == BootInv /\ Working /\ ReadBinary => BootInv'
<1> SUFFICES ASSUME BootInv, Working, ReadBinary PROVE BootInv'
  OBVIOUS
<1> DEFINE n == Fewer(BufferSize, task.size - host.pos)
<1>1. /\ host.step = "read" /\ task.bin /\ UNCHANGED <<task, toDevice, fromDevice, device>>
      /\ host' = [host EXCEPT !.buf = Units(StartAddress + host.pos, n), !.pos = @ + n,
                              !.eof = n < BufferSize, !.step = "call"]
  BY DEF ReadBinary
<1>2. BootTypes /\ host \in HostStates /\ host.pos \in Nat /\ host.at \in Nat /\ host.buf \in Seq(Int)
  BY DEF BootInv, BootTypes, HostStates
<1>3. StartAddress \in Nat /\ task.size \in Nat /\ BufferSize \in Nat /\ host.pos <= task.size
  BY <1>1, <1>2, TaskIs, BootAssumption DEF BootInv, BootTypes, ReadsOn
<1>4. /\ n \in Nat /\ host.pos + n \in Nat /\ host.pos + n <= task.size
      /\ n < BufferSize => host.pos + n = task.size
  BY <1>2, <1>3 DEF Fewer
<1> DEFINE u == Units(StartAddress + host.pos, n)
<1>5. /\ u \in Seq(Int) /\ Len(u) = n /\ DOMAIN u = 1 .. n
      /\ \A i \in 1 .. n : u[i] = StartAddress + host.pos + i
  <2>1. StartAddress + host.pos \in Nat
    BY <1>2, <1>3
  <2> QED
    BY <1>4, <2>1, UnitsAre
<1> HIDE DEF u, n
<1>6. /\ host' \in HostStates /\ host'.phase = host.phase /\ host'.step = "call"
      /\ host'.pos = host.pos + n /\ (host'.eof <=> n < BufferSize) /\ host'.buf = u
      /\ host'.at = host.at /\ host'.ext = host.ext
  <2>1. ASSUME NEW x \in Seq(Int), NEW p \in Nat, NEW e \in BOOLEAN, NEW r \in Steps
        PROVE  [host EXCEPT !.buf = x, !.pos = p, !.eof = e, !.step = r] \in HostStates
    BY <1>2 DEF HostStates
  <2>2. "call" \in Steps /\ (n < BufferSize) \in BOOLEAN
    BY DEF Steps
  <2>3. host' = [host EXCEPT !.buf = u, !.pos = host.pos + n, !.eof = (n < BufferSize),
                             !.step = "call"]
    BY <1>1 DEF u, n
  <2>4. host' \in HostStates
    BY <1>4, <1>5, <2>1, <2>2, <2>3
  <2> QED
    BY <1>2, <2>3, <2>4 DEF HostStates
<1>7. ReadsOn'
  BY <1>1, <1>4, <1>6 DEF ReadsOn
<1>8. ASSUME Verifying
      PROVE  /\ BufferIsFile'
             /\ \A a \in ReadSoFar' :
                   \/ a \in host'.at .. host'.at + Len(host'.buf) - 1
                   \/ a \in ReadSoFar /\ a \notin host.at .. host.at + Len(host.buf) - 1
  <2>1. host.buf = <<>> /\ host.at = StartAddress + host.pos
    BY <1>1, <1>2, <1>3, <1>8 DEF BootInv, BufferIsFile
  <2>2. StartAddress' = StartAddress
    BY <1>1, FileStays
  <2>3. BufferIsFile'
    <3>1. \A i \in DOMAIN host'.buf : host'.buf[i] = host'.at + i
      BY <1>5, <1>6, <2>1
    <3>2. host'.at + Len(host'.buf) = StartAddress' + host'.pos
      BY <1>2, <1>3, <1>4, <1>5, <1>6, <2>1, <2>2
    <3>3. host'.eof => host'.pos = task'.size
      BY <1>1, <1>4, <1>6
    <3> QED
      BY <1>1, <1>6, <3>1, <3>2, <3>3 DEF BufferIsFile
  <2>4. host'.at .. host'.at + Len(host'.buf) - 1 = host.at .. host.at + n - 1
    BY <1>5, <1>6
  <2>5. /\ ReadSoFar' = StartAddress .. StartAddress + (host.pos + n) - 1
        /\ ReadSoFar = StartAddress .. StartAddress + host.pos - 1
    BY <1>1, <1>6, <2>2 DEF ReadSoFar
  <2>6. host.at .. host.at + Len(host.buf) - 1 = {}
    BY <1>2, <2>1
  <2>7. ASSUME NEW a \in ReadSoFar' PROVE a \in host.at .. host.at + n - 1 \/ a \in ReadSoFar
    BY SMTT(30), <1>2, <1>3, <1>4, <2>1, <2>5
  <2> QED
    BY <2>3, <2>4, <2>6, <2>7
<1> QED
  BY <1>1, <1>6, <1>7, <1>8, FileRead

\* The base that the next record is read with.
LEMMA NextBase ==
  ASSUME task \in Tasks, ~task.bin, NEW k \in Nat, k + 1 \in DOMAIN task.records
  PROVE  Base(k + 1) = IF task.records[k + 1].type = "linear" THEN task.records[k + 1].base
                       ELSE Base(k)
<1> DEFINE linear(m) == {l \in 1 .. m : task.records[l].type = "linear"}
<1>1. CASE task.records[k + 1].type = "linear"
  <2>1. k + 1 \in linear(k + 1) /\ \A l \in linear(k + 1) : l \in Int /\ l <= k + 1
    BY <1>1
  <2>2. linear(k + 1) # {}
    BY <2>1
  <2>3. Base(k + 1) = task.records[Max(linear(k + 1))].base
    BY <2>2 DEF Base
  <2> HIDE DEF linear
  <2>4. Max(linear(k + 1)) = k + 1
    BY <2>1 DEF Max
  <2> QED
    BY <1>1, <2>3, <2>4
<1>2. CASE task.records[k + 1].type # "linear"
  <2>1. linear(k + 1) = linear(k)
    BY <1>2
  <2> QED
    BY <1>2, <2>1 DEF Base
<1> QED
  BY <1>1, <1>2

LEMMA LongerBuffer ==
  ASSUME NEW a \in Nat, NEW l \in Nat, NEW e \in Nat, NEW f \in Nat, NEW n \in Nat, a + l = e + f
  PROVE  /\ a + (l + n) = e + (f + n)
         /\ \A x \in e + f .. e + f + n - 1 : x \in a .. a + (l + n) - 1
  OBVIOUS

LEMMA EmptyBuffer ==
  ASSUME ~task'.bin, host'.buf = <<>>, host'.step = "call", host'.ext = Base(host.pos)'
  PROVE  BufferIsFile'
<1>1. DOMAIN host'.buf = {}
  OBVIOUS
<1>2. \A i \in DOMAIN host'.buf : host'.buf[i] = host'.at + i
  BY <1>1
<1> QED
  BY <1>2 DEF BufferIsFile

LEMMA ReadRecordKeeps == BootInv /\ Working /\ ReadRecord => BootInv'
<1> SUFFICES ASSUME BootInv, Working, ReadRecord PROVE BootInv'
  OBVIOUS
<1> DEFINE r == task.records[host.pos + 1]
           first == host.prevEnd = NoEnd
           begun == [host EXCEPT !.at = IF first THEN host.ext + r.at ELSE @]
           read == [begun EXCEPT !.pos = @ + 1, !.prevEnd = r.at + r.size]
           follows == first \/ host.prevEnd = r.at
           u == Units(host.ext + r.at, r.size)
           at == IF first THEN host.ext + r.at ELSE host.at
<1>1. /\ host.step = "read" /\ ~task.bin /\ UNCHANGED <<task, toDevice, fromDevice, device>>
      /\ host' = IF ~follows \/ Len(host.buf) + r.size >= BufferSize
                 THEN [begun EXCEPT !.step = "call"]
                 ELSE CASE r.type = "data" -> [read EXCEPT !.buf = @ \o u]
                        [] r.type = "linear" ->
                             [read EXCEPT !.ext = r.base, !.buf = <<>>, !.step = "call"]
                        [] r.type = "end" -> [read EXCEPT !.eof = TRUE, !.step = "call"]
  BY DEF ReadRecord
<1>2. /\ BootTypes /\ host \in HostStates /\ host.pos \in Nat /\ host.at \in Nat /\ host.ext \in Nat
      /\ host.buf \in Seq(Int) /\ host.prevEnd \in Int /\ host.eof \in BOOLEAN
  BY DEF BootInv, BootTypes, HostStates
<1>3. /\ ~host.eof /\ host.pos + 1 \in DOMAIN task.records /\ Len(task.records) \in Nat
      /\ host.pos + 1 <= Len(task.records)
  BY SMTT(30), <1>1, <1>2, TaskIs DEF BootInv, BootTypes, ReadsOn
<1>4. /\ r \in HexRecords /\ (r.type = "end" <=> host.pos + 1 = Len(task.records))
      /\ r.type # "data" => r.at = 0 /\ r.size = 0
  BY <1>1, <1>2, <1>3, TaskIs DEF BootTypes
<1>5. r.at \in Nat /\ r.size \in Nat /\ r.base \in Nat /\ r.type \in {"data", "linear", "end"}
  BY <1>4 DEF HexRecords
<1> HIDE DEF r
<1>6. at \in Nat /\ begun = [host EXCEPT !.at = at]
  BY <1>2, <1>5
<1>7. u \in Seq(Int) /\ Len(u) = r.size /\ \A i \in 1 .. r.size : u[i] = host.ext + r.at + i
  <2>1. host.ext + r.at \in Nat
    BY <1>2, <1>5
  <2> QED
    BY <1>5, <2>1, UnitsAre
<1> HIDE DEF u
<1>8. /\ BootInv /\ Working /\ host.step = "read" /\ UNCHANGED <<task, toDevice, fromDevice, device>>
  BY <1>1
<1>9. ASSUME Verifying
      PROVE  /\ host.ext = Base(host.pos)
             /\ first => host.buf = <<>> /\ Len(host.buf) = 0
             /\ follows => at + Len(host.buf) = host.ext + r.at /\ at >= host.ext
             /\ r.type # "linear" => Base(host.pos + 1) = host.ext
             /\ r.type = "linear" => Base(host.pos + 1) = r.base
             /\ RecordAt(host.pos + 1) =
                   Base(host.pos + 1) + r.at .. Base(host.pos + 1) + r.at + r.size - 1
             /\ \A i \in DOMAIN host.buf : host.buf[i] = host.at + i
             /\ ReadSoFar = UNION {RecordAt(k) : k \in 1 .. host.pos}
             /\ host'.pos = host.pos => ReadSoFar' = ReadSoFar
             /\ host'.pos = host.pos + 1 => ReadSoFar' = ReadSoFar \cup RecordAt(host.pos + 1)
             /\ host'.pos \in Nat => Base(host.pos)' = Base(host'.pos)
  <2>1. /\ host.ext = Base(host.pos) /\ \A i \in DOMAIN host.buf : host.buf[i] = host.at + i
        /\ first => host.buf = <<>>
        /\ ~first => host.at + Len(host.buf) = host.ext + host.prevEnd /\ host.at >= host.ext
    BY <1>1, <1>9 DEF BootInv, BufferIsFile
  <2>2. first => host.buf = <<>> /\ Len(host.buf) = 0
    BY <2>1
  <2>3. follows => at + Len(host.buf) = host.ext + r.at /\ at >= host.ext
    BY <1>2, <1>5, <2>1, <2>2
  <2>4. /\ r.type # "linear" => Base(host.pos + 1) = host.ext
        /\ r.type = "linear" => Base(host.pos + 1) = r.base
    BY <1>1, <1>2, <1>3, <2>1, NextBase DEF r, BootTypes
  <2>5. RecordAt(host.pos + 1) =
          Base(host.pos + 1) + r.at .. Base(host.pos + 1) + r.at + r.size - 1
    BY DEF RecordAt, r
  <2>6. ReadSoFar = UNION {RecordAt(k) : k \in 1 .. host.pos}
    BY <1>1 DEF ReadSoFar
  <2>7. host'.pos = host.pos => ReadSoFar' = ReadSoFar
    BY <1>1, FileStays
  <2>8. ASSUME host'.pos = host.pos + 1
        PROVE  ReadSoFar' = ReadSoFar \cup RecordAt(host.pos + 1)
    <3>1. ReadSoFar' = UNION {RecordAt(k)' : k \in 1 .. host.pos + 1}
      BY <1>1, <2>8 DEF ReadSoFar
    <3>2. \A k \in Nat : RecordAt(k)' = RecordAt(k)
      BY <1>1, FileStays
    <3>3. 1 .. host.pos + 1 = (1 .. host.pos) \cup {host.pos + 1} /\ 1 .. host.pos + 1 \subseteq Nat
      BY <1>2
    <3> HIDE <1>1
    <3>4. ReadSoFar' = UNION {RecordAt(k) : k \in 1 .. host.pos + 1}
      BY <3>1, <3>2, <3>3
    <3> QED
      BY <2>6, <3>3, <3>4
  <2>9. host'.pos \in Nat => Base(host.pos)' = Base(host'.pos)
    BY <1>1, FileStays DEF Base
  <2> QED
    BY <2>1, <2>2, <2>3, <2>4, <2>5, <2>6, <2>7, <2>8, <2>9
<1>s. "call" \in Steps /\ "read" \in Steps
  BY DEF Steps
<1> HIDE DEF at, begun
<1>b. /\ begun \in HostStates /\ begun.phase = host.phase /\ begun.step = host.step
      /\ begun.pos = host.pos /\ begun.eof = host.eof /\ begun.buf = host.buf /\ begun.at = at
      /\ begun.ext = host.ext /\ begun.prevEnd = host.prevEnd
  BY <1>2, <1>6 DEF HostStates
<1>d. /\ read \in HostStates /\ read.phase = host.phase /\ read.step = host.step
      /\ read.pos = host.pos + 1 /\ read.eof = host.eof /\ read.buf = host.buf /\ read.at = at
      /\ read.ext = host.ext /\ read.prevEnd = r.at + r.size
  <2>1. ASSUME NEW p \in Nat, NEW e \in Int
        PROVE  [begun EXCEPT !.pos = p, !.prevEnd = e] \in HostStates
    BY <1>b DEF HostStates
  <2>2. host.pos + 1 \in Nat /\ r.at + r.size \in Int
    BY <1>2, <1>5
  <2>3. read = [begun EXCEPT !.pos = host.pos + 1, !.prevEnd = r.at + r.size]
    BY <1>b
  <2>4. read \in HostStates
    BY <2>1, <2>2, <2>3
  <2> HIDE DEF read
  <2> QED
    BY <1>b, <2>3, <2>4 DEF HostStates
<1> HIDE DEF read
<1>11. CASE ~follows \/ Len(host.buf) + r.size >= BufferSize
  <2>1. host' = [begun EXCEPT !.step = "call"]
    BY <1>1, <1>11
  <2>2. host' \in HostStates
    BY <1>b, <1>s, <2>1 DEF HostStates
  <2>3. /\ host'.phase = host.phase /\ host'.step = "call" /\ host'.pos = host.pos
        /\ host'.eof = host.eof /\ host'.buf = host.buf /\ host'.at = at /\ host'.ext = host.ext
    BY <1>b, <2>1 DEF HostStates
  <2>4. ReadsOn'
    BY <1>1, <2>3 DEF BootInv, ReadsOn
  <2>5. ASSUME Verifying
        PROVE  /\ BufferIsFile'
               /\ \A a \in ReadSoFar' :
                     \/ a \in host'.at .. host'.at + Len(host'.buf) - 1
                     \/ a \in ReadSoFar /\ a \notin host.at .. host.at + Len(host.buf) - 1
    <3>1. CASE first
      <4>1. host.buf = <<>> /\ Len(host.buf) = 0
        BY <1>9, <2>5, <3>1
      <4> QED
        <5>1. host'.ext = Base(host.pos)' /\ ReadSoFar' = ReadSoFar
          BY <1>2, <1>9, <2>3, <2>5
        <5>2. host.at .. host.at + Len(host.buf) - 1 = {}
          BY <1>2, <4>1
        <5> QED
          BY <1>1, <2>3, <4>1, <5>1, <5>2, EmptyBuffer
    <3>2. CASE ~first
      <4>1. at = host.at
        BY <3>2 DEF at
      <4> QED
        BY <1>1, <1>2, <1>9, <2>3, <2>5, <4>1 DEF BufferIsFile
    <3> QED
      BY <3>1, <3>2
  <2> QED
    BY <1>8, <2>2, <2>3, <2>4, <2>5, FileRead
<1>12. CASE follows /\ ~(Len(host.buf) + r.size >= BufferSize) /\ r.type = "data"
  <2>1. host' = [read EXCEPT !.buf = host.buf \o u]
    BY <1>1, <1>12, <1>d
  <2>2. /\ host.buf \o u \in Seq(Int) /\ Len(host.buf \o u) = Len(host.buf) + r.size
        /\ DOMAIN (host.buf \o u) = 1 .. Len(host.buf) + r.size /\ Len(host.buf) \in Nat
        /\ \A i \in 1 .. Len(host.buf) + r.size :
             (host.buf \o u)[i] = IF i <= Len(host.buf) THEN host.buf[i] ELSE u[i - Len(host.buf)]
    <3>1. /\ host.buf \o u \in Seq(Int) /\ Len(host.buf \o u) = Len(host.buf) + Len(u)
          /\ \A i \in 1 .. Len(host.buf) + Len(u) :
               (host.buf \o u)[i] = IF i <= Len(host.buf) THEN host.buf[i] ELSE u[i - Len(host.buf)]
      BY <1>2, <1>7, ConcatProperties
    <3>2. DOMAIN (host.buf \o u) = 1 .. Len(host.buf) + Len(u) /\ Len(host.buf) \in Nat
      BY <1>2, <3>1
    <3> QED
      BY <1>7, <3>1, <3>2
  <2>3. host' \in HostStates
    BY <1>d, <2>1, <2>2 DEF HostStates
  <2>4. /\ host'.phase = host.phase /\ host'.step = "read" /\ host'.pos = host.pos + 1
        /\ host'.eof = host.eof /\ host'.buf = host.buf \o u /\ host'.at = at
        /\ host'.ext = host.ext /\ host'.prevEnd = r.at + r.size
    BY <1>1, <1>d, <2>1 DEF HostStates
  <2>5. ReadsOn'
    BY <1>1, <1>2, <1>3, <1>4, <1>12, <2>4 DEF ReadsOn
  <2>6. ASSUME Verifying
        PROVE  /\ BufferIsFile'
               /\ \A a \in ReadSoFar' :
                     \/ a \in host'.at .. host'.at + Len(host'.buf) - 1
                     \/ a \in ReadSoFar /\ a \notin host.at .. host.at + Len(host.buf) - 1
    <3>1. at + Len(host.buf) = host.ext + r.at /\ at >= host.ext
      BY <1>9, <1>12, <2>6
    <3>a. Len(host'.buf) = Len(host.buf) + r.size /\ Len(host.buf) \in Nat
      BY <2>2, <2>4
    <3>b. host'.at = at /\ host'.ext = host.ext /\ host'.prevEnd = r.at + r.size
      BY <2>4
    <3>2. ASSUME NEW i \in DOMAIN host'.buf PROVE host'.buf[i] = host'.at + i
      <4>1. i \in 1 .. Len(host.buf) + r.size
        BY <2>2, <2>4, <3>2
      <4>2. CASE i <= Len(host.buf)
        <5>1. i \in DOMAIN host.buf /\ host.buf[i] = host.at + i
          BY <1>2, <1>9, <2>2, <2>6, <4>1, <4>2
        <5>2. ~first
          BY <1>9, <2>2, <2>6, <4>1, <4>2
        <5>3. at = host.at
          BY <5>2 DEF at
        <5> QED
          BY <2>2, <2>4, <4>1, <4>2, <5>1, <5>3
      <4>3. CASE ~(i <= Len(host.buf))
        <5>1. i - Len(host.buf) \in 1 .. r.size
          BY <1>5, <2>2, <4>1, <4>3
        <5>2. (host.buf \o u)[i] = host.ext + r.at + (i - Len(host.buf))
          BY <1>7, <2>2, <4>1, <4>3, <5>1
        <5> QED
          BY <1>2, <1>5, <1>6, <2>2, <2>4, <3>1, <4>1, <5>2
      <4> QED
        BY <4>2, <4>3
    <3>3. BufferIsFile'
      <4>1. host'.at + Len(host'.buf) = host'.ext + host'.prevEnd /\ host'.at >= host'.ext
        <5>1. host'.at + Len(host'.buf) = host'.ext + host'.prevEnd
          <6>1. host.ext \in Nat /\ at \in Nat /\ r.at \in Nat /\ r.size \in Nat
            BY <1>2, <1>5, <1>6
          <6>l. Len(host.buf) \in Nat /\ at + Len(host.buf) = host.ext + r.at
            BY <3>1, <3>a
          <6> DEFINE l == Len(host.buf)
                     e == host.ext
                     f == r.at
                     n == r.size
          <6>2. at \in Nat /\ l \in Nat /\ e \in Nat /\ f \in Nat /\ n \in Nat /\ at + l = e + f
            BY <6>1, <6>l
          <6> HIDE DEF l, e, f, n
          <6>4. at + (l + n) = e + (f + n)
            BY <6>2
          <6>3. at + (Len(host.buf) + r.size) = host.ext + (r.at + r.size)
            BY <6>4 DEF l, e, f, n
          <6> QED
            BY <3>a, <3>b, <6>3
        <5> QED
          BY <3>1, <3>b, <5>1
      <4>2. host'.ext = Base(host.pos)'
        BY <1>2, <1>9, <1>12, <2>4, <2>6
      <4>3. host'.prevEnd # NoEnd
        BY <1>5, <2>4 DEF NoEnd
      <4> QED
        BY <1>1, <2>4, <3>2, <4>1, <4>2, <4>3 DEF BufferIsFile
    <3>4. ASSUME NEW a \in ReadSoFar'
          PROVE  \/ a \in host'.at .. host'.at + Len(host'.buf) - 1
                 \/ a \in ReadSoFar /\ a \notin host.at .. host.at + Len(host.buf) - 1
      <4>1. a \in ReadSoFar \/ a \in RecordAt(host.pos + 1)
        BY <1>9, <2>4, <2>6, <3>4
      <4>2. ASSUME a \in RecordAt(host.pos + 1)
            PROVE  a \in host'.at .. host'.at + Len(host'.buf) - 1
        <5>1. a \in host.ext + r.at .. host.ext + r.at + r.size - 1
          BY <1>9, <1>12, <2>6, <4>2
        <5> QED
          <6>1. host.ext \in Nat /\ at \in Nat /\ r.at \in Nat /\ r.size \in Nat
            BY <1>2, <1>5, <1>6
          <6>2. a \in at .. at + (Len(host.buf) + r.size) - 1
            BY <3>1, <3>a, <5>1, <6>1, LongerBuffer
          <6> QED
            BY <3>a, <3>b, <6>2
      <4>3. ASSUME a \in host.at .. host.at + Len(host.buf) - 1
            PROVE  a \in host'.at .. host'.at + Len(host'.buf) - 1
        <5>1. Len(host.buf) # 0
          BY <1>2, <4>3
        <5>2. at = host.at
          BY <1>9, <2>6, <5>1 DEF at
        <5> QED
          BY <1>2, <1>5, <2>2, <2>4, <4>3, <5>2
      <4> QED
        BY <4>1, <4>2, <4>3
    <3> QED
      BY <3>3, <3>4
  <2> QED
    BY <1>8, <2>3, <2>4, <2>5, <2>6, FileRead
<1>13. CASE follows /\ ~(Len(host.buf) + r.size >= BufferSize) /\ r.type = "linear"
  <2>1. host' = [read EXCEPT !.ext = r.base, !.buf = <<>>, !.step = "call"]
    BY <1>1, <1>13
  <2>2. host' \in HostStates
    <3>1. ASSUME NEW e \in Nat, NEW x \in Seq(Int), NEW t \in Steps
          PROVE  [read EXCEPT !.ext = e, !.buf = x, !.step = t] \in HostStates
      BY <1>d DEF HostStates
    <3>2. <<>> \in Seq(Int)
      OBVIOUS
    <3> QED
      BY <1>5, <1>s, <2>1, <3>1, <3>2
  <2>3. /\ host'.phase = host.phase /\ host'.step = "call" /\ host'.pos = host.pos + 1
        /\ host'.eof = host.eof /\ host'.buf = <<>> /\ host'.at = at /\ host'.ext = r.base
    BY <1>d, <2>1 DEF HostStates
  <2>4. ReadsOn'
    BY <1>1, <1>2, <1>3, <1>4, <1>13, <2>3 DEF ReadsOn
  <2>5. ASSUME Verifying
        PROVE  /\ BufferIsFile'
               /\ \A a \in ReadSoFar' :
                     \/ a \in host'.at .. host'.at + Len(host'.buf) - 1
                     \/ a \in ReadSoFar /\ a \notin host.at .. host.at + Len(host.buf) - 1
    <3>1. Len(host.buf) \in Nat /\ r.at = 0 /\ r.size = 0
      BY <1>2, <1>4, <1>13
    <3>2. Len(host.buf) = 0
      BY <1>2, <1>6, <1>9, <1>13, <2>5, <3>1
    <3>3. RecordAt(host.pos + 1) = {}
      <4>1. RecordAt(host.pos + 1) = r.base + r.at .. r.base + r.at + r.size - 1
        BY <1>9, <1>13, <2>5
      <4> QED
        BY <1>5, <3>1, <4>1
    <3>4. BufferIsFile'
      <4>1. host'.ext = Base(host.pos)'
        BY <1>2, <1>9, <1>13, <2>3, <2>5
      <4> QED
        BY <1>1, <2>3, <4>1, EmptyBuffer
    <3>5. ReadSoFar' = ReadSoFar
      BY <1>9, <2>3, <2>5, <3>3
    <3>6. host.at .. host.at + Len(host.buf) - 1 = {}
      BY <1>2, <3>2
    <3> QED
      BY <3>4, <3>5, <3>6
  <2> QED
    BY <1>8, <2>2, <2>3, <2>4, <2>5, FileRead
<1>14. CASE follows /\ ~(Len(host.buf) + r.size >= BufferSize) /\ r.type = "end"
  <2>1. host' = [read EXCEPT !.eof = TRUE, !.step = "call"]
    BY <1>1, <1>14
  <2>2. host' \in HostStates
    <3>1. ASSUME NEW e \in BOOLEAN, NEW t \in Steps
          PROVE  [read EXCEPT !.eof = e, !.step = t] \in HostStates
      BY <1>d DEF HostStates
    <3> QED
      BY <1>s, <2>1, <3>1
  <2>3. /\ host'.phase = host.phase /\ host'.step = "call" /\ host'.pos = host.pos + 1
        /\ host'.eof /\ host'.buf = host.buf /\ host'.at = at /\ host'.ext = host.ext
    BY <1>d, <2>1 DEF HostStates
  <2>4. ReadsOn'
    BY <1>1, <1>2, <1>3, <1>4, <1>14, <2>3 DEF ReadsOn
  <2>5. ASSUME Verifying
        PROVE  /\ BufferIsFile'
               /\ \A a \in ReadSoFar' :
                     \/ a \in host'.at .. host'.at + Len(host'.buf) - 1
                     \/ a \in ReadSoFar /\ a \notin host.at .. host.at + Len(host.buf) - 1
    <3>1. r.at = 0 /\ r.size = 0
      BY <1>4, <1>14
    <3>2. RecordAt(host.pos + 1) = {}
      <4>1. RecordAt(host.pos + 1) = host.ext + r.at .. host.ext + r.at + r.size - 1
        BY <1>9, <1>14, <2>5
      <4> QED
        BY <1>2, <3>1, <4>1
    <3>3. host'.ext = Base(host.pos)'
      BY <1>2, <1>9, <1>14, <2>3, <2>5
    <3>4. ReadSoFar' = ReadSoFar
      BY <1>9, <2>3, <2>5, <3>2
    <3>5. CASE first
      <4>1. host.buf = <<>> /\ Len(host.buf) = 0
        BY <1>9, <2>5, <3>5
      <4> QED
        <5>1. host.at .. host.at + Len(host.buf) - 1 = {}
          BY <1>2, <4>1
        <5> QED
          BY <1>1, <2>3, <3>3, <3>4, <4>1, <5>1, EmptyBuffer
    <3>6. CASE ~first
      <4>1. at = host.at
        BY <3>6 DEF at
      <4> QED
        BY <1>1, <1>2, <1>9, <2>3, <2>5, <3>3, <3>4, <4>1 DEF BufferIsFile
    <3> QED
      BY <3>5, <3>6
  <2> QED
    BY <1>8, <2>2, <2>3, <2>4, <2>5, FileRead
<1> QED
  BY <1>5, <1>11, <1>12, <1>13, <1>14
-----------------------------------------------------------------------------
(* The steps of the device.                                                *)

LEMMA HandleIs ==
  ASSUME BootTypes, NEW c \in BootCommands, NEW d \in Handle(c)
  PROVE  d \in DeviceStates /\ (c.cmd \in {"crc", "garbled"} => d = device)
<1> DEFINE F == 0 .. FlashSize - 1
<1>1. /\ device \in DeviceStates /\ device.flash \in [F -> Int] /\ device.ptr \in Int
      /\ device.left \in Int
  BY DEF BootTypes, DeviceStates
<1>a. \A a \in F : device.flash[a] \in Int
  BY <1>1
<1>b. DOMAIN device.flash = F
  BY <1>1
<1>2. ASSUME NEW s \in {"40", "42", "44"} PROVE [device EXCEPT !.status = s] \in DeviceStates
  BY <1>1 DEF DeviceStates
<1>c. "40" \in {"40", "42", "44"} /\ "42" \in {"40", "42", "44"} /\ "44" \in {"40", "42", "44"}
  OBVIOUS
<1>3. CASE c.cmd = "erase"
  <2> DEFINE f == [a \in DOMAIN device.flash |-> IF a \div PageSize = c.page THEN Erased
                                                 ELSE device.flash[a]]
  <2>1. \/ d = [device EXCEPT !.status = "44"]
        \/ d = [device EXCEPT !.status = "40", !.flash = f]
    BY <1>3 DEF Handle
  <2>2. f \in [F -> Int]
    <3>1. f = [a \in F |-> IF a \div PageSize = c.page THEN Erased ELSE device.flash[a]]
      BY <1>b
    <3>2. Erased \in Int
      BY DEF Erased
    <3> HIDE DEF F, f
    <3> QED
      BY <1>a, <3>1, <3>2
  <2>3. ASSUME NEW g \in [F -> Int], NEW s \in {"40", "42", "44"}
        PROVE  [device EXCEPT !.status = s, !.flash = g] \in DeviceStates
    BY <1>1 DEF DeviceStates
  <2> HIDE DEF f, F
  <2> QED
    BY <1>2, <1>c, <1>3, <2>1, <2>2, <2>3
<1>4. CASE c.cmd = "download"
  <2>1. d = [device EXCEPT !.ptr = c.at, !.left = c.size, !.status = "40"]
    BY <1>4 DEF Handle
  <2>2. c.at \in Int /\ c.size \in Int
    BY <1>4 DEF BootCommands
  <2>3. ASSUME NEW p \in Int, NEW n \in Int, NEW s \in {"40", "42", "44"}
        PROVE  [device EXCEPT !.ptr = p, !.left = n, !.status = s] \in DeviceStates
    BY <1>1 DEF DeviceStates
  <2>4. d \in DeviceStates
    BY <1>c, <2>1, <2>2, <2>3
  <2> QED
    BY <1>4, <2>4
<1>5. CASE c.cmd = "data"
  <2>1. d = [device EXCEPT !.status = "42"] \/ d = Programmed(c.data)
    BY <1>5 DEF Handle
  <2>2. c.data \in Seq(Int) /\ Len(c.data) \in Nat
    BY <1>5 DEF BootCommands
  <2> DEFINE f == [a \in DOMAIN device.flash |->
                     LET i == a - device.ptr + 1
                     IN IF i \notin DOMAIN c.data THEN device.flash[a]
                        ELSE IF device.flash[a] = Erased THEN c.data[i] ELSE Mixed]
             p == device.ptr + Len(c.data)
             n == IF device.left < Len(c.data) THEN 0 ELSE device.left - Len(c.data)
  <2>3. Programmed(c.data) = [device EXCEPT !.flash = f, !.ptr = p, !.left = n, !.status = "40"]
    BY DEF Programmed
  <2>4. f \in [F -> Int]
    <3>1. \A i \in DOMAIN c.data : c.data[i] \in Int
      BY <2>2
    <3>2. Mixed \in Int
      BY DEF Mixed
    <3>3. f = [a \in F |-> LET i == a - device.ptr + 1
                          IN IF i \notin DOMAIN c.data THEN device.flash[a]
                             ELSE IF device.flash[a] = Erased THEN c.data[i] ELSE Mixed]
      BY <1>b
    <3> HIDE DEF F, f
    <3> QED
      BY <1>a, <3>1, <3>2, <3>3
  <2>5. p \in Int /\ n \in Int
    BY <1>1, <2>2
  <2>6. ASSUME NEW g \in [F -> Int], NEW q \in Int, NEW m \in Int, NEW s \in {"40", "42", "44"}
        PROVE  [device EXCEPT !.flash = g, !.ptr = q, !.left = m, !.status = s] \in DeviceStates
    BY <1>1 DEF DeviceStates
  <2> HIDE DEF f, p, n, F
  <2>7. d \in DeviceStates
    <3>1. [device EXCEPT !.status = "42"] \in DeviceStates
      BY <1>2, <1>c
    <3>2. Programmed(c.data) \in DeviceStates
      <4>1. [device EXCEPT !.flash = f, !.ptr = p, !.left = n, !.status = "40"] \in DeviceStates
        BY <1>c, <2>4, <2>5, <2>6
      <4> QED
        BY <2>3, <4>1
    <3> QED
      BY <2>1, <3>1, <3>2
  <2> QED
    BY <1>5, <2>7
<1>6. CASE c.cmd \notin {"erase", "download", "data"}
  BY <1>1, <1>6 DEF Handle
<1> QED
  BY <1>3, <1>4, <1>5, <1>6

LEMMA NoSixBoth ==
  ASSUME NEW p \in Seq(BootBytes), NEW q \in Seq(BootBytes), NoSix(p), NoSix(q)
  PROVE  p \o q \in Seq(BootBytes) /\ NoSix(p \o q)
  BY DEF NoSix

\* Only the answer to a CRC command holds a packet of a CRC.
LEMMA AnswerIs ==
  ASSUME BootTypes, Device
  PROVE  \E x \in Seq(BootBytes) :
            /\ fromDevice' = fromDevice \/ fromDevice' = fromDevice \o x
            /\ Head(toDevice).cmd # "crc" => NoSix(x)
            /\ Head(toDevice).cmd = "crc" =>
                 x = Ack \o CrcPacket(Holds(Head(toDevice).at, Head(toDevice).data))
<1> DEFINE c == Head(toDevice)
           p == CrcPacket(Holds(c.at, c.data))
           x == CASE c.cmd = "garbled" -> Nack
                  [] c.cmd = "status" -> Ack \o StatusPacket
                  [] c.cmd = "crc" -> Ack \o p
                  [] OTHER -> Ack
<1>1. fromDevice' = fromDevice \/ fromDevice' = fromDevice \o x
  BY DEF Device, Answer
<1>2. CASE c.cmd = "crc"
  <2>1. x = Ack \o p
    BY <1>2
  <2>2. p \in Seq(BootBytes) /\ Ack \in Seq(BootBytes)
    BY DEF CrcPacket, Ack, BootBytes
  <2> HIDE DEF p, x
  <2>3. x \in Seq(BootBytes)
    BY <2>1, <2>2
  <2> QED
    BY <1>1, <1>2, <2>1, <2>3 DEF p
<1>3. CASE c.cmd # "crc"
  <2>1. device.status \in {"40", "42", "44"}
    BY DEF BootTypes, DeviceStates
  <2>2. x = Nack \/ x = Ack \o StatusPacket \/ x = Ack
    BY <1>3
  <2>3. Nack \in Seq(BootBytes) /\ Ack \in Seq(BootBytes) /\ NoSix(Nack) /\ NoSix(Ack)
    BY DEF Nack, Ack, BootBytes, NoSix
  <2>4. StatusPacket \in Seq(BootBytes) /\ NoSix(StatusPacket)
    BY <2>1 DEF StatusPacket, BootBytes, NoSix
  <2>5. Ack \o StatusPacket \in Seq(BootBytes) /\ NoSix(Ack \o StatusPacket)
    BY <2>3, <2>4, NoSixBoth
  <2> HIDE DEF x
  <2>6. x \in Seq(BootBytes) /\ NoSix(x)
    BY <2>2, <2>3, <2>4, <2>5
  <2> QED
    BY <1>1, <1>3, <2>6
<1> QED
  BY <1>2, <1>3

LEMMA TailIs ==
  ASSUME NEW S, NEW s \in Seq(S), s # <<>>
  PROVE  /\ Head(s) \in S /\ Head(s) = s[1] /\ 1 \in DOMAIN s /\ Tail(s) \in Seq(S)
         /\ \A i \in DOMAIN Tail(s) : i + 1 \in DOMAIN s /\ Tail(s)[i] = s[i + 1]
  OBVIOUS

LEMMA ThreeParts ==
  ASSUME NEW p \in Seq(BootBytes), NEW q \in Seq(BootBytes), NEW r \in Seq(BootBytes)
  PROVE  p \o (q \o r) = (p \o q) \o r
<1> DEFINE s == p \o (q \o r)
           t == (p \o q) \o r
<1>1. s \in Seq(BootBytes) /\ t \in Seq(BootBytes) /\ Len(s) = Len(t)
  OBVIOUS
<1>2. \A i \in 1 .. Len(s) : s[i] = t[i]
  OBVIOUS
<1> HIDE DEF s, t
<1>3. s = t
  BY <1>1, <1>2, SeqEqual
<1> QED
  BY <1>3 DEF s, t

\* The commands before the last one.
LEMMA LastTaken ==
  ASSUME NEW p \in Seq(BootCommands), NEW c \in BootCommands
  PROVE  /\ p = <<>> => Head(Append(p, c)) = c /\ Tail(Append(p, c)) = <<>>
         /\ p # <<>> => /\ Head(Append(p, c)) = p[1] /\ 1 \in DOMAIN p
                        /\ Tail(p) \in Seq(BootCommands)
                        /\ Tail(Append(p, c)) = Append(Tail(p), c)
                        /\ \A i \in DOMAIN Tail(p) : i + 1 \in DOMAIN p /\ Tail(p)[i] = p[i + 1]
<1>1. CASE p = <<>>
  <2>1. Append(p, c) = <<c>>
    BY <1>1
  <2> QED
    BY <1>1, <2>1
<1>2. CASE p # <<>>
  <2>1. /\ Head(p) = p[1] /\ 1 \in DOMAIN p /\ Tail(p) \in Seq(BootCommands)
        /\ \A i \in DOMAIN Tail(p) : i + 1 \in DOMAIN p /\ Tail(p)[i] = p[i + 1]
    BY <1>2, TailIs
  <2>2. Head(Append(p, c)) = p[1]
    BY <1>2
  <2>3. Tail(Append(p, c)) = Append(Tail(p), c)
    <3>1. /\ Tail(Append(p, c)) \in Seq(BootCommands) /\ Append(Tail(p), c) \in Seq(BootCommands)
          /\ Len(Tail(Append(p, c))) = Len(p) /\ Len(Append(Tail(p), c)) = Len(p)
      BY <1>2, <2>1
    <3>2. \A i \in 1 .. Len(p) : Tail(Append(p, c))[i] = Append(Tail(p), c)[i]
      BY <1>2, <2>1
    <3> QED
      BY <3>1, <3>2, SeqEqual
  <2> QED
    BY <1>2, <2>1, <2>2, <2>3
<1> QED
  BY <1>1, <1>2

LEMMA DeviceKeeps == BootInv /\ Device => BootInv'
<1> SUFFICES ASSUME BootInv, Device PROVE BootInv'
  OBVIOUS
<1> DEFINE c == Head(toDevice)
<1>1. /\ toDevice # <<>> /\ toDevice' = Tail(toDevice) /\ UNCHANGED <<task, host>>
      /\ device' \in Handle(c)
  BY DEF Device
<1>2. BootTypes /\ toDevice \in Seq(BootCommands) /\ fromDevice \in Seq(BootBytes)
  BY DEF BootInv, BootTypes
<1>3. /\ c \in BootCommands /\ c = toDevice[1] /\ 1 \in DOMAIN toDevice
      /\ toDevice' \in Seq(BootCommands)
      /\ \A i \in DOMAIN toDevice' : i + 1 \in DOMAIN toDevice /\ toDevice'[i] = toDevice[i + 1]
  BY <1>1, <1>2, TailIs
<1>4. device' \in DeviceStates /\ (c.cmd \in {"crc", "garbled"} => device' = device)
  BY <1>1, <1>2, <1>3, HandleIs
<1>5. PICK x \in Seq(BootBytes) :
         /\ fromDevice' = fromDevice \/ fromDevice' = fromDevice \o x
         /\ c.cmd # "crc" => NoSix(x)
         /\ c.cmd = "crc" => x = Ack \o CrcPacket(Holds(c.at, c.data))
  BY <1>2, AnswerIs
<1> HIDE DEF c
<1>6. BootTypes'
  <2>1. fromDevice' \in Seq(BootBytes)
    <3>1. fromDevice \o x \in Seq(BootBytes)
      BY <1>2, ConcatProperties
    <3> QED
      BY <1>2, <1>5, <3>1
  <2> QED
    BY <1>1, <1>2, <1>3, <1>4, <2>1 DEF BootTypes
<1>7. ReadsOn' /\ StepsVerify'
  BY <1>1 DEF BootInv, ReadsOn, StepsVerify, Verifying, Working
<1>8. BufferIsFile'
  BY <1>1, FileStays DEF BootInv, BootTypes, HostStates, BufferIsFile, Verifying
<1>9. VerifiedSoFar'
  <2>1. SUFFICES ASSUME Verifying, NEW a \in ReadSoFar, Harmless, FlashedAt(a)
                 PROVE  Harmless' /\ FlashedAt(a)'
    BY <1>1, FileStays DEF BootInv, VerifiedSoFar, Verifying
  <2>2. c.cmd \in {"crc", "garbled"} /\ Harmless'
    BY <1>3, <2>1 DEF Harmless
  <2> QED
    BY <1>4, <2>1, <2>2 DEF FlashedAt
<1>10. DoneIsFlashed'
  <2>1. ~(Succeeds /\ "verify" \in task.options)
    BY <1>1 DEF BootInv, DoneIsFlashed
  <2> QED
    BY <1>1, <2>1 DEF DoneIsFlashed, Succeeds
<1>11. ASSUME NoSix(fromDevice), c.cmd # "crc" PROVE NoSix(fromDevice)'
  <2>1. NoSix(fromDevice \o x)
    BY <1>2, <1>5, <1>11, NoSixBoth
  <2> QED
    BY <1>5, <1>11, <2>1 DEF NoSix
<1>12. ASSUME NoCrc PROVE NoCrc'
  <2>1. c.cmd # "crc"
    BY <1>3, <1>12 DEF NoCrc
  <2> QED
    BY <1>3, <1>11, <1>12, <2>1 DEF NoCrc
<1>13. ASSUME CrcAsked PROVE (NoCrc \/ CrcAsked \/ CrcAnswered)'
  <2>1. PICK p \in Seq(BootCommands) :
           /\ toDevice = Append(p, CrcCommand)
           /\ \A i \in DOMAIN p : p[i].cmd # "crc"
           /\ NoSix(fromDevice)
    BY <1>13 DEF CrcAsked
  <2>2. CrcCommand \in BootCommands /\ CrcCommand' = CrcCommand /\ CrcCommand.cmd = "crc"
        /\ CrcCommand.at = host.at /\ CrcCommand.data = host.buf
    <3>1. host.at \in Int /\ host.buf \in Seq(Int)
      BY <1>2 DEF BootTypes, HostStates
    <3> QED
      BY <1>1, <3>1 DEF CrcCommand, BootCommands
  <2>3. CASE p = <<>>
    <3>1. c = CrcCommand /\ toDevice' = <<>>
      BY <1>1, <2>1, <2>2, <2>3, LastTaken DEF c
    <3>2. device' = device /\ x = Ack \o CrcPacket(Holds(host.at, host.buf))
      BY <1>4, <1>5, <2>2, <3>1
    <3>3. CASE fromDevice' = fromDevice
      BY <2>1, <3>1, <3>3 DEF NoCrc, NoSix
    <3>4. CASE fromDevice' = fromDevice \o x
      <4> DEFINE packet == CrcPacket(Holds(host.at, host.buf))
      <4>1. packet' = packet
        BY <1>1, <3>2 DEF Holds, CrcPacket
      <4>2. packet \in Seq(BootBytes) /\ Ack \in Seq(BootBytes) /\ NoSix(Ack)
        BY DEF CrcPacket, Ack, BootBytes, NoSix
      <4> HIDE DEF packet
      <4>3. fromDevice' = (fromDevice \o Ack) \o packet
        <5>1. fromDevice \o (Ack \o packet) = (fromDevice \o Ack) \o packet
          BY <1>2, <4>2, ThreeParts
        <5>2. fromDevice' = fromDevice \o (Ack \o packet)
          BY <3>2, <3>4 DEF packet
        <5> QED
          BY <5>1, <5>2
      <4>4. fromDevice \o Ack \in Seq(BootBytes) /\ NoSix(fromDevice \o Ack)
        BY <1>2, <2>1, <4>2, NoSixBoth
      <4>5. CrcAnswered'
        <5> DEFINE q == fromDevice \o Ack
        <5>1. q \in Seq(BootBytes) /\ NoSix(q) /\ fromDevice' = q \o packet'
          BY <4>1, <4>3, <4>4
        <5> HIDE DEF q
        <5> QED
          BY <3>1, <5>1 DEF CrcAnswered, packet
      <4> QED
        BY <4>5
    <3> QED
      BY <1>5, <3>3, <3>4
  <2>4. CASE p # <<>>
    <3>1. c = p[1] /\ 1 \in DOMAIN p /\ toDevice' = Append(Tail(p), CrcCommand)
          /\ Tail(p) \in Seq(BootCommands)
          /\ \A i \in DOMAIN Tail(p) : i + 1 \in DOMAIN p /\ Tail(p)[i] = p[i + 1]
      BY <1>1, <2>1, <2>2, <2>4, LastTaken DEF c
    <3>2. NoSix(fromDevice)' /\ \A i \in DOMAIN Tail(p) : Tail(p)[i].cmd # "crc"
      BY <1>11, <2>1, <3>1
    <3>3. CrcAsked'
      BY <2>2, <3>1, <3>2 DEF CrcAsked
    <3> QED
      BY <3>3
  <2> QED
    BY <2>3, <2>4
<1>14. OneCrc'
  <2>1. ~CrcAnswered
    BY <1>1 DEF CrcAnswered
  <2>2. CASE Verifying /\ host.step \in {"ack", "crc"}
    <3>1. (NoCrc \/ CrcAsked \/ CrcAnswered)'
      BY <1>12, <1>13, <2>1, <2>2 DEF BootInv, OneCrc
    <3> QED
      BY <1>1, <2>2, <3>1 DEF OneCrc, Verifying
  <2>3. CASE ~(Verifying /\ host.step \in {"ack", "crc"})
    <3>1. Working => NoCrc'
      BY <1>12, <2>3 DEF BootInv, OneCrc
    <3> QED
      BY <1>1, <2>3, <3>1 DEF OneCrc, Verifying, Working
  <2> QED
    BY <2>2, <2>3
<1> QED
  BY <1>6, <1>7, <1>8, <1>9, <1>10, <1>14 DEF BootInv

-----------------------------------------------------------------------------
LEMMA InitBootInv == BootInit => BootInv
<1> SUFFICES ASSUME BootInit PROVE BootInv
  OBVIOUS
<1>1. /\ task \in Tasks /\ toDevice = <<>> /\ fromDevice = <<>>
      /\ host = [phase |-> "connect", step |-> "call", page |-> 0, tries |-> 0,
                 pos |-> 0, eof |-> FALSE, buf |-> <<>>, at |-> 0, ext |-> 0,
                 prevEnd |-> NoEnd, ack |-> "0", status |-> "0", last |-> "0"]
      /\ device = [flash |-> [a \in 0 .. FlashSize - 1 |-> Old], ptr |-> NoDownload, left |-> 0,
                   status |-> "40"]
  BY DEF BootInit
<1>2. host \in HostStates
  BY <1>1 DEF HostStates, Phases, Steps, BootBytes, NoEnd
<1>3. device \in DeviceStates
  BY <1>1 DEF DeviceStates, Old, NoDownload
<1>4. BootTypes
  BY <1>1, <1>2, <1>3 DEF BootTypes
<1>5. host.phase = "connect" /\ host.step = "call" /\ host.pos = 0 /\ ~host.eof
  BY <1>1
<1>6. ReadsOn
  BY <1>1, <1>5, TaskIs DEF ReadsOn
<1>7. NoCrc
  BY <1>1 DEF NoCrc, NoSix
<1> QED
  BY <1>4, <1>5, <1>6, <1>7
  DEF BootInv, StepsVerify, OneCrc, BufferIsFile, VerifiedSoFar, DoneIsFlashed, Verifying, Succeeds

LEMMA NextBootInv == BootInv /\ [BootNext]_bootVars => BootInv'
<1> SUFFICES ASSUME BootInv, [BootNext]_bootVars PROVE BootInv'
  OBVIOUS
<1>1. CASE HostStep
  BY <1>1, ReadBinaryKeeps, ReadRecordKeeps, CommandKeeps, RefuseKeeps, GetAckKeeps,
     GetStatusKeeps, StatusAckKeeps, StatusDataKeeps, CrcKeeps DEF HostStep
<1>2. CASE Device
  BY <1>2, DeviceKeeps
<1>3. CASE UNCHANGED bootVars
  <2>1. UNCHANGED <<task, host, toDevice, fromDevice, device>>
    BY <1>3 DEF bootVars
  <2>2. BootTypes' /\ ReadsOn' /\ StepsVerify'
    BY <2>1 DEF BootInv, BootTypes, ReadsOn, StepsVerify, Verifying, Working
  <2>3. BufferIsFile' /\ VerifiedSoFar'
    BY <2>1, FileStays
    DEF BootInv, BootTypes, HostStates, BufferIsFile, VerifiedSoFar, Verifying, Harmless, FlashedAt
  <2>4. DoneIsFlashed'
    BY <2>1, FileStays DEF BootInv, DoneIsFlashed, Succeeds, IsFlashed
  <2>5. OneCrc'
    BY <2>1
    DEF BootInv, OneCrc, NoCrc, NoSix, CrcAsked, CrcAnswered, CrcCommand, CrcPacket, Holds, InFlash,
        Verifying, Working
  <2> QED
    BY <2>2, <2>3, <2>4, <2>5 DEF BootInv
<1> QED
  BY <1>1, <1>2, <1>3 DEF BootNext

\* The commands, their answers and the buffer relate as BootInv says.
THEOREM BootInvariant == BootSpec => []BootInv
<1> QED
  BY InitBootInv, NextBootInv, PTL DEF BootSpec

\* main's success after CcDnld_verifyData means that every unit of the file is
\* in the flash, whatever was lost, late or garbled on the line, for every
\* file, size of the flash, of the buffer and of the transfers.
THEOREM VerifiedStays == BootSpec => []VerifiedIsFlashed
<1>1. BootInv => VerifiedIsFlashed
  BY DEF BootInv, DoneIsFlashed, VerifiedIsFlashed
<1> QED
  BY <1>1, BootInvariant, PTL

=============================================================================
