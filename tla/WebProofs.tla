----------------------------- MODULE WebProofs -----------------------------
(***************************************************************************)
(* For any number of connections and of broadcasts: a broadcast that runs  *)
(* alone is sent once to each connection and reaches all of them, and one  *)
(* is freed under it only if it died between the look and the mark.  For   *)
(* any number of devices and of events, breaks and requests: what the      *)
(* gateway shows becomes what the collector is.                            *)
(***************************************************************************)
EXTENDS Broadcast, Gateway, SequenceTheorems, TLAPS

-----------------------------------------------------------------------------
(* The inductive invariant.                                                *)

ThreadSteps == {"idle", "scan", "mark", "send", "finish"}
ConnStates == {"none", "free", "freed"} \cup OnTheList

Types ==
  /\ list \in Seq(Connections)
  /\ state \in [Connections -> ConnStates]
  /\ isDead \in [Connections -> BOOLEAN]
  /\ isBusy \in [Connections -> BOOLEAN]
  /\ at \in [Threads -> ThreadSteps]
  /\ pCONN \in [Threads -> Connections \cup {None}]
  /\ got \in [Threads -> SUBSET Connections]
  /\ began \in [Threads -> SUBSET Connections]
  /\ overlapped \in [Threads -> BOOLEAN]
  /\ late \in [Threads -> BOOLEAN]

\* A connection that was never entered, or has been taken off, is not listed.
Listing == IsInjective(list) /\ \A c \in Listed : state[c] \in OnTheList

\* A thread that is past serving has seen that its connection is over.
Endings == \A c \in Connections : state[c] \notin {"none", "serve"} => isDead[c]

\* The lock is kept between the look and the mark.
Looking ==
  \A t \in Threads : at[t] = "mark" => lock = t /\ pCONN[t] \in Listed

Sending == \A t \in Threads : at[t] = "send" => pCONN[t] \in Connections

\* Broadcasts know only connections that have been entered.
Entered ==
  \A t \in Threads :
    /\ \A c \in got[t] \cup began[t] : state[c] # "none"
    /\ at[t] = "send" => state[pCONN[t]] # "none"
    /\ at[t] = "idle" => got[t] = {}

Alone(t) == at[t] # "idle" /\ ~overlapped[t]

Overlaps == \A t, u \in Threads : t # u /\ Alone(t) => at[u] = "idle"

\* The marks on the list are those of the broadcast that runs alone.
Marks ==
  \A t \in Threads : Alone(t) =>
    \A c \in Listed : isBusy[c] <=> c \in got[t] \/ (at[t] = "send" /\ c = pCONN[t])

NotYet ==
  \A t \in Threads : Alone(t) /\ at[t] \in {"mark", "send"} => pCONN[t] \notin got[t]

Reached ==
  \A t \in Threads : Alone(t) /\ at[t] = "finish" =>
    \A c \in began[t] \cap Listed : isDead[c] \/ isBusy[c]

\* Until the message is sent the mark keeps the connection's thread waiting.
Held ==
  \A t \in Threads : Alone(t) /\ at[t] = "send" /\ ~late[t] =>
    isBusy[pCONN[t]] /\ state[pCONN[t]] \in {"serve", "wait"}

IInv ==
  /\ Types /\ Listing /\ Endings /\ Looking /\ Sending /\ Entered
  /\ Overlaps /\ Marks /\ NotYet /\ Reached /\ Held

-----------------------------------------------------------------------------
(* The list.                                                               *)

\* One entry less.
LEMMA RemoveOne ==
  ASSUME NEW S, NEW s \in Seq(S), NEW i \in 1 .. Len(s), IsInjective(s)
  PROVE  /\ RemoveAt(s, i) \in Seq(S)
         /\ IsInjective(RemoveAt(s, i))
         /\ ToSet(RemoveAt(s, i)) = ToSet(s) \ {s[i]}
<1> DEFINE r == [j \in 1 .. Len(s) - 1 |-> IF j < i THEN s[j] ELSE s[j + 1]]
<1>1. RemoveAt(s, i) = r
  <2> DEFINE a == SubSeq(s, 1, i - 1)
             b == SubSeq(s, i + 1, Len(s))
  <2>1. a \in Seq(S) /\ Len(a) = i - 1 /\ \A j \in 1 .. i - 1 : a[j] = s[j]
    OBVIOUS
  <2>2. b \in Seq(S) /\ Len(b) = Len(s) - i /\ \A j \in 1 .. Len(s) - i : b[j] = s[i + j]
    OBVIOUS
  <2> HIDE DEF a, b
  <2>3. /\ a \o b \in Seq(S)
        /\ Len(a \o b) = Len(a) + Len(b)
        /\ \A j \in 1 .. Len(a) + Len(b) : (a \o b)[j] = IF j <= Len(a) THEN a[j]
                                                         ELSE b[j - Len(a)]
    BY <2>1, <2>2, ConcatProperties
  <2>4. Len(a) + Len(b) = Len(s) - 1 /\ Len(r) = Len(s) - 1 /\ r \in Seq(S)
    BY <2>1, <2>2
  <2>5. ASSUME NEW j \in 1 .. Len(s) - 1 PROVE (a \o b)[j] = r[j]
    <3>1. CASE j < i
      BY <2>1, <2>3, <2>4, <3>1
    <3>2. CASE j >= i
      <4> DEFINE k == j - (i - 1)
      <4>1. k \in 1 .. Len(s) - i /\ k = j - Len(a) /\ i + k = j + 1
        BY <2>1, <3>2
      <4> HIDE DEF k
      <4>2. (a \o b)[j] = b[k]
        BY <2>1, <2>3, <2>4, <3>2, <4>1
      <4>3. b[k] = s[j + 1]
        BY <2>2, <4>1
      <4>4. r[j] = s[j + 1]
        BY <3>2
      <4> QED
        BY <4>2, <4>3, <4>4
    <3>3. j < i \/ j >= i
      OBVIOUS
    <3> QED
      BY <3>1, <3>2, <3>3
  <2>6. a \o b = r
    BY <2>3, <2>4, <2>5, SeqEqual
  <2> QED
    BY <2>6 DEF RemoveAt, a, b
<1>2. r \in Seq(S) /\ Len(r) = Len(s) - 1 /\ DOMAIN r = 1 .. Len(s) - 1
  OBVIOUS
<1>3. IsInjective(r)
  BY <1>2 DEF IsInjective
<1>4. ASSUME NEW x \in ToSet(s), x # s[i] PROVE x \in ToSet(r)
  <2>1. PICK j \in DOMAIN s : x = s[j]
    BY DEF ToSet
  <2>2. CASE j < i
    BY <1>2, <2>1, <2>2 DEF ToSet
  <2>3. CASE j > i
    <3>1. j - 1 \in DOMAIN r /\ r[j - 1] = x
      BY <1>2, <2>1, <2>3
    <3> QED
      BY <3>1 DEF ToSet
  <2> QED
    BY <1>4, <2>1, <2>2, <2>3
<1>5. ASSUME NEW x \in ToSet(r) PROVE x \in ToSet(s) /\ x # s[i]
  <2>1. PICK j \in DOMAIN r : x = r[j]
    BY DEF ToSet
  <2> QED
    BY <1>2, <2>1 DEF ToSet, IsInjective
<1> QED
  BY <1>1, <1>2, <1>3, <1>4, <1>5

\* One entry more, at the head.
LEMMA EnterHead ==
  ASSUME NEW S, NEW s \in Seq(S), NEW c \in S, IsInjective(s), c \notin ToSet(s)
  PROVE  /\ <<c>> \o s \in Seq(S)
         /\ IsInjective(<<c>> \o s)
         /\ ToSet(<<c>> \o s) = ToSet(s) \cup {c}
<1> DEFINE r == <<c>> \o s
<1>1. r \in Seq(S) /\ DOMAIN r = 1 .. Len(s) + 1 /\ r[1] = c
      /\ \A j \in 1 .. Len(s) : r[j + 1] = s[j]
  OBVIOUS
<1>2. \A j \in DOMAIN r : j # 1 => j - 1 \in DOMAIN s /\ r[j] = s[j - 1]
  BY <1>1
<1>3. IsInjective(r)
  BY <1>1, <1>2 DEF IsInjective, ToSet
<1>4. ToSet(r) = ToSet(s) \cup {c}
  <2>1. ASSUME NEW x \in ToSet(s) PROVE x \in ToSet(r)
    <3>1. PICK j \in DOMAIN s : x = s[j]
      BY DEF ToSet
    <3>2. j + 1 \in DOMAIN r /\ r[j + 1] = x
      BY <1>1, <3>1
    <3> QED
      BY <3>2 DEF ToSet
  <2>2. c \in ToSet(r) /\ ToSet(r) \subseteq ToSet(s) \cup {c}
    BY <1>1, <1>2 DEF ToSet
  <2> QED
    BY <2>1, <2>2
<1> QED
  BY <1>1, <1>3, <1>4

\* What is listed is a connection.
LEMMA ListedAreConnections ==
  ASSUME Types
  PROVE  Listed \subseteq Connections
  BY DEF Types, Listed, ToSet

-----------------------------------------------------------------------------
(* The steps.                                                              *)

\* Nothing has been entered or broadcast at the start.
LEMMA InitIInv == Init => IInv
<1> SUFFICES ASSUME Init PROVE IInv
  OBVIOUS
<1>1. Types
  <2>1. /\ list \in Seq(Connections) /\ state \in [Connections -> ConnStates]
        /\ at \in [Threads -> ThreadSteps] /\ pCONN \in [Threads -> Connections \cup {None}]
        /\ got \in [Threads -> SUBSET Connections]
        /\ began \in [Threads -> SUBSET Connections]
    BY DEF Init, ConnStates, ThreadSteps
  <2>2. /\ isDead \in [Connections -> BOOLEAN] /\ isBusy \in [Connections -> BOOLEAN]
        /\ overlapped \in [Threads -> BOOLEAN] /\ late \in [Threads -> BOOLEAN]
    BY DEF Init
  <2> QED
    BY <2>1, <2>2 DEF Types
<1>2. Listing
  BY DEF Init, Listing, Listed, ToSet, IsInjective
<1>3. \A t \in Threads : at[t] = "idle" /\ got[t] = {} /\ began[t] = {}
  BY DEF Init
<1>4. Endings
  BY DEF Init, Endings
<1> QED
  BY <1>1, <1>2, <1>3, <1>4
  DEF IInv, Looking, Sending, Entered, Alone, Overlaps, Marks, NotYet, Reached, Held

USE DEF ThreadSteps, ConnStates, OnTheList

\* A broadcast begins: the marks go, and whoever broadcasts is no longer alone.
LEMMA BeginKeeps ==
  ASSUME IInv, NEW t \in Threads, Begin(t)
  PROVE  IInv'
<1> USE DEF IInv, Types
<1>1. /\ at[t] = "idle" /\ at' = [at EXCEPT ![t] = "scan"] /\ lock = None
      /\ isBusy' = [c \in Connections |-> c \notin Listed /\ isBusy[c]]
      /\ began' = [began EXCEPT ![t] = Listed]
      /\ overlapped' = [u \in Threads |-> IF u = t THEN Broadcasting # {}
                                          ELSE overlapped[u] \/ u \in Broadcasting]
      /\ UNCHANGED <<list, state, isDead, lock, pCONN, got, late>>
      /\ Listed' = Listed /\ Listed \subseteq Connections
  BY ListedAreConnections DEF Begin, connVars, Listed
<1>2. Types'
  <2>1. isBusy' \in [Connections -> BOOLEAN] /\ overlapped' \in [Threads -> BOOLEAN]
    BY <1>1
  <2> QED
    BY <1>1, <2>1
<1>3. \A u \in Threads : Alone(u)' => u = t /\ Broadcasting = {}
  BY <1>1 DEF Alone, Broadcasting
<1>4. \A u \in Threads : u # t => at'[u] = at[u]
  BY <1>1
<1>5. Listing' /\ Endings' /\ Looking' /\ Sending'
  BY <1>1, <1>4 DEF Listing, Endings, Looking, Sending
<1>6. Entered'
  BY <1>1, <1>4 DEF Entered, Listing
<1>7. Overlaps'
  BY <1>1, <1>3, <1>4 DEF Overlaps, Broadcasting
<1>8. Marks'
  <2>1. ASSUME Alone(t)', NEW c \in Listed
        PROVE  isBusy'[c] = FALSE /\ c \notin got'[t] /\ at'[t] = "scan"
    BY <1>1 DEF Entered
  <2> QED
    BY <1>1, <1>3, <2>1 DEF Marks
<1>9. NotYet' /\ Reached' /\ Held'
  BY <1>1, <1>3 DEF NotYet, Reached, Held
<1> QED
  BY <1>2, <1>5, <1>6, <1>7, <1>8, <1>9

\* A broadcast takes its steps.
LEMMA ChooseKeeps ==
  ASSUME IInv, NEW t \in Threads, Choose(t)
  PROVE  IInv'
<1> USE DEF IInv, Types
<1>1. PICK i \in Ready : pCONN' = [pCONN EXCEPT ![t] = list[i]]
  BY DEF Choose
<1>2. /\ at[t] = "scan" /\ at' = [at EXCEPT ![t] = "mark"] /\ lock = None /\ lock' = t
      /\ UNCHANGED <<list, state, isDead, isBusy, got, began, overlapped, late>>
      /\ Listed' = Listed
      /\ list[i] \in Listed /\ list[i] \in Connections /\ ~isBusy[list[i]]
  BY <1>1, ListedAreConnections DEF Choose, connVars, history, Listed, Ready, ToSet
<1>3. \A u \in Threads : at[u] # "mark"
  BY <1>2, NoneAssumption DEF Looking, Threads
<1>4. Types'
  BY <1>1, <1>2
<1>5. \A u \in Threads : Alone(u)' <=> Alone(u)
  BY <1>2 DEF Alone
<1>6. Listing' /\ Endings' /\ Looking' /\ Sending' /\ Entered'
  BY <1>1, <1>2, <1>3 DEF Listing, Endings, Looking, Sending, Entered
<1>7. Overlaps' /\ Marks' /\ NotYet' /\ Reached' /\ Held'
  BY <1>1, <1>2, <1>5 DEF Overlaps, Marks, NotYet, Reached, Held
<1> QED
  BY <1>4, <1>6, <1>7

LEMMA ChooseNoneKeeps ==
  ASSUME IInv, NEW t \in Threads, ChooseNone(t)
  PROVE  IInv'
<1> USE DEF IInv, Types
<1>1. /\ at[t] = "scan" /\ at' = [at EXCEPT ![t] = "finish"]
      /\ UNCHANGED <<list, state, isDead, isBusy, lock, pCONN, got, began, overlapped, late>>
      /\ Listed' = Listed
  BY DEF ChooseNone, connVars, history, Listed
<1>2. \A c \in Listed : isDead[c] \/ isBusy[c]
  BY DEF ChooseNone, Ready, Listed, ToSet
<1>3. Types'
  BY <1>1
<1>4. \A u \in Threads : Alone(u)' <=> Alone(u)
  BY <1>1 DEF Alone
<1>5. Listing' /\ Endings' /\ Looking' /\ Sending' /\ Entered'
  BY <1>1 DEF Listing, Endings, Looking, Sending, Entered
<1>6. Overlaps' /\ Marks' /\ NotYet' /\ Held'
  BY <1>1, <1>4 DEF Overlaps, Marks, NotYet, Held
<1>7. Reached'
  BY <1>1, <1>2, <1>4 DEF Reached
<1> QED
  BY <1>3, <1>5, <1>6, <1>7

LEMMA MarkKeeps ==
  ASSUME IInv, NEW t \in Threads, Mark(t)
  PROVE  IInv'
<1> USE DEF IInv, Types
<1> DEFINE p == pCONN[t]
<1>1. /\ at[t] = "mark" /\ at' = [at EXCEPT ![t] = "send"]
      /\ isBusy' = [isBusy EXCEPT ![p] = TRUE]
      /\ lock' = None /\ late' = [late EXCEPT ![t] = isDead[p]]
      /\ UNCHANGED <<list, state, isDead, pCONN, got, began, overlapped>>
      /\ Listed' = Listed
  BY DEF Mark, connVars, Listed
<1>2. p \in Listed /\ p \in Connections /\ lock = t
  BY <1>1, ListedAreConnections DEF Looking
<1>3. \A u \in Threads : u # t => at[u] # "mark" /\ at'[u] = at[u]
  BY <1>1, <1>2 DEF Looking
<1>4. Types'
  <2>1. isBusy' \in [Connections -> BOOLEAN]
    BY <1>1, <1>2
  <2>2. late' \in [Threads -> BOOLEAN]
    BY <1>1, <1>2
  <2> QED
    BY <1>1, <2>1, <2>2
<1>5. \A u \in Threads : /\ Alone(u)' <=> Alone(u)
                         /\ u # t /\ Alone(u) => FALSE
  BY <1>1, <1>3 DEF Alone, Overlaps
<1>6. Listing' /\ Endings' /\ Looking' /\ Sending'
  BY <1>1, <1>2, <1>3 DEF Listing, Endings, Looking, Sending
<1>7. Entered'
  BY <1>1, <1>2, <1>3 DEF Entered, Listing
<1>8. Overlaps' /\ NotYet'
  BY <1>1, <1>3, <1>5 DEF Overlaps, NotYet
<1>9. Marks'
  BY <1>1, <1>2, <1>5 DEF Marks
<1>10. Reached'
  BY <1>1, <1>2, <1>5 DEF Reached
<1>11. Held'
  <2>1. ~isDead[p] => state[p] = "serve"
    BY <1>2 DEF Endings, Listing
  <2> QED
    BY <1>1, <1>2, <1>5, <2>1 DEF Held
<1> QED
  BY <1>4, <1>6, <1>7, <1>8, <1>9, <1>10, <1>11

LEMMA SendKeeps ==
  ASSUME IInv, NEW t \in Threads, Send(t)
  PROVE  IInv'
<1> USE DEF IInv, Types
<1> DEFINE p == pCONN[t]
<1>1. /\ at[t] = "send" /\ at' = [at EXCEPT ![t] = "scan"]
      /\ got' = [got EXCEPT ![t] = @ \cup {p}]
      /\ pCONN' = [pCONN EXCEPT ![t] = None]
      /\ UNCHANGED <<list, state, isDead, isBusy, lock, began, overlapped, late>>
      /\ Listed' = Listed
  BY DEF Send, connVars, Listed
<1>2. p \in Connections /\ state[p] # "none"
  BY <1>1 DEF Sending, Entered
<1>3. Types'
  BY <1>1, <1>2
<1>4. \A u \in Threads : Alone(u)' <=> Alone(u)
  BY <1>1 DEF Alone
<1>5. Listing' /\ Endings' /\ Looking' /\ Sending'
  BY <1>1 DEF Listing, Endings, Looking, Sending
<1>6. Entered'
  BY <1>1, <1>2 DEF Entered
<1>7. Overlaps' /\ NotYet' /\ Reached' /\ Held'
  BY <1>1, <1>4 DEF Overlaps, NotYet, Reached, Held
<1>8. Marks'
  BY <1>1, <1>4 DEF Marks
<1> QED
  BY <1>3, <1>5, <1>6, <1>7, <1>8

LEMMA FinishKeeps ==
  ASSUME IInv, NEW t \in Threads, Finish(t)
  PROVE  IInv'
<1> USE DEF IInv, Types
<1>1. /\ at[t] = "finish" /\ at' = [at EXCEPT ![t] = "idle"] /\ lock = None
      /\ isBusy' = [c \in Connections |-> c \notin Listed /\ isBusy[c]]
      /\ got' = [got EXCEPT ![t] = {}] /\ began' = [began EXCEPT ![t] = {}]
      /\ overlapped' = [overlapped EXCEPT ![t] = FALSE]
      /\ late' = [late EXCEPT ![t] = FALSE]
      /\ UNCHANGED <<list, state, isDead, lock, pCONN>>
      /\ Listed' = Listed
  BY DEF Finish, Forget, connVars, Listed
<1>2. Types'
  <2>1. isBusy' \in [Connections -> BOOLEAN]
    BY <1>1
  <2>2. overlapped' \in [Threads -> BOOLEAN] /\ late' \in [Threads -> BOOLEAN]
    BY <1>1
  <2> QED
    BY <1>1, <2>1, <2>2
<1>3. \A u \in Threads : ~Alone(u)'
  BY <1>1 DEF Alone, Overlaps
<1>4. Listing' /\ Endings' /\ Looking' /\ Sending' /\ Entered'
  BY <1>1 DEF Listing, Endings, Looking, Sending, Entered
<1> QED
  BY <1>2, <1>3, <1>4 DEF Overlaps, Marks, NotYet, Reached, Held

\* A connection is entered: no broadcast knows it yet.
LEMMA AcceptKeeps ==
  ASSUME IInv, NEW c \in Connections, Accept(c)
  PROVE  IInv'
<1> USE DEF IInv, Types
<1>1. /\ state[c] = "none" /\ lock = None /\ list' = <<c>> \o list
      /\ state' = [state EXCEPT ![c] = "serve"]
      /\ isBusy' = [isBusy EXCEPT ![c] = FALSE]
      /\ UNCHANGED <<isDead, lock, at, pCONN, got, began, overlapped, late>>
  BY DEF Accept, history
<1>2. c \notin Listed
  BY <1>1 DEF Listing
<1>3. list' \in Seq(Connections) /\ IsInjective(list') /\ Listed' = Listed \cup {c}
  BY <1>1, <1>2, EnterHead DEF Listing, Listed
<1>4. Types'
  <2>1. isBusy' \in [Connections -> BOOLEAN]
    BY <1>1
  <2> QED
    BY <1>1, <1>3, <2>1
<1>5. \A u \in Threads : Alone(u)' <=> Alone(u)
  BY <1>1 DEF Alone
<1>6. Listing' /\ Endings' /\ Looking' /\ Sending' /\ Entered'
  BY <1>1, <1>3 DEF Listing, Endings, Looking, Sending, Entered
<1>7. \A u \in Threads : c \notin got[u] \cup began[u] /\ (at[u] = "send" => c # pCONN[u])
  BY <1>1 DEF Entered
<1>8. Overlaps' /\ NotYet'
  BY <1>1, <1>5 DEF Overlaps, NotYet
<1>9. Marks'
  BY <1>1, <1>3, <1>5, <1>7, ListedAreConnections DEF Marks
<1>10. Reached'
  BY <1>1, <1>3, <1>5, <1>7, ListedAreConnections DEF Reached
<1>11. Held'
  BY <1>1, <1>5, <1>7 DEF Held, Sending
<1> QED
  BY <1>4, <1>6, <1>8, <1>9, <1>10, <1>11

\* The end of a connection: it waits for the mark, and is taken off the list.
LEMMA EndKeeps ==
  ASSUME IInv, NEW c \in Connections, Over(c) \/ Waited(c) \/ Free(c)
  PROVE  IInv'
<1> USE DEF IInv, Types
<1>1. /\ UNCHANGED <<list, isBusy, lock, at, pCONN, got, began, overlapped, late>>
      /\ Listed' = Listed /\ Listed \subseteq Connections
      /\ isDead' \in {isDead, [isDead EXCEPT ![c] = TRUE]}
  BY ListedAreConnections DEF Over, Waited, Free, history, Listed
<1>2. \E s \in {"wait", "unlink", "freed"} : state' = [state EXCEPT ![c] = s]
  BY DEF Over, Waited, Free
<1>3. state[c] # "none"
  BY DEF Over, Waited, Free
<1>4. c \in Listed => state'[c] \in OnTheList
  BY DEF Over, Waited, Free, Listing
<1>5. Types'
  <2>1. isDead' \in [Connections -> BOOLEAN]
    BY <1>1
  <2>2. state' \in [Connections -> ConnStates]
    BY <1>2
  <2> QED
    BY <1>1, <2>1, <2>2, Zenon
<1>6. \A u \in Threads : Alone(u)' <=> Alone(u)
  BY <1>1 DEF Alone
<1>7. \A d \in Connections : isDead[d] => isDead'[d]
  BY <1>1
<1>8. Listing' /\ Looking' /\ Sending'
  BY <1>1, <1>2, <1>4 DEF Listing, Looking, Sending
<1>9. Endings'
  <2>1. isDead'[c]
    BY DEF Over, Waited, Free, Endings
  <2> QED
    BY <1>2, <1>7, <2>1 DEF Endings
<1>10. Entered'
  BY <1>1, <1>2, <1>3 DEF Entered, Sending
<1>11. Overlaps' /\ Marks' /\ NotYet'
  BY <1>1, <1>6 DEF Overlaps, Marks, NotYet
<1>12. Reached'
  BY <1>1, <1>6, <1>7 DEF Reached
<1>13. Held'
  <2>1. ASSUME NEW u \in Threads, Alone(u), at[u] = "send", ~late[u]
        PROVE  isBusy[pCONN[u]] /\ state'[pCONN[u]] \in {"serve", "wait"}
    <3>1. isBusy[pCONN[u]] /\ state[pCONN[u]] \in {"serve", "wait"} /\ pCONN[u] \in Connections
      BY <2>1 DEF Held, Sending
    <3>2. CASE pCONN[u] # c
      BY <1>2, <3>1, <3>2
    <3>3. CASE pCONN[u] = c
      BY <3>1, <3>3 DEF Over, Waited, Free
    <3> QED
      BY <3>2, <3>3
  <2> QED
    BY <1>1, <1>6, <2>1 DEF Held
<1> QED
  BY <1>5, <1>8, <1>9, <1>10, <1>11, <1>12, <1>13

LEMMA UnlinkKeeps ==
  ASSUME IInv, NEW c \in Connections, Unlink(c)
  PROVE  IInv'
<1> USE DEF IInv, Types
<1>1. /\ state[c] = "unlink" /\ lock = None /\ state' = [state EXCEPT ![c] = "free"]
      /\ UNCHANGED <<isDead, isBusy, lock, at, pCONN, got, began, overlapped, late>>
  BY DEF Unlink, history
<1>2. list' \in Seq(Connections) /\ IsInjective(list') /\ Listed' = Listed \ {c}
  <2>1. PICK i \in DOMAIN list : list[i] = c /\ list' = RemoveAt(list, i)
    BY DEF Unlink
  <2>2. i \in 1 .. Len(list) /\ IsInjective(list)
    BY DEF Listing
  <2> QED
    BY <2>1, <2>2, RemoveOne DEF Listed
<1>3. Types'
  BY <1>1, <1>2
<1>4. \A u \in Threads : (Alone(u)' <=> Alone(u)) /\ at[u] # "mark"
  BY <1>1, NoneAssumption DEF Alone, Looking, Threads
<1>5. Listing' /\ Endings' /\ Looking' /\ Sending' /\ Entered'
  BY <1>1, <1>2, <1>4, ListedAreConnections
  DEF Listing, Endings, Looking, Sending, Entered
<1>6. Overlaps' /\ Marks' /\ NotYet' /\ Reached'
  BY <1>1, <1>2, <1>4 DEF Overlaps, Marks, NotYet, Reached
<1>7. Held'
  BY <1>1, <1>4 DEF Held, Sending
<1> QED
  BY <1>3, <1>5, <1>6, <1>7

LEMMA StopKeeps ==
  ASSUME IInv, Stop \/ \E c \in Connections : SocketDies(c)
  PROVE  IInv'
<1> USE DEF IInv, Types
<1>1. /\ UNCHANGED <<list, state, isBusy, lock, at, pCONN, got, began, overlapped, late>>
      /\ Listed' = Listed /\ Listed \subseteq Connections
      /\ isDead' \in {isDead, [c \in Connections |-> c \in Listed \/ isDead[c]]}
  BY ListedAreConnections DEF Stop, SocketDies, history, Listed
<1>2. isDead' \in [Connections -> BOOLEAN]
  BY <1>1
<1>3. \A d \in Connections : isDead[d] => isDead'[d]
  BY <1>1
<1>4. Types'
  BY <1>1, <1>2
<1>5. \A u \in Threads : Alone(u)' <=> Alone(u)
  BY <1>1 DEF Alone
<1>6. Listing' /\ Endings' /\ Looking' /\ Sending' /\ Entered'
  BY <1>1, <1>3 DEF Listing, Endings, Looking, Sending, Entered
<1>7. Overlaps' /\ Marks' /\ NotYet' /\ Reached' /\ Held'
  BY <1>1, <1>3, <1>5 DEF Overlaps, Marks, NotYet, Reached, Held
<1> QED
  BY <1>4, <1>6, <1>7

\* No step breaks the invariant.
LEMMA NextIInv == IInv /\ [Next]_vars => IInv'
<1>1. ASSUME IInv, UNCHANGED vars PROVE IInv'
  BY <1>1
  DEF vars, connVars, history, IInv, Types, Listing, Endings, Looking, Sending, Entered,
      Alone, Overlaps, Marks, NotYet, Reached, Held, Listed
<1> QED
  BY <1>1, BeginKeeps, ChooseKeeps, ChooseNoneKeeps, MarkKeeps, SendKeeps, FinishKeeps,
     AcceptKeeps, EndKeeps, UnlinkKeeps, StopKeeps
  DEF Next, BroadcastStep, EndStep

\* The invariant holds throughout.
LEMMA Invariant == Spec => []IInv
  BY InitIInv, NextIInv, PTL DEF Spec

-----------------------------------------------------------------------------
(* The theorems.                                                           *)

\* A broadcast that runs alone sends to a connection once: it starts again at
\* the head of the list after each one, and has only the marks to tell.
THEOREM NobodyIsSentTwice == Spec => OnceEach
<1> DEFINE Once == \A t \in Threads : Send(t) /\ ~overlapped[t] => pCONN[t] \notin got[t]
<1>1. IInv => Once
  BY DEF IInv, NotYet, Alone, Send
<1> QED
  BY <1>1, Invariant, PTL DEF OnceEach

\* A broadcast that runs alone has been sent to everyone who was there from its
\* start on and has not died, whoever comes or goes meanwhile.
THEOREM NobodyIsMissed == Spec => []ReachesAll
<1>1. IInv => ReachesAll
  BY DEF IInv, Reached, Marks, Alone, ReachesAll
<1> QED
  BY <1>1, Invariant, PTL

\* The mark keeps a connection's thread from freeing it while a broadcast that
\* runs alone sends, unless it had died before it was marked.
THEOREM FreedUnderSendOnlyIfLate == Spec => []FreedOnlyIfLate
<1>1. IInv => FreedOnlyIfLate
  BY DEF IInv, Held, Alone, FreedOnlyIfLate
<1> QED
  BY <1>1, Invariant, PTL

-----------------------------------------------------------------------------
(* What messages do to what the browsers are shown.                        *)

Kinds == {"stateInd", "nwkInd", "nwkCnf", "nwkCnfNone", "devCnf", "joinedInd", "notActiveInd",
          "dataInd", "permitCnf", "txCnf", "getNwkInfo", "getDevArray", "open", "close", "txData"}
GwMessages == [kind : Kinds, state : States, devs : SUBSET Devices]

StateKinds == {"stateInd", "nwkInd", "nwkCnf"}

\* The network is shown in state s, or in another one.
StateEffect(s) ==
  [m \in GwMessages |-> IF m.kind \notin StateKinds THEN "none"
                        ELSE IF Shown(m.state) = Shown(s) THEN "mends" ELSE "spoils"]

\* A device becomes known, or is forgotten.
DeviceEffect(d) ==
  [m \in GwMessages |-> IF m.kind \in {"joinedInd", "devCnf"} /\ d \in m.devs THEN "mends"
                        ELSE IF m.kind = "devCnf" THEN "spoils" ELSE "none"]

\* When all of q has been taken what is shown is right, which it is at present if "now".
EndsWell(q, effect, now) ==
  /\ \A i \in DOMAIN q : effect[q[i]] = "spoils" =>
                            \E j \in DOMAIN q : i < j /\ effect[q[j]] = "mends"
  /\ now \/ \E i \in DOMAIN q : effect[q[i]] = "mends"

-----------------------------------------------------------------------------
(* The inductive invariant of the gateway.                                 *)

RequestKinds == {"getNwkInfo", "getDevArray", "open", "close", "txData"}

OfOneDevice(m) ==
  m.kind \in {"joinedInd", "notActiveInd", "dataInd"} => \E d \in Devices : m.devs = {d}

GwTypes ==
  /\ saved \in BOOLEAN /\ devices \in SUBSET Devices /\ cllcState \in States
  /\ phase \in {"waiting", "starting", "updated", "started"}
  /\ news \in Seq(GwMessages) /\ Len(news) <= 1
  /\ answers \in Seq(GwMessages) /\ toServer \in Seq(GwMessages) /\ toClient \in Seq(GwMessages)
  /\ \A i \in DOMAIN toServer : toServer[i].kind \in RequestKinds
  /\ \A i \in DOMAIN toClient : OfOneDevice(toClient[i])
  /\ \A i \in DOMAIN answers : OfOneDevice(answers[i])
  /\ \A i \in DOMAIN news : OfOneDevice(news[i])
  /\ conn \in {"none", "accepted", "listed"}
  /\ listeners \in Nat
  /\ known \in [Devices -> {Undefined, "active", "inactive"}]

\* Only a network that has been saved has devices.
SavedFirst == (phase \in {"updated", "started"} \/ devices # {}) => saved

Asked(kinds) == \E i \in DOMAIN toServer : toServer[i].kind \in kinds

\* Both threads have built a message: the next step of either makes them cross.
WillCross == answers # <<>> /\ news # <<>>

\* What is on its way, when they will not.
OnTheWay == toClient \o (IF answers # <<>> THEN answers ELSE news)

StateComes ==
  \/ Asked({"getNwkInfo"})
  \/ EndsWell(OnTheWay, StateEffect(cllcState), nwkInfo = Shown(cllcState))

\* The network's confirm makes the gateway ask for the devices.
DeviceComes(d) ==
  \/ Asked({"getNwkInfo", "getDevArray"})
  \/ \E i \in DOMAIN OnTheWay : OnTheWay[i].kind = "nwkCnf"
  \/ EndsWell(OnTheWay, DeviceEffect(d), IsKnown(d))

\* One that is not listed yet is asked for everything.
Linked ==
  /\ link = "connecting" => listeners >= 1
  /\ link = "up" <=> conn # "none"
  /\ conn = "none" => answers = <<>>
  /\ conn = "accepted" => answers = <<>> /\ Asked({"getNwkInfo"})

TruthComes ==
  link = "up" /\ ~crossed /\ ~WillCross =>
    /\ saved => StateComes
    /\ \A d \in devices : DeviceComes(d)

GwInv == GwTypes /\ SavedFirst /\ Linked /\ TruthComes

-----------------------------------------------------------------------------
(* Messages that come last, or are taken first.                            *)

\* Whatever was on its way, the last message mends it.
LEMMA MendedLast ==
  ASSUME NEW q \in Seq(GwMessages), NEW m \in GwMessages, NEW e, e[m] = "mends",
         NEW now \in BOOLEAN
  PROVE  EndsWell(Append(q, m), e, now)
<1> DEFINE t == Append(q, m)
           n == Len(q) + 1
<1>1. DOMAIN t = 1 .. n /\ n \in DOMAIN t /\ t[n] = m /\ DOMAIN q = 1 .. Len(q) /\ Len(q) \in Nat
  OBVIOUS
<1> HIDE DEF t
<1>2. ASSUME NEW i \in DOMAIN t, e[t[i]] = "spoils"
      PROVE  \E j \in DOMAIN t : i < j /\ e[t[j]] = "mends"
  <2>1. i # n /\ i < n
    BY <1>1, <1>2
  <2> QED
    BY <1>1, <2>1
<1>3. \E i \in DOMAIN t : e[t[i]] = "mends"
  BY <1>1
<1> QED
  BY <1>2, <1>3 DEF EndsWell, t

\* One that changes nothing may come last.
LEMMA OtherLast ==
  ASSUME NEW q \in Seq(GwMessages), NEW m \in GwMessages, NEW e, e[m] = "none",
         NEW now \in BOOLEAN, EndsWell(q, e, now)
  PROVE  EndsWell(Append(q, m), e, now)
<1> DEFINE t == Append(q, m)
           n == Len(q) + 1
<1>1. /\ DOMAIN t = 1 .. n /\ t[n] = m /\ DOMAIN q = 1 .. Len(q) /\ Len(q) \in Nat
      /\ \A i \in DOMAIN q : i \in DOMAIN t /\ t[i] = q[i]
  OBVIOUS
<1> HIDE DEF t
<1>2. ASSUME NEW i \in DOMAIN t, e[t[i]] = "spoils"
      PROVE  \E j \in DOMAIN t : i < j /\ e[t[j]] = "mends"
  <2>1. i \in DOMAIN q
    BY <1>1, <1>2
  <2>2. PICK j \in DOMAIN q : i < j /\ e[q[j]] = "mends"
    BY <1>1, <1>2, <2>1 DEF EndsWell
  <2> QED
    BY <1>1, <2>2
<1>3. now \/ \E i \in DOMAIN t : e[t[i]] = "mends"
  <2>1. CASE now
    BY <2>1
  <2>2. CASE ~now
    BY <1>1, <2>2 DEF EndsWell
  <2> QED
    BY <2>1, <2>2
<1> QED
  BY <1>2, <1>3 DEF EndsWell, t

\* The first one is taken, and does what it does.
LEMMA FirstTaken ==
  ASSUME NEW q \in Seq(GwMessages), q # <<>>, NEW e, NEW now \in BOOLEAN, EndsWell(q, e, now),
         e[Head(q)] \in {"mends", "none", "spoils"}, NEW then \in BOOLEAN,
         e[Head(q)] = "mends" => then, e[Head(q)] = "none" /\ now => then
  PROVE  EndsWell(Tail(q), e, then)
<1> DEFINE t == Tail(q)
           n == Len(q) - 1
<1>1. /\ n \in Nat /\ Len(q) \in Nat /\ DOMAIN q = 1 .. Len(q) /\ DOMAIN t = 1 .. n
      /\ \A i \in DOMAIN t : t[i] = q[i + 1] /\ i + 1 \in DOMAIN q
      /\ q[1] = Head(q) /\ 1 \in DOMAIN q
  OBVIOUS
<1> HIDE DEF t
<1>2. ASSUME NEW j \in DOMAIN q, j # 1 PROVE j - 1 \in DOMAIN t /\ t[j - 1] = q[j]
  <2>1. j - 1 \in 1 .. n /\ (j - 1) + 1 = j
    BY <1>1, <1>2
  <2> QED
    BY <1>1, <2>1
<1>3. ASSUME NEW i \in DOMAIN t, e[t[i]] = "spoils"
      PROVE  \E j \in DOMAIN t : i < j /\ e[t[j]] = "mends"
  <2>1. PICK j \in DOMAIN q : i + 1 < j /\ e[q[j]] = "mends"
    BY <1>1, <1>3 DEF EndsWell
  <2>2. j # 1 /\ i < j - 1
    BY <1>1, <2>1
  <2> QED
    BY <1>2, <2>1, <2>2
<1>4. ASSUME NEW j \in DOMAIN q, j # 1, e[q[j]] = "mends"
      PROVE  \E i \in DOMAIN t : e[t[i]] = "mends"
  BY <1>2, <1>4
<1>5. then \/ \E i \in DOMAIN t : e[t[i]] = "mends"
  <2>1. CASE e[Head(q)] = "mends"
    BY <2>1
  <2>2. CASE e[Head(q)] = "spoils"
    <3>1. PICK j \in DOMAIN q : 1 < j /\ e[q[j]] = "mends"
      BY <1>1, <2>2 DEF EndsWell
    <3> QED
      BY <1>1, <1>4, <3>1
  <2>3. CASE e[Head(q)] = "none" /\ now
    BY <2>3
  <2>4. CASE e[Head(q)] = "none" /\ ~now
    <3>1. PICK j \in DOMAIN q : e[q[j]] = "mends"
      BY <2>4 DEF EndsWell
    <3> QED
      BY <1>1, <1>4, <2>4, <3>1
  <2> QED
    BY <2>1, <2>2, <2>3, <2>4
<1> QED
  BY <1>3, <1>5 DEF EndsWell, t

\* What a message does to the state and to a device.
LEMMA Effects ==
  ASSUME NEW m \in GwMessages, NEW s, NEW d
  PROVE  /\ StateEffect(s)[m] = (IF m.kind \notin StateKinds THEN "none"
                                 ELSE IF Shown(m.state) = Shown(s) THEN "mends" ELSE "spoils")
         /\ DeviceEffect(d)[m] = (IF m.kind \in {"joinedInd", "devCnf"} /\ d \in m.devs
                                  THEN "mends"
                                  ELSE IF m.kind = "devCnf" THEN "spoils" ELSE "none")
         /\ StateEffect(s)[m] \in {"mends", "none", "spoils"}
         /\ DeviceEffect(d)[m] \in {"mends", "none", "spoils"}
BY DEF StateEffect, DeviceEffect

LEMMA MovedOn ==
  ASSUME NEW S, NEW s \in Seq(S), NEW t \in Seq(S), t # <<>>
  PROVE  /\ Append(s, Head(t)) \o Tail(t) = s \o t
         /\ Head(t \o s) = Head(t) /\ Tail(t \o s) = Tail(t) \o s /\ t \o s # <<>>
<1>1. Append(s, Head(t)) \o Tail(t) = s \o t
  <2> DEFINE a == Append(s, Head(t)) \o Tail(t)
             b == s \o t
  <2>1. Head(t) \in S /\ Tail(t) \in Seq(S) /\ Len(Tail(t)) = Len(t) - 1 /\ Len(t) \in Nat \ {0}
        /\ Len(s) \in Nat
    OBVIOUS
  <2>2. a \in Seq(S) /\ b \in Seq(S) /\ Len(a) = Len(s) + Len(t) /\ Len(b) = Len(s) + Len(t)
    BY <2>1
  <2>3. ASSUME NEW i \in 1 .. Len(a) PROVE a[i] = b[i]
    BY <2>1, <2>2
  <2> HIDE DEF a, b
  <2>4. a = b
    BY <2>2, <2>3, SeqEqual
  <2> QED
    BY <2>4 DEF a, b
<1>2. Tail(t \o s) = Tail(t) \o s
  <2> DEFINE a == Tail(t \o s)
             b == Tail(t) \o s
  <2>1. Tail(t) \in Seq(S) /\ Len(Tail(t)) = Len(t) - 1 /\ Len(t) \in Nat \ {0}
        /\ Len(s) \in Nat /\ t \o s \in Seq(S) /\ Len(t \o s) = Len(t) + Len(s) /\ t \o s # <<>>
    OBVIOUS
  <2>2. a \in Seq(S) /\ b \in Seq(S) /\ Len(a) = Len(s) + Len(t) - 1 /\ Len(b) = Len(s) + Len(t) - 1
    BY <2>1
  <2>3. ASSUME NEW i \in 1 .. Len(a) PROVE a[i] = b[i]
    BY <2>1, <2>2
  <2> HIDE DEF a, b
  <2>4. a = b
    BY <2>2, <2>3, SeqEqual
  <2> QED
    BY <2>4 DEF a, b
<1>3. Head(t \o s) = Head(t) /\ t \o s # <<>>
  OBVIOUS
<1> QED
  BY <1>1, <1>2, <1>3

-----------------------------------------------------------------------------
(* The messages of the threads and of browsers.                            *)

LEMMA MessagesAre ==
  ASSUME NEW k \in Kinds, NEW s \in States, NEW ds \in SUBSET Devices
  PROVE  /\ Msg(k, s, ds) \in GwMessages
         /\ Msg(k, s, ds).kind = k /\ Msg(k, s, ds).state = s /\ Msg(k, s, ds).devs = ds
BY DEF Msg, GwMessages

LEMMA StatesAre == "initWaiting" \in States /\ "joiningAllowed" \in States /\ "joiningNotAllowed" \in States
BY DEF States

LEMMA PlainIs ==
  ASSUME NEW k \in Kinds \ {"joinedInd", "notActiveInd", "dataInd"}
  PROVE  Plain(k) \in GwMessages /\ Plain(k).kind = k /\ OfOneDevice(Plain(k))
BY MessagesAre, StatesAre DEF Plain, OfOneDevice

LEMMA StateChangeIs ==
  ASSUME NEW s \in States
  PROVE  LET m == appsrv_stateChangeUpdate(s) IN
         m \in GwMessages /\ m.kind = "stateInd" /\ m.state = s /\ OfOneDevice(m)
BY MessagesAre DEF appsrv_stateChangeUpdate, OfOneDevice, Kinds

\* A request has at least one answer, and at most two.
LEMMA AnswerIs ==
  ASSUME cllcState \in States, devices \in SUBSET Devices,
         NEW m, m.kind \in RequestKinds
  PROVE  /\ Answer(m) \in Seq(GwMessages) /\ Answer(m) # <<>>
         /\ \A i \in DOMAIN Answer(m) : OfOneDevice(Answer(m)[i])
<1>1. CASE m.kind = "getNwkInfo"
  <2>1. PICK a \in GwMessages : Answer(m) = <<a>> /\ OfOneDevice(a)
    <3>1. appsrv_processGetNwkInfoReq \in GwMessages /\ OfOneDevice(appsrv_processGetNwkInfoReq)
      BY MessagesAre DEF appsrv_processGetNwkInfoReq, OfOneDevice, Kinds
    <3> QED
      BY <1>1, <3>1 DEF Answer
  <2> QED
    BY <2>1
<1>2. CASE m.kind = "getDevArray"
  <2>1. PICK a \in GwMessages : Answer(m) = <<a>> /\ OfOneDevice(a)
    <3>1. appsrv_processGetDeviceArrayReq \in GwMessages /\ OfOneDevice(appsrv_processGetDeviceArrayReq)
      BY MessagesAre, StatesAre DEF appsrv_processGetDeviceArrayReq, OfOneDevice, Kinds
    <3> QED
      BY <1>2, <3>1 DEF Answer
  <2> QED
    BY <2>1
<1>3. CASE m.kind \in {"open", "close"}
  <2>1. PICK a \in GwMessages, b \in GwMessages : Answer(m) = <<a, b>> /\ OfOneDevice(a) /\ OfOneDevice(b)
    <3>1. send_AppSrvJoinPermitCnf \in GwMessages /\ OfOneDevice(send_AppSrvJoinPermitCnf)
      BY PlainIs DEF send_AppSrvJoinPermitCnf, Kinds
    <3>2. CASE m.kind = "open"
      BY <3>1, <3>2, StatesAre, StateChangeIs DEF Answer
    <3>3. CASE m.kind = "close"
      BY <3>1, <3>3, StatesAre, StateChangeIs DEF Answer
    <3> QED
      BY <1>3, <3>2, <3>3
  <2> QED
    BY <2>1
<1>4. CASE m.kind = "txData"
  <2>1. PICK a \in GwMessages : Answer(m) = <<a>> /\ OfOneDevice(a)
    <3>1. send_AppsrvTxDataCnf \in GwMessages /\ OfOneDevice(send_AppsrvTxDataCnf)
      BY PlainIs DEF send_AppsrvTxDataCnf, Kinds
    <3> QED
      BY <1>4, <3>1 DEF Answer, appsrv_processTxDataReq
  <2> QED
    BY <2>1
<1> QED
  BY <1>1, <1>2, <1>3, <1>4 DEF RequestKinds

-----------------------------------------------------------------------------
(* Types.                                                                  *)

\* The queues of messages.
QueuesTyped ==
  /\ news \in Seq(GwMessages) /\ Len(news) <= 1
  /\ answers \in Seq(GwMessages) /\ toServer \in Seq(GwMessages) /\ toClient \in Seq(GwMessages)
  /\ \A i \in DOMAIN toServer : toServer[i].kind \in RequestKinds
  /\ \A i \in DOMAIN toClient : OfOneDevice(toClient[i])
  /\ \A i \in DOMAIN answers : OfOneDevice(answers[i])
  /\ \A i \in DOMAIN news : OfOneDevice(news[i])

OthersTyped ==
  /\ saved \in BOOLEAN /\ devices \in SUBSET Devices /\ cllcState \in States
  /\ phase \in {"waiting", "starting", "updated", "started"}
  /\ conn \in {"none", "accepted", "listed"}
  /\ listeners \in Nat
  /\ known \in [Devices -> {Undefined, "active", "inactive"}]

LEMMA TypesAre == GwTypes <=> QueuesTyped /\ OthersTyped
BY DEF GwTypes, QueuesTyped, OthersTyped

LEMMA InitGwInv == GwInit => GwInv
<1> SUFFICES ASSUME GwInit PROVE GwInv
  OBVIOUS
<1>1. <<>> \in Seq(GwMessages) /\ DOMAIN <<>> = {} /\ Len(<<>>) = 0
  OBVIOUS
<1>2. known \in [Devices -> {Undefined, "active", "inactive"}]
  BY DEF GwInit
<1>3. GwTypes
  BY <1>1, <1>2 DEF GwTypes, GwInit, States
<1> QED
  BY <1>3 DEF GwInv, GwInit, SavedFirst, Linked, TruthComes

LEMMA OthersTypedStep == OthersTyped /\ [GwNext]_gwVars => OthersTyped'
<1> SUFFICES ASSUME OthersTyped, [GwNext]_gwVars PROVE OthersTyped'
  OBVIOUS
<1> USE DEF OthersTyped
<1>1. CASE CollectorStep
  <2>1. CASE StartNetwork
    BY <2>1 DEF StartNetwork, StartStep, Step, connectionVars, clientVars, States
  <2>2. CASE NetworkUpdate
    BY <2>2 DEF NetworkUpdate, StartStep, Step, connectionVars, clientVars
  <2>3. CASE NetworkStarted
    BY <2>3 DEF NetworkStarted, StartStep, Step, connectionVars, clientVars, States
  <2>4. CASE SendNews
    BY <2>4 DEF SendNews, clientVars
  <2>5. ASSUME NEW d \in Devices,
               DeviceUpdate(d) \/ DeviceNotActiveUpdate(d) \/ DeviceData(d) \/ RemoveDevice(d)
        PROVE  OthersTyped'
    BY <2>5 DEF DeviceUpdate, DeviceNotActiveUpdate, DeviceData, RemoveDevice, Event, Step,
       connectionVars, clientVars
  <2>6. ASSUME NEW open \in BOOLEAN, JoinPermit(open) PROVE OthersTyped'
    BY <2>6 DEF JoinPermit, Event, Step, connectionVars, clientVars, States
  <2> QED
    BY <1>1, <2>1, <2>2, <2>3, <2>4, <2>5, <2>6 DEF CollectorStep
<1>2. CASE Register \/ HandleRequest \/ SendAnswer
  BY <1>2 DEF Register, HandleRequest, SendAnswer, collectorVars, clientVars, States
<1>3. CASE Connect \/ ConnectFails \/ Reconnect
  BY <1>3, GatewayAssumption DEF Connect, ConnectFails, Reconnect, Disconnected, collectorVars, clientVars
<1>4. CASE LinkFails \/ CollectorStops \/ CollectorStarts
  BY <1>4 DEF LinkFails, LinkEnds, Disconnected, CollectorStops, CollectorStarts, collectorVars,
     clientVars, connectionVars, States
<1>5. CASE ProcessIncoming
  <2>1. known' \in [Devices -> {Undefined, "active", "inactive"}]
    BY <1>5 DEF ProcessIncoming, ProcessGetNwkInfoCnf, ProcessGetDevArrayCnf,
       ProcessNetworkUpdateInd, ProcessDeviceJoinedInd, ProcessDeviceNotActiveInd,
       ProcessDeviceDataRxInd, ProcessStateChangeUpdate, ProcessCnf, Active
  <2>2. UNCHANGED collectorVars /\ UNCHANGED listeners /\ conn' \in {conn, "none"}
    BY <1>5 DEF ProcessIncoming, ProcessGetNwkInfoCnf, ProcessGetDevArrayCnf,
       ProcessNetworkUpdateInd, ProcessDeviceJoinedInd, ProcessDeviceNotActiveInd,
       ProcessDeviceDataRxInd, ProcessStateChangeUpdate, ProcessCnf, Take, Disconnected
  <2> QED
    BY <2>1, <2>2 DEF collectorVars
<1>6. CASE (\E open \in BOOLEAN : SetPermitJoin(open)) \/ (\E d \in Devices : SendToDevice(d))
  BY <1>6 DEF SetPermitJoin, SendToDevice, Write, collectorVars
<1>7. CASE UNCHANGED gwVars
  BY <1>7 DEF gwVars, collectorVars, connectionVars, clientVars
<1> QED
  BY <1>1, <1>2, <1>3, <1>4, <1>5, <1>6, <1>7 DEF GwNext

LEMMA TypedAppend ==
  ASSUME NEW S, NEW s \in Seq(S), NEW m \in S
  PROVE  /\ Append(s, m) \in Seq(S) /\ DOMAIN Append(s, m) = DOMAIN s \cup {Len(s) + 1}
         /\ \A i \in DOMAIN s : Append(s, m)[i] = s[i]
         /\ Append(s, m)[Len(s) + 1] = m
OBVIOUS

LEMMA TypedTail ==
  ASSUME NEW S, NEW s \in Seq(S), s # <<>>
  PROVE  /\ Tail(s) \in Seq(S) /\ Head(s) \in S /\ Head(s) = s[1] /\ 1 \in DOMAIN s
         /\ \A i \in DOMAIN Tail(s) : i + 1 \in DOMAIN s /\ Tail(s)[i] = s[i + 1]
         /\ Len(Tail(s)) = Len(s) - 1 /\ Len(s) \in Nat
OBVIOUS

\* One message of news.
LEMMA OneNews ==
  ASSUME QueuesTyped, NEW m \in GwMessages, OfOneDevice(m), news' = <<m>>,
         UNCHANGED connectionVars
  PROVE  QueuesTyped'
BY DEF QueuesTyped, connectionVars

LEMMA CollectorQueues ==
  ASSUME QueuesTyped, OthersTyped, OthersTyped', CollectorStep PROVE QueuesTyped'
<1>1. CASE StartNetwork
  BY <1>1, OneNews, StateChangeIs DEF StartNetwork, StartStep, Step, OthersTyped
<1>2. CASE NetworkUpdate
  <2>1. appsrv_networkUpdate \in GwMessages /\ OfOneDevice(appsrv_networkUpdate)
    BY MessagesAre DEF appsrv_networkUpdate, OthersTyped, Kinds, OfOneDevice
  <2> QED
    BY <1>2, <2>1, OneNews DEF NetworkUpdate, StartStep, Step
<1>3. CASE NetworkStarted
  BY <1>3, OneNews, StateChangeIs DEF NetworkStarted, StartStep, Step, OthersTyped
<1>4. CASE SendNews
  <2>1. <<>> \in Seq(GwMessages) /\ Len(<<>>) = 0 /\ DOMAIN <<>> = {}
    OBVIOUS
  <2>2. PICK m \in GwMessages : news = <<m>> /\ OfOneDevice(m)
    <3>1. news \in Seq(GwMessages) /\ news # <<>> /\ Len(news) <= 1
      BY <1>4 DEF SendNews, QueuesTyped
    <3>2. Len(news) = 1 /\ 1 \in DOMAIN news /\ news[1] \in GwMessages
      <4>1. 1 \in DOMAIN news /\ Len(news) \in Nat /\ DOMAIN news = 1 .. Len(news)
        BY <3>1, TypedTail
      <4> QED
        BY <3>1, <4>1
    <3>3. news = <<news[1]>>
      BY <3>1, <3>2
    <3>4. OfOneDevice(news[1])
      BY <3>2 DEF QueuesTyped
    <3> QED
      BY <3>2, <3>3, <3>4
  <2>3. toClient' = toClient \/ toClient' = Append(toClient, m)
    <3>1. toClient \o <<m>> = Append(toClient, m)
      BY DEF QueuesTyped
    <3> QED
      BY <1>4, <2>2, <3>1 DEF SendNews
  <2>4. toClient' \in Seq(GwMessages) /\ \A i \in DOMAIN toClient' : OfOneDevice(toClient'[i])
    <3>1. CASE toClient' = toClient
      BY <3>1 DEF QueuesTyped
    <3>2. CASE toClient' = Append(toClient, m)
      BY <2>2, <3>2, TypedAppend DEF QueuesTyped
    <3> QED
      BY <2>3, <3>1, <3>2
  <2> QED
    BY <1>4, <2>1, <2>4 DEF SendNews, QueuesTyped
<1>5. ASSUME NEW d \in Devices,
             DeviceUpdate(d) \/ DeviceNotActiveUpdate(d) \/ DeviceData(d) \/ RemoveDevice(d)
      PROVE  QueuesTyped'
  <2>1. \A k \in {"joinedInd", "notActiveInd", "dataInd"} :
          Msg(k, "initWaiting", {d}) \in GwMessages /\ OfOneDevice(Msg(k, "initWaiting", {d}))
    BY MessagesAre, StatesAre DEF OfOneDevice, Kinds
  <2>2. CASE DeviceUpdate(d)
    BY <2>1, <2>2, OneNews DEF DeviceUpdate, Event, Step, appsrv_deviceUpdate
  <2>3. CASE DeviceNotActiveUpdate(d)
    BY <2>1, <2>3, OneNews DEF DeviceNotActiveUpdate, Event, Step, appsrv_deviceNotActiveUpdate
  <2>4. CASE DeviceData(d)
    BY <2>1, <2>4, OneNews DEF DeviceData, Event, Step, appsrv_deviceRawDataUpdate
  <2>5. CASE RemoveDevice(d)
    BY <2>5 DEF RemoveDevice, Event, Step, connectionVars, QueuesTyped
  <2> QED
    BY <1>5, <2>2, <2>3, <2>4, <2>5
<1>6. ASSUME NEW open \in BOOLEAN, JoinPermit(open) PROVE QueuesTyped'
  BY <1>6, OneNews, StateChangeIs DEF JoinPermit, Event, Step, OthersTyped
<1> QED
  BY <1>1, <1>2, <1>3, <1>4, <1>5, <1>6 DEF CollectorStep

LEMMA ServerQueues ==
  ASSUME QueuesTyped, OthersTyped, Register \/ HandleRequest \/ SendAnswer PROVE QueuesTyped'
<1>1. CASE Register
  BY <1>1 DEF Register, collectorVars, QueuesTyped
<1>2. CASE HandleRequest
  <2>1. /\ toServer' \in Seq(GwMessages)
        /\ \A i \in DOMAIN toServer' : toServer'[i].kind \in RequestKinds
        /\ Head(toServer).kind \in RequestKinds
    BY <1>2, TypedTail DEF HandleRequest, QueuesTyped
  <2>2. answers' = Answer(Head(toServer)) /\ UNCHANGED <<news, toClient>>
    BY <1>2 DEF HandleRequest
  <2>3. /\ Answer(Head(toServer)) \in Seq(GwMessages)
        /\ \A i \in DOMAIN Answer(Head(toServer)) : OfOneDevice(Answer(Head(toServer))[i])
    BY <2>1, AnswerIs DEF OthersTyped
  <2> QED
    BY <2>1, <2>2, <2>3 DEF QueuesTyped
<1>3. CASE SendAnswer
  <2>1. /\ answers' \in Seq(GwMessages) /\ \A i \in DOMAIN answers' : OfOneDevice(answers'[i])
        /\ Head(answers) \in GwMessages /\ OfOneDevice(Head(answers))
    BY <1>3, TypedTail DEF SendAnswer, QueuesTyped
  <2>2. toClient' \in Seq(GwMessages) /\ \A i \in DOMAIN toClient' : OfOneDevice(toClient'[i])
    BY <1>3, <2>1, TypedAppend DEF SendAnswer, QueuesTyped
  <2> QED
    BY <1>3, <2>1, <2>2 DEF SendAnswer, collectorVars, QueuesTyped
<1> QED
  BY <1>1, <1>2, <1>3

\* A connection that ends takes with it what was on its way.
LEMMA EndedQueues ==
  ASSUME QueuesTyped, Disconnected, news' \in {news, <<>>} PROVE QueuesTyped'
<1>1. <<>> \in Seq(GwMessages) /\ Len(<<>>) = 0 /\ DOMAIN <<>> = {}
  OBVIOUS
<1>2. news' \in Seq(GwMessages) /\ Len(news') <= 1 /\ \A i \in DOMAIN news' : OfOneDevice(news'[i])
  <2>1. CASE news' = news
    BY <2>1 DEF QueuesTyped
  <2>2. CASE news' = <<>>
    BY <1>1, <2>2
  <2> QED
    BY <2>1, <2>2
<1>3. answers' = <<>> /\ toServer' = <<>> /\ toClient' = <<>>
  BY DEF Disconnected
<1> QED
  BY <1>1, <1>2, <1>3 DEF QueuesTyped

LEMMA RequestAdded ==
  ASSUME QueuesTyped, NEW m \in GwMessages, m.kind \in RequestKinds,
         toServer' = Append(toServer, m)
  PROVE  /\ toServer' \in Seq(GwMessages)
         /\ \A i \in DOMAIN toServer' : toServer'[i].kind \in RequestKinds
BY TypedAppend DEF QueuesTyped

LEMMA GatewayQueues ==
  ASSUME QueuesTyped, ProcessIncoming PROVE QueuesTyped'
<1>1. ASSUME NEW kinds, Take(kinds), toServer' \in Seq(GwMessages),
             \A i \in DOMAIN toServer' : toServer'[i].kind \in RequestKinds
      PROVE  QueuesTyped'
  <2>1. toClient' \in Seq(GwMessages) /\ \A i \in DOMAIN toClient' : OfOneDevice(toClient'[i])
    BY <1>1, TypedTail DEF Take, QueuesTyped
  <2> QED
    BY <1>1, <2>1 DEF Take, collectorVars, QueuesTyped
<1>2. ASSUME NEW kinds, Take(kinds), UNCHANGED toServer PROVE QueuesTyped'
  BY <1>1, <1>2 DEF QueuesTyped
<1>3. CASE ProcessGetNwkInfoCnf
  <2>1. /\ appC_getDevArrayFromAppServer \in GwMessages
        /\ appC_getDevArrayFromAppServer.kind \in RequestKinds
    BY PlainIs DEF appC_getDevArrayFromAppServer, Kinds, RequestKinds
  <2>2. /\ toServer' \in Seq(GwMessages)
        /\ \A i \in DOMAIN toServer' : toServer'[i].kind \in RequestKinds
    <3>1. CASE toServer' = Append(toServer, appC_getDevArrayFromAppServer)
      BY <2>1, <3>1, RequestAdded
    <3>2. CASE toServer' = toServer
      BY <3>2 DEF QueuesTyped
    <3> QED
      BY <1>3, <3>1, <3>2 DEF ProcessGetNwkInfoCnf
  <2> QED
    BY <1>1, <1>3, <2>2 DEF ProcessGetNwkInfoCnf
<1>4. CASE ProcessStateChangeUpdate
  <2>1. CASE toClient' = Tail(toClient) /\ UNCHANGED <<answers, toServer>>
    <3>1. toClient' \in Seq(GwMessages) /\ \A i \in DOMAIN toClient' : OfOneDevice(toClient'[i])
      BY <1>4, <2>1, TypedTail DEF ProcessStateChangeUpdate, QueuesTyped
    <3> QED
      BY <1>4, <2>1, <3>1 DEF ProcessStateChangeUpdate, collectorVars, QueuesTyped
  <2>2. CASE Disconnected
    BY <1>4, <2>2, EndedQueues DEF ProcessStateChangeUpdate, collectorVars
  <2> QED
    BY <1>4, <2>1, <2>2 DEF ProcessStateChangeUpdate
<1> QED
  BY <1>2, <1>3, <1>4 DEF ProcessIncoming, ProcessGetDevArrayCnf, ProcessNetworkUpdateInd,
     ProcessDeviceJoinedInd, ProcessDeviceNotActiveInd, ProcessDeviceDataRxInd, ProcessCnf

LEMMA BrowserQueues ==
  ASSUME QueuesTyped, NEW m \in GwMessages, m.kind \in RequestKinds, Write(m) PROVE QueuesTyped'
<1>1. /\ toServer' \in Seq(GwMessages)
      /\ \A i \in DOMAIN toServer' : toServer'[i].kind \in RequestKinds
  <2>1. CASE toServer' = Append(toServer, m)
    BY <2>1, RequestAdded
  <2>2. CASE toServer' = toServer
    BY <2>2 DEF QueuesTyped
  <2> QED
    BY <2>1, <2>2 DEF Write
<1> QED
  BY <1>1 DEF Write, collectorVars, QueuesTyped

LEMMA BrowserRequests ==
  /\ \A open \in BOOLEAN : /\ appC_setJoinPermitAtAppServer(open) \in GwMessages
                           /\ appC_setJoinPermitAtAppServer(open).kind \in {"open", "close"}
  /\ \A d \in Devices : /\ appC_sendToServer(d) \in GwMessages
                        /\ appC_sendToServer(d).kind = "txData"
<1>1. ASSUME NEW open \in BOOLEAN
      PROVE  /\ appC_setJoinPermitAtAppServer(open) \in GwMessages
             /\ appC_setJoinPermitAtAppServer(open).kind \in {"open", "close"}
  BY PlainIs DEF appC_setJoinPermitAtAppServer, Kinds
<1>2. ASSUME NEW d \in Devices
      PROVE  appC_sendToServer(d) \in GwMessages /\ appC_sendToServer(d).kind = "txData"
  BY MessagesAre, StatesAre DEF appC_sendToServer, Kinds
<1> QED
  BY <1>1, <1>2

\* What is asked for when the connection is made.
LEMMA AskedAtConnect ==
  ASSUME QueuesTyped, OthersTyped, Connect
  PROVE  /\ QueuesTyped'
         /\ listeners >= 1 => Asked({"getNwkInfo"})'
<1> DEFINE q == appC_getNwkInfoFromAppServer
           asks == [i \in 1 .. listeners |-> q]
<1>1. q \in GwMessages /\ q.kind = "getNwkInfo"
  BY PlainIs DEF appC_getNwkInfoFromAppServer, Kinds
<1> HIDE DEF q
<1>2. asks \in Seq(GwMessages) /\ Len(asks) = listeners /\ \A i \in 1 .. listeners : asks[i] = q
  BY <1>1 DEF OthersTyped
<1> HIDE DEF asks
<1>3. toServer' = toServer \o asks
  BY DEF Connect, asks, q
<1>c. /\ toServer \in Seq(GwMessages) /\ listeners \in Nat /\ Len(toServer) \in Nat
      /\ DOMAIN toServer = 1 .. Len(toServer)
  BY DEF QueuesTyped, OthersTyped
<1>4. /\ toServer' \in Seq(GwMessages) /\ Len(toServer') = Len(toServer) + listeners
      /\ \A i \in DOMAIN toServer' : toServer'[i] = IF i <= Len(toServer) THEN toServer[i]
                                                    ELSE asks[i - Len(toServer)]
      /\ DOMAIN toServer' = 1 .. Len(toServer') /\ DOMAIN toServer = 1 .. Len(toServer)
      /\ Len(toServer) \in Nat /\ listeners \in Nat
  <2>1. toServer' \in Seq(GwMessages) /\ Len(toServer') = Len(toServer) + listeners
    BY <1>2, <1>3, <1>c
  <2>2. DOMAIN toServer' = 1 .. Len(toServer')
    BY <2>1
  <2>3. ASSUME NEW i \in 1 .. Len(toServer')
        PROVE  toServer'[i] = IF i <= Len(toServer) THEN toServer[i]
                              ELSE asks[i - Len(toServer)]
    BY <1>2, <1>3, <1>c, <2>1
  <2> QED
    BY <1>c, <2>1, <2>2, <2>3
<1>5. ASSUME NEW i \in DOMAIN toServer', i > Len(toServer) PROVE toServer'[i] = q
  <2>1. i - Len(toServer) \in 1 .. listeners
    BY <1>4, <1>5
  <2> QED
    BY <1>2, <1>4, <1>5, <2>1
<1>6. \A i \in DOMAIN toServer' : toServer'[i].kind \in RequestKinds
  <2> SUFFICES ASSUME NEW i \in DOMAIN toServer' PROVE toServer'[i].kind \in RequestKinds
    OBVIOUS
  <2>1. CASE i > Len(toServer)
    BY <1>1, <1>5, <2>1 DEF RequestKinds
  <2>2. CASE i <= Len(toServer)
    BY <1>4, <2>2 DEF QueuesTyped
  <2> QED
    BY <1>4, <2>1, <2>2
<1>7. QueuesTyped'
  BY <1>4, <1>6 DEF Connect, collectorVars, QueuesTyped
<1>8. ASSUME listeners >= 1 PROVE Asked({"getNwkInfo"})'
  <2>1. Len(toServer) + 1 \in DOMAIN toServer'
    BY <1>4, <1>8
  <2> QED
    BY <1>1, <1>4, <1>5, <2>1 DEF Asked
<1> QED
  BY <1>7, <1>8

LEMMA QueuesTypedStep ==
  ASSUME QueuesTyped, OthersTyped, [GwNext]_gwVars PROVE QueuesTyped'
<1>1. OthersTyped'
  BY OthersTypedStep
<1>2. CASE CollectorStep
  BY <1>1, <1>2, CollectorQueues
<1>3. CASE Register \/ HandleRequest \/ SendAnswer
  BY <1>3, ServerQueues
<1>4. CASE Connect
  BY <1>4, AskedAtConnect
<1>5. CASE ConnectFails \/ Reconnect \/ LinkFails
  BY <1>5, EndedQueues DEF ConnectFails, Reconnect, LinkFails, LinkEnds, collectorVars
<1>6. CASE CollectorStops
  <2>1. CASE LinkEnds
    BY <1>6, <2>1, EndedQueues DEF CollectorStops, LinkEnds
  <2>2. CASE UNCHANGED connectionVars
    <3>1. <<>> \in Seq(GwMessages) /\ Len(<<>>) = 0 /\ DOMAIN <<>> = {}
      OBVIOUS
    <3> QED
      BY <1>6, <2>2, <3>1 DEF CollectorStops, connectionVars, QueuesTyped
  <2> QED
    BY <1>6, <2>1, <2>2 DEF CollectorStops
<1>7. CASE CollectorStarts \/ UNCHANGED gwVars
  BY <1>7 DEF CollectorStarts, gwVars, collectorVars, connectionVars, QueuesTyped
<1>8. CASE ProcessIncoming
  BY <1>8, GatewayQueues
<1>9. CASE (\E open \in BOOLEAN : SetPermitJoin(open)) \/ (\E d \in Devices : SendToDevice(d))
  BY <1>9, BrowserRequests, BrowserQueues DEF SetPermitJoin, SendToDevice, RequestKinds
<1> QED
  BY <1>2, <1>3, <1>4, <1>5, <1>6, <1>7, <1>8, <1>9 DEF GwNext

-----------------------------------------------------------------------------
(* What the connection and the store know of one another.                  *)

LEMMA SavedFirstStep == SavedFirst /\ OthersTyped /\ [GwNext]_gwVars => SavedFirst'
<1> SUFFICES ASSUME SavedFirst, OthersTyped, [GwNext]_gwVars PROVE SavedFirst'
  OBVIOUS
<1>1. CASE StartNetwork \/ NetworkUpdate \/ NetworkStarted \/ SendNews
  BY <1>1 DEF StartNetwork, NetworkUpdate, NetworkStarted, SendNews, StartStep, Step, SavedFirst
<1>2. ASSUME NEW d \in Devices,
             DeviceUpdate(d) \/ DeviceNotActiveUpdate(d) \/ DeviceData(d) \/ RemoveDevice(d)
      PROVE  SavedFirst'
  BY <1>2 DEF DeviceUpdate, DeviceNotActiveUpdate, DeviceData, RemoveDevice, Event, Step, SavedFirst
<1>3. CASE \E open \in BOOLEAN : JoinPermit(open)
  BY <1>3 DEF JoinPermit, Event, Step, SavedFirst
<1>4. CASE HandleRequest \/ CollectorStops
  BY <1>4 DEF HandleRequest, CollectorStops, SavedFirst
<1>5. CASE UNCHANGED <<saved, devices, phase>>
  BY <1>5 DEF SavedFirst
<1>6. CASE Register \/ SendAnswer \/ Connect \/ ConnectFails \/ Reconnect \/ LinkFails \/ CollectorStarts
           \/ ProcessIncoming \/ (\E open \in BOOLEAN : SetPermitJoin(open))
           \/ (\E d \in Devices : SendToDevice(d)) \/ UNCHANGED gwVars
  BY <1>5, <1>6 DEF Register, SendAnswer, Connect, ConnectFails, Reconnect, LinkFails, CollectorStarts,
     SetPermitJoin, SendToDevice, Write, gwVars, collectorVars, ProcessIncoming,
     ProcessGetNwkInfoCnf, ProcessGetDevArrayCnf, ProcessNetworkUpdateInd,
     ProcessDeviceJoinedInd, ProcessDeviceNotActiveInd, ProcessDeviceDataRxInd,
     ProcessStateChangeUpdate, ProcessCnf, Take
<1> QED
  BY <1>1, <1>2, <1>3, <1>4, <1>6 DEF GwNext, CollectorStep

\* What was asked for stays asked for, whatever is asked besides.
LEMMA StaysAsked ==
  ASSUME QueuesTyped, NEW kinds, Asked(kinds), NEW m \in GwMessages,
         toServer' = toServer \/ toServer' = Append(toServer, m)
  PROVE  Asked(kinds)'
<1>1. PICK i \in DOMAIN toServer : toServer[i].kind \in kinds
  BY DEF Asked
<1>2. i \in DOMAIN toServer' /\ toServer'[i] = toServer[i]
  <2>1. i \in DOMAIN Append(toServer, m) /\ Append(toServer, m)[i] = toServer[i]
    BY TypedAppend DEF QueuesTyped
  <2> QED
    BY <2>1
<1> QED
  BY <1>1, <1>2 DEF Asked

\* The threads of the collector and of browsers, and the gateway that takes a message.
LEMMA RequestsGrow ==
  ASSUME ProcessIncoming
  PROVE  \/ link' = "crashed" /\ Disconnected
         \/ /\ link = "up" /\ link' = link
            /\ UNCHANGED <<conn, answers, listeners>>
            /\ \/ toServer' = toServer
               \/ toServer' = Append(toServer, appC_getDevArrayFromAppServer)
BY DEF ProcessIncoming, ProcessGetNwkInfoCnf, ProcessGetDevArrayCnf, ProcessNetworkUpdateInd,
     ProcessDeviceJoinedInd, ProcessDeviceNotActiveInd, ProcessDeviceDataRxInd,
     ProcessStateChangeUpdate, ProcessCnf, Take

LEMMA LinkedStep == QueuesTyped /\ OthersTyped /\ Linked /\ [GwNext]_gwVars => Linked'
<1> SUFFICES ASSUME QueuesTyped, OthersTyped, Linked, [GwNext]_gwVars PROVE Linked'
  OBVIOUS
<1>1. ASSUME UNCHANGED <<link, listeners, conn, answers, toServer>> PROVE Linked'
  BY <1>1 DEF Linked, Asked
<1>2. CASE CollectorStep
  <2>1. UNCHANGED <<link, listeners, conn, answers, toServer>>
    BY <1>2 DEF CollectorStep, StartNetwork, NetworkUpdate, NetworkStarted, DeviceUpdate,
       DeviceNotActiveUpdate, DeviceData, RemoveDevice, JoinPermit, SendNews, StartStep, Event, Step,
       connectionVars, clientVars
  <2> QED
    BY <1>1, <2>1
<1>3. CASE Register \/ HandleRequest
  BY <1>3 DEF Register, HandleRequest, MayServe, clientVars, Linked
<1>4. CASE SendAnswer
  BY <1>4 DEF SendAnswer, clientVars, Linked
<1>5. CASE Connect
  <2>1. listeners >= 1 /\ link' = "up" /\ conn' = "accepted" /\ answers' = answers
    BY <1>5 DEF Connect, Linked
  <2>2. Asked({"getNwkInfo"})'
    BY <1>5, <2>1, AskedAtConnect
  <2>3. answers = <<>>
    BY <1>5 DEF Linked, Connect
  <2> QED
    BY <2>1, <2>2, <2>3 DEF Linked
<1>6. CASE Reconnect
  <2>1. listeners' >= 1
    BY <1>6, GatewayAssumption DEF Reconnect, OthersTyped
  <2> QED
    BY <1>6, <2>1 DEF Reconnect, Disconnected, Linked
<1>7. CASE ConnectFails \/ LinkFails
  BY <1>7 DEF ConnectFails, LinkFails, LinkEnds, OnError, Disconnected, Linked
<1>8. CASE CollectorStops
  <2>1. CASE LinkEnds
    BY <1>8, <2>1 DEF LinkEnds, OnError, Disconnected, Linked
  <2>2. CASE UNCHANGED <<link, timer, connectionVars>>
    BY <1>1, <1>8, <2>2 DEF CollectorStops, connectionVars
  <2> QED
    BY <1>8, <2>1, <2>2 DEF CollectorStops
<1>9. CASE CollectorStarts \/ UNCHANGED gwVars
  BY <1>1, <1>9 DEF CollectorStarts, gwVars, connectionVars, clientVars
<1>10. CASE ProcessIncoming
  <2>1. CASE link' = "crashed" /\ Disconnected
    BY <2>1 DEF Disconnected, Linked
  <2>2. CASE /\ link = "up" /\ link' = link
             /\ UNCHANGED <<conn, answers, listeners>>
             /\ \/ toServer' = toServer
                \/ toServer' = Append(toServer, appC_getDevArrayFromAppServer)
    <3>1. appC_getDevArrayFromAppServer \in GwMessages
      BY PlainIs DEF appC_getDevArrayFromAppServer, Kinds
    <3>2. Asked({"getNwkInfo"}) => Asked({"getNwkInfo"})'
      BY <2>2, <3>1, StaysAsked
    <3> QED
      BY <2>2, <3>2 DEF Linked
  <2> QED
    BY <1>10, <2>1, <2>2, RequestsGrow
<1>11. ASSUME NEW m \in GwMessages, Write(m) PROVE Linked'
  <2>1. CASE toServer' = Append(toServer, m) /\ UNCHANGED link
    <3>1. Asked({"getNwkInfo"}) => Asked({"getNwkInfo"})'
      BY <2>1, StaysAsked
    <3> QED
      BY <1>11, <2>1, <3>1 DEF Write, Linked
  <2>2. CASE OnError /\ UNCHANGED toServer
    BY <1>11, <2>2 DEF Write, OnError, Linked, Asked
  <2> QED
    BY <1>11, <2>1, <2>2 DEF Write
<1>12. CASE (\E open \in BOOLEAN : SetPermitJoin(open)) \/ (\E d \in Devices : SendToDevice(d))
  BY <1>11, <1>12, BrowserRequests DEF SetPermitJoin, SendToDevice
<1> QED
  BY <1>2, <1>3, <1>4, <1>5, <1>6, <1>7, <1>8, <1>9, <1>10, <1>12 DEF GwNext

-----------------------------------------------------------------------------
(* The truth comes.                                                        *)

\* What is on its way is a queue of messages.
LEMMA WayTyped == QueuesTyped => OnTheWay \in Seq(GwMessages)
BY DEF QueuesTyped, OnTheWay

\* The collector's thread builds a message.
LEMMA NewsComes ==
  ASSUME GwInv, GwInv => cllcState' \in States, NEW m \in GwMessages, news = <<>>, news' = <<m>>,
         UNCHANGED <<connectionVars, clientVars, crossed>>,
         saved' => \/ StateEffect(cllcState')[m] = "mends"
                   \/ saved /\ cllcState' = cllcState /\ StateEffect(cllcState)[m] = "none",
         \A d \in devices' : \/ DeviceEffect(d)[m] = "mends"
                             \/ d \in devices /\ DeviceEffect(d)[m] = "none"
  PROVE  TruthComes'
<1>1. QueuesTyped /\ OnTheWay \in Seq(GwMessages) /\ toClient \in Seq(GwMessages)
  BY WayTyped, TypesAre DEF GwInv, QueuesTyped
<1> SUFFICES ASSUME link' = "up", ~crossed', ~WillCross'
             PROVE  (saved => StateComes)' /\ (\A d \in devices : DeviceComes(d))'
  BY DEF TruthComes
<1>2. answers = <<>> /\ answers' = <<>> /\ toClient' = toClient /\ toServer' = toServer
  BY DEF WillCross, connectionVars
<1>3. OnTheWay = toClient /\ OnTheWay' = Append(OnTheWay, m)
  BY <1>1, <1>2 DEF OnTheWay
<1>4. (saved => StateComes) /\ (\A d \in devices : DeviceComes(d))
  BY <1>2 DEF GwInv, TruthComes, WillCross, connectionVars, clientVars
<1>5. \A kinds : Asked(kinds)' <=> Asked(kinds)
  BY <1>2 DEF Asked
<1>6. ASSUME saved' PROVE StateComes'
  <2>1. CASE StateEffect(cllcState')[m] = "mends"
    <3>1. EndsWell(Append(OnTheWay, m), StateEffect(cllcState'), nwkInfo' = Shown(cllcState'))
      BY <1>1, <2>1, MendedLast
    <3> QED
      BY <1>3, <3>1 DEF StateComes
  <2>2. CASE saved /\ cllcState' = cllcState /\ StateEffect(cllcState)[m] = "none"
    <3>1. CASE Asked({"getNwkInfo"})
      BY <1>5, <3>1 DEF StateComes
    <3>2. CASE EndsWell(OnTheWay, StateEffect(cllcState), nwkInfo = Shown(cllcState))
      <4>1. EndsWell(Append(OnTheWay, m), StateEffect(cllcState), nwkInfo = Shown(cllcState))
        BY <1>1, <2>2, <3>2, OtherLast
      <4> QED
        BY <1>3, <2>2, <4>1 DEF StateComes, clientVars
    <3> QED
      BY <1>4, <2>2, <3>1, <3>2 DEF StateComes
  <2> QED
    BY <1>6, <2>1, <2>2
<1>7. ASSUME NEW d \in devices' PROVE DeviceComes(d)'
  <2>0. IsKnown(d) \in BOOLEAN /\ IsKnown(d)' = IsKnown(d)
    BY DEF IsKnown, clientVars
  <2>1. CASE DeviceEffect(d)[m] = "mends"
    <3>1. EndsWell(Append(OnTheWay, m), DeviceEffect(d), IsKnown(d))
      BY <1>1, <2>0, <2>1, MendedLast
    <3> QED
      BY <1>3, <2>0, <3>1 DEF DeviceComes
  <2>2. CASE d \in devices /\ DeviceEffect(d)[m] = "none"
    <3>1. CASE Asked({"getNwkInfo", "getDevArray"})
      BY <1>5, <3>1 DEF DeviceComes
    <3>2. CASE \E i \in DOMAIN OnTheWay : OnTheWay[i].kind = "nwkCnf"
      BY <1>1, <1>3, <3>2, TypedAppend DEF DeviceComes
    <3>3. CASE EndsWell(OnTheWay, DeviceEffect(d), IsKnown(d))
      <4>1. EndsWell(Append(OnTheWay, m), DeviceEffect(d), IsKnown(d))
        BY <1>1, <2>0, <2>2, <3>3, OtherLast
      <4> QED
        BY <1>3, <2>0, <4>1 DEF DeviceComes
    <3> QED
      BY <1>4, <2>2, <3>1, <3>2, <3>3 DEF DeviceComes
  <2> QED
    BY <1>7, <2>1, <2>2
<1> QED
  BY <1>6, <1>7

\* The collector's steps but the sending.
LEMMA CollectorComes ==
  ASSUME GwInv, OthersTyped', CollectorStep, ~SendNews PROVE TruthComes'
<1> USE DEF connectionVars, clientVars
<1>0. QueuesTyped /\ OthersTyped
  BY TypesAre DEF GwInv
<1>1. CASE StartNetwork
  <2> DEFINE m == appsrv_stateChangeUpdate(cllcState')
  <2>1. m \in GwMessages /\ m.kind = "stateInd" /\ m.state = cllcState'
    BY StateChangeIs DEF OthersTyped
  <2>2. StateEffect(cllcState')[m] = "mends" /\ \A d \in devices' : DeviceEffect(d)[m] = "none"
    BY <2>1, Effects DEF StateKinds
  <2> HIDE DEF m
  <2> QED
    BY <1>1, <2>1, <2>2, NewsComes DEF StartNetwork, StartStep, Step, OthersTyped, m
<1>2. CASE NetworkUpdate
  <2> DEFINE m == appsrv_networkUpdate
  <2>1. m \in GwMessages /\ m.kind = "nwkInd" /\ m.state = cllcState
    BY <1>0, MessagesAre DEF appsrv_networkUpdate, OthersTyped, Kinds
  <2>2. cllcState' = cllcState
    BY <1>2 DEF NetworkUpdate
  <2>3. StateEffect(cllcState')[m] = "mends" /\ \A d \in devices' : DeviceEffect(d)[m] = "none"
    BY <2>1, <2>2, Effects DEF StateKinds
  <2> HIDE DEF m
  <2> QED
    BY <1>2, <2>1, <2>3, NewsComes DEF NetworkUpdate, StartStep, Step, OthersTyped, m
<1>3. CASE NetworkStarted
  <2> DEFINE m == appsrv_stateChangeUpdate(cllcState')
  <2>1. m \in GwMessages /\ m.kind = "stateInd" /\ m.state = cllcState'
    BY StateChangeIs DEF OthersTyped
  <2>2. StateEffect(cllcState')[m] = "mends" /\ \A d \in devices' : DeviceEffect(d)[m] = "none"
    BY <2>1, Effects DEF StateKinds
  <2> HIDE DEF m
  <2> QED
    BY <1>3, <2>1, <2>2, NewsComes DEF NetworkStarted, StartStep, Step, OthersTyped, m
<1>4. ASSUME NEW open \in BOOLEAN, JoinPermit(open) PROVE TruthComes'
  <2> DEFINE m == appsrv_stateChangeUpdate(cllcState')
  <2>1. m \in GwMessages /\ m.kind = "stateInd" /\ m.state = cllcState'
    BY StateChangeIs DEF OthersTyped
  <2>2. StateEffect(cllcState')[m] = "mends" /\ \A d \in devices' : DeviceEffect(d)[m] = "none"
    BY <2>1, Effects DEF StateKinds
  <2> HIDE DEF m
  <2> QED
    BY <1>4, <2>1, <2>2, NewsComes DEF JoinPermit, Event, Step, OthersTyped, m
<1>5. ASSUME NEW c \in Devices, DeviceUpdate(c) PROVE TruthComes'
  <2> DEFINE m == appsrv_deviceUpdate(c)
  <2>1. m \in GwMessages /\ m.kind = "joinedInd" /\ m.devs = {c}
    BY MessagesAre, StatesAre DEF appsrv_deviceUpdate, Kinds
  <2>2. /\ StateEffect(cllcState)[m] = "none"
        /\ \A d : DeviceEffect(d)[m] = IF d = c THEN "mends" ELSE "none"
    BY <2>1, Effects DEF StateKinds
  <2>3. devices' = devices \cup {c} /\ cllcState' = cllcState /\ saved' = saved
    BY <1>5 DEF DeviceUpdate
  <2> HIDE DEF m
  <2>4. \A d \in devices' : \/ DeviceEffect(d)[m] = "mends"
                            \/ d \in devices /\ DeviceEffect(d)[m] = "none"
    BY <2>2, <2>3
  <2> QED
    BY <1>5, <2>1, <2>2, <2>3, <2>4, NewsComes DEF DeviceUpdate, Event, Step, OthersTyped, m
<1>6. ASSUME NEW c \in Devices, DeviceNotActiveUpdate(c) \/ DeviceData(c) PROVE TruthComes'
  <2> PICK k \in {"notActiveInd", "dataInd"} : news' = <<Msg(k, "initWaiting", {c})>>
    BY <1>6 DEF DeviceNotActiveUpdate, DeviceData, appsrv_deviceNotActiveUpdate,
       appsrv_deviceRawDataUpdate
  <2> DEFINE m == Msg(k, "initWaiting", {c})
  <2>1. m \in GwMessages /\ m.kind = k
    BY MessagesAre, StatesAre DEF Kinds
  <2>2. StateEffect(cllcState)[m] = "none" /\ \A d : DeviceEffect(d)[m] = "none"
    BY <2>1, Effects DEF StateKinds
  <2>3. devices' = devices /\ cllcState' = cllcState /\ saved' = saved /\ news = <<>> /\ news' = <<m>>
        /\ UNCHANGED <<connectionVars, clientVars, crossed>>
    BY <1>6 DEF DeviceNotActiveUpdate, DeviceData, Event, Step
  <2> HIDE DEF m
  <2> QED
    BY <2>1, <2>2, <2>3, NewsComes DEF OthersTyped
<1>7. ASSUME NEW c \in Devices, RemoveDevice(c) PROVE TruthComes'
  <2>1. /\ UNCHANGED <<news, answers, toClient, toServer, saved, cllcState, nwkInfo, known, link, crossed>>
        /\ devices' \subseteq devices
    BY <1>7 DEF RemoveDevice, Event, Step
  <2>2. StateComes' <=> StateComes
    BY <2>1 DEF StateComes, OnTheWay, Asked
  <2>3. \A d : DeviceComes(d)' <=> DeviceComes(d)
    BY <2>1 DEF DeviceComes, OnTheWay, Asked, IsKnown
  <2> QED
    BY <2>1, <2>2, <2>3 DEF GwInv, TruthComes, WillCross
<1> QED
  BY <1>1, <1>2, <1>3, <1>4, <1>5, <1>6, <1>7 DEF CollectorStep

\* Who is not listed has asked; who is gets the message where it was.
LEMMA SendNewsComes ==
  ASSUME GwInv, SendNews PROVE TruthComes'
<1>0. QueuesTyped /\ OthersTyped
  BY TypesAre DEF GwInv
<1> SUFFICES ASSUME link' = "up", ~crossed' PROVE (saved => StateComes)' /\ (\A d \in devices : DeviceComes(d))'
  BY DEF TruthComes
<1>1. link = "up" /\ conn \in {"accepted", "listed"} /\ toServer' = toServer /\ news' = <<>>
      /\ answers' = answers /\ UNCHANGED <<saved, devices, cllcState, nwkInfo, known>>
  BY <1>0 DEF SendNews, clientVars, GwInv, Linked, OthersTyped
<1>2. CASE conn = "accepted"
  <2>1. Asked({"getNwkInfo"})'
    BY <1>1, <1>2 DEF GwInv, Linked, Asked
  <2> QED
    BY <2>1 DEF StateComes, DeviceComes, Asked
<1>3. CASE conn = "listed"
  <2>1. answers = <<>> /\ ~crossed /\ toClient' = toClient \o news
    BY <1>3 DEF SendNews
  <2>2. OnTheWay = toClient \o news /\ OnTheWay' = OnTheWay
    <3>1. toClient \o news \in Seq(GwMessages)
      BY <1>0 DEF QueuesTyped
    <3>2. (toClient \o news) \o <<>> = toClient \o news
      BY <3>1
    <3> QED
      BY <1>1, <2>1, <3>2 DEF OnTheWay
  <2>3. (saved => StateComes) /\ (\A d \in devices : DeviceComes(d))
    BY <1>1, <2>1 DEF GwInv, TruthComes, WillCross
  <2>4. StateComes => StateComes'
    BY <1>1, <2>2 DEF StateComes, Asked
  <2>5. \A d : DeviceComes(d) => DeviceComes(d)'
    BY <1>1, <2>2 DEF DeviceComes, Asked, IsKnown
  <2> QED
    BY <1>1, <2>3, <2>4, <2>5
<1> QED
  BY <1>1, <1>2, <1>3

LEMMA SendAnswerComes ==
  ASSUME GwInv, SendAnswer PROVE TruthComes'
<1>0. QueuesTyped /\ OthersTyped
  BY TypesAre DEF GwInv
<1> SUFFICES ASSUME link' = "up", ~crossed' PROVE (saved => StateComes)' /\ (\A d \in devices : DeviceComes(d))'
  BY DEF TruthComes
<1>1. /\ link = "up" /\ ~crossed /\ news = <<>> /\ news' = <<>> /\ toServer' = toServer
      /\ answers # <<>> /\ answers' = Tail(answers) /\ toClient' = Append(toClient, Head(answers))
      /\ UNCHANGED <<saved, devices, cllcState, nwkInfo, known>>
  BY DEF SendAnswer, clientVars, collectorVars
<1>2. OnTheWay' = OnTheWay
  <2>1. OnTheWay = toClient \o answers
    BY <1>1 DEF OnTheWay
  <2>2. OnTheWay' = toClient' \o answers'
    BY <1>1 DEF OnTheWay
  <2>3. Append(toClient, Head(answers)) \o Tail(answers) = toClient \o answers
    <3>1. toClient \in Seq(GwMessages) /\ answers \in Seq(GwMessages) /\ answers # <<>>
      BY <1>0, <1>1 DEF QueuesTyped
    <3> QED
      BY SMTT(30), <3>1, MovedOn
  <2> QED
    BY <1>1, <2>1, <2>2, <2>3
<1>3. (saved => StateComes) /\ (\A d \in devices : DeviceComes(d))
  BY <1>1 DEF GwInv, TruthComes, WillCross
<1>4. StateComes => StateComes'
  BY <1>1, <1>2 DEF StateComes, Asked
<1>5. \A d : DeviceComes(d) => DeviceComes(d)'
  BY <1>1, <1>2 DEF DeviceComes, Asked, IsKnown
<1> QED
  BY <1>1, <1>3, <1>4, <1>5

\* A device comes by what is on its way.
Coming(w, d) ==
  (\E i \in DOMAIN w : w[i].kind = "nwkCnf") \/ EndsWell(w, DeviceEffect(d), IsKnown(d))

LEMMA StillComing ==
  ASSUME NEW w \in Seq(GwMessages), NEW d, Coming(w, d), NEW m \in GwMessages,
         DeviceEffect(d)[m] = "none"
  PROVE  Coming(Append(w, m), d)
<1>1. CASE \E i \in DOMAIN w : w[i].kind = "nwkCnf"
  BY <1>1, TypedAppend DEF Coming
<1>2. CASE EndsWell(w, DeviceEffect(d), IsKnown(d))
  <2>1. IsKnown(d) \in BOOLEAN
    BY DEF IsKnown
  <2> QED
    BY <1>2, <2>1, OtherLast DEF Coming
<1> QED
  BY <1>1, <1>2 DEF Coming

\* What is not handled now stays asked for.
LEMMA AskedRest ==
  ASSUME QueuesTyped, toServer # <<>>, toServer' = Tail(toServer),
         NEW kinds, Asked(kinds), Head(toServer).kind \notin kinds
  PROVE  Asked(kinds)'
<1>1. PICK i \in DOMAIN toServer : toServer[i].kind \in kinds
  BY DEF Asked
<1>2. toServer \in Seq(GwMessages) /\ Head(toServer) = toServer[1] /\ i # 1
  BY <1>1, TypedTail DEF QueuesTyped
<1>3. i - 1 \in DOMAIN Tail(toServer) /\ Tail(toServer)[i - 1] = toServer[i]
  BY <1>2
<1> QED
  BY <1>1, <1>3 DEF Asked

LEMMA HandleRequestComes ==
  ASSUME GwInv, HandleRequest PROVE TruthComes'
<1> DEFINE h == Head(toServer)
<1>0. QueuesTyped /\ OthersTyped /\ toClient \in Seq(GwMessages)
  BY TypesAre DEF GwInv, QueuesTyped
<1>1. /\ answers = <<>> /\ toServer # <<>> /\ toServer' = Tail(toServer) /\ answers' = Answer(h)
      /\ UNCHANGED <<saved, devices, news, toClient, link, nwkInfo, known, crossed>>
      /\ cllcState' = CASE h.kind = "open" -> "joiningAllowed"
                        [] h.kind = "close" -> "joiningNotAllowed"
                        [] OTHER -> cllcState
  BY DEF HandleRequest, clientVars
<1>2. h.kind \in RequestKinds
  <2>1. 1 \in DOMAIN toServer /\ h = toServer[1]
    BY <1>0, <1>1, TypedTail DEF QueuesTyped
  <2> QED
    BY <1>0, <2>1 DEF QueuesTyped
<1> HIDE DEF h
<1>3. answers' # <<>>
  BY <1>0, <1>1, <1>2, AnswerIs DEF OthersTyped
<1> SUFFICES ASSUME link' = "up", ~crossed', ~WillCross'
             PROVE  (saved => StateComes)' /\ (\A d \in devices : DeviceComes(d))'
  BY DEF TruthComes
<1>4. news = <<>> /\ OnTheWay = toClient /\ OnTheWay' = toClient \o Answer(h)
  <2>1. news = <<>>
    BY <1>1, <1>3 DEF WillCross
  <2>2. toClient \o <<>> = toClient
    BY <1>0
  <2> QED
    BY <1>1, <1>3, <2>1, <2>2 DEF OnTheWay
<1>5. (saved => StateComes) /\ (\A d \in devices : DeviceComes(d))
  BY <1>1, <1>4 DEF GwInv, TruthComes, WillCross
<1>6. \A kinds : Asked(kinds) /\ h.kind \notin kinds => Asked(kinds)'
  BY <1>0, <1>1, AskedRest DEF h
<1>7. \A d : IsKnown(d)' = IsKnown(d)
  BY <1>1 DEF IsKnown
<1>8. ASSUME NEW d, DeviceComes(d), Coming(OnTheWay, d) => Coming(OnTheWay, d)',
             h.kind \notin {"getNwkInfo", "getDevArray"}
      PROVE  DeviceComes(d)'
  BY <1>6, <1>8 DEF DeviceComes, Coming
<1>9. CASE h.kind = "getNwkInfo"
  <2> DEFINE a == appsrv_processGetNwkInfoReq
  <2>1. a \in GwMessages /\ a.state = cllcState /\ a.kind = IF saved THEN "nwkCnf" ELSE "nwkCnfNone"
    BY <1>0, MessagesAre DEF appsrv_processGetNwkInfoReq, OthersTyped, Kinds
  <2>2. Answer(h) = <<a>> /\ cllcState' = cllcState
    BY <1>1, <1>9 DEF Answer
  <2> HIDE DEF a
  <2>3. OnTheWay' = Append(toClient, a)
    BY <1>0, <1>4, <2>1, <2>2
  <2>4. ASSUME saved PROVE StateComes'
    <3>1. StateEffect(cllcState)[a] = "mends"
      BY <2>1, <2>4, Effects DEF StateKinds
    <3>2. EndsWell(Append(toClient, a), StateEffect(cllcState), nwkInfo = Shown(cllcState))
      BY <1>0, <2>1, <3>1, MendedLast
    <3> QED
      BY <1>1, <2>2, <2>3, <3>2 DEF StateComes
  <2>5. ASSUME NEW d \in devices PROVE DeviceComes(d)'
    <3>1. a.kind = "nwkCnf"
      BY <2>1, <2>5 DEF GwInv, SavedFirst
    <3>2. \E i \in DOMAIN Append(toClient, a) : Append(toClient, a)[i] = a
      BY <1>0, <2>1, TypedAppend
    <3> QED
      BY <2>3, <3>1, <3>2 DEF DeviceComes
  <2> QED
    BY <1>1, <2>4, <2>5
<1>10. CASE h.kind = "getDevArray"
  <2> DEFINE a == appsrv_processGetDeviceArrayReq
  <2>1. a \in GwMessages /\ a.devs = devices /\ a.kind = "devCnf"
    BY <1>0, MessagesAre, StatesAre DEF appsrv_processGetDeviceArrayReq, OthersTyped, Kinds
  <2>2. Answer(h) = <<a>> /\ cllcState' = cllcState
    BY <1>1, <1>10 DEF Answer
  <2> HIDE DEF a
  <2>3. OnTheWay' = Append(toClient, a)
    BY <1>0, <1>4, <2>1, <2>2
  <2>4. ASSUME saved PROVE StateComes'
    <3>1. StateEffect(cllcState)[a] = "none"
      BY <2>1, Effects DEF StateKinds
    <3>2. CASE Asked({"getNwkInfo"})
      BY <1>6, <1>10, <3>2 DEF StateComes
    <3>3. CASE EndsWell(toClient, StateEffect(cllcState), nwkInfo = Shown(cllcState))
      <4>1. EndsWell(Append(toClient, a), StateEffect(cllcState), nwkInfo = Shown(cllcState))
        BY <1>0, <2>1, <3>1, <3>3, OtherLast
      <4> QED
        BY <1>1, <2>2, <2>3, <4>1 DEF StateComes
    <3> QED
      BY <1>4, <1>5, <2>4, <3>2, <3>3 DEF StateComes
  <2>5. ASSUME NEW d \in devices PROVE DeviceComes(d)'
    <3>1. DeviceEffect(d)[a] = "mends"
      BY <2>1, <2>5, Effects
    <3>2. IsKnown(d) \in BOOLEAN
      BY DEF IsKnown
    <3>3. EndsWell(Append(toClient, a), DeviceEffect(d), IsKnown(d))
      BY <1>0, <2>1, <3>1, <3>2, MendedLast
    <3> QED
      BY <1>7, <2>3, <3>3 DEF DeviceComes
  <2> QED
    BY <1>1, <2>4, <2>5
<1>11. CASE h.kind \in {"open", "close"}
  <2> DEFINE a == appsrv_stateChangeUpdate(cllcState')
             b == send_AppSrvJoinPermitCnf
  <2>1. cllcState' \in States /\ Answer(h) = <<a, b>>
    <3>1. CASE h.kind = "open"
      BY <1>1, <3>1, StatesAre DEF Answer
    <3>2. CASE h.kind = "close"
      BY <1>1, <3>2, StatesAre DEF Answer
    <3> QED
      BY <1>11, <3>1, <3>2
  <2>2. a \in GwMessages /\ a.kind = "stateInd" /\ a.state = cllcState'
    BY <2>1, StateChangeIs
  <2>3. b \in GwMessages /\ b.kind = "permitCnf"
    BY PlainIs DEF send_AppSrvJoinPermitCnf, Kinds
  <2> HIDE DEF a, b
  <2> DEFINE w == Append(toClient, a)
  <2>4. w \in Seq(GwMessages) /\ OnTheWay' = Append(w, b)
    BY <1>0, <1>4, <2>1, <2>2, <2>3
  <2>5. StateComes'
    <3>1. StateEffect(cllcState')[a] = "mends" /\ StateEffect(cllcState')[b] = "none"
      BY <2>2, <2>3, Effects DEF StateKinds
    <3>2. EndsWell(w, StateEffect(cllcState'), nwkInfo' = Shown(cllcState'))
      BY <1>0, <2>2, <3>1, MendedLast
    <3> HIDE DEF w
    <3>3. EndsWell(Append(w, b), StateEffect(cllcState'), nwkInfo' = Shown(cllcState'))
      BY <2>3, <2>4, <3>1, <3>2, OtherLast
    <3> QED
      BY <2>4, <3>3 DEF StateComes
  <2>6. ASSUME NEW d \in devices PROVE DeviceComes(d)'
    <3>1. DeviceEffect(d)[a] = "none" /\ DeviceEffect(d)[b] = "none"
      BY <2>2, <2>3, Effects
    <3>2. Coming(toClient, d) => Coming(w, d)
      BY <1>0, <2>2, <3>1, StillComing
    <3> HIDE DEF w
    <3>3. Coming(w, d) => Coming(Append(w, b), d)
      BY <2>3, <2>4, <3>1, StillComing
    <3>4. Coming(OnTheWay, d) => Coming(OnTheWay, d)'
      BY <1>4, <1>7, <2>4, <3>2, <3>3 DEF Coming
    <3> QED
      BY <1>5, <1>8, <1>11, <2>6, <3>4
  <2> QED
    BY <1>1, <2>5, <2>6
<1>12. CASE h.kind = "txData"
  <2> DEFINE a == send_AppsrvTxDataCnf
  <2>1. a \in GwMessages /\ a.kind = "txCnf"
    BY PlainIs DEF send_AppsrvTxDataCnf, Kinds
  <2>2. Answer(h) = <<a>> /\ cllcState' = cllcState
    BY <1>1, <1>12 DEF Answer, appsrv_processTxDataReq
  <2> HIDE DEF a
  <2>3. OnTheWay' = Append(toClient, a)
    BY <1>0, <1>4, <2>1, <2>2
  <2>4. ASSUME saved PROVE StateComes'
    <3>1. StateEffect(cllcState)[a] = "none"
      BY <2>1, Effects DEF StateKinds
    <3>2. CASE Asked({"getNwkInfo"})
      BY <1>6, <1>12, <3>2 DEF StateComes
    <3>3. CASE EndsWell(toClient, StateEffect(cllcState), nwkInfo = Shown(cllcState))
      <4>1. EndsWell(Append(toClient, a), StateEffect(cllcState), nwkInfo = Shown(cllcState))
        BY <1>0, <2>1, <3>1, <3>3, OtherLast
      <4> QED
        BY <1>1, <2>2, <2>3, <4>1 DEF StateComes
    <3> QED
      BY <1>4, <1>5, <2>4, <3>2, <3>3 DEF StateComes
  <2>5. ASSUME NEW d \in devices PROVE DeviceComes(d)'
    <3>1. DeviceEffect(d)[a] = "none"
      BY <2>1, Effects
    <3>2. Coming(toClient, d) => Coming(Append(toClient, a), d)
      BY <1>0, <2>1, <3>1, StillComing
    <3>3. Coming(OnTheWay, d) => Coming(OnTheWay, d)'
      BY <1>4, <1>7, <2>3, <3>2 DEF Coming
    <3> QED
      BY <1>5, <1>8, <1>12, <2>5, <3>3
  <2> QED
    BY <1>1, <2>4, <2>5
<1> QED
  BY <1>2, <1>9, <1>10, <1>11, <1>12 DEF RequestKinds

\* The gateway takes a message, and does what it does.
LEMMA TakenComes ==
  ASSUME GwInv, toClient # <<>>, toClient' = Tail(toClient), link = "up",
         UNCHANGED <<collectorVars, answers, crossed>>,
         \/ toServer' = toServer
         \/ toServer' = Append(toServer, appC_getDevArrayFromAppServer),
         Head(toClient).kind = "nwkCnf" => toServer' # toServer,
         LET e == StateEffect(cllcState)[Head(toClient)] IN
           /\ e = "mends" => nwkInfo' = Shown(cllcState)
           /\ e = "none" => nwkInfo' = nwkInfo,
         \A d \in devices : LET e == DeviceEffect(d)[Head(toClient)] IN
           /\ e = "mends" => IsKnown(d)'
           /\ e = "none" => (IsKnown(d) => IsKnown(d)')
  PROVE  TruthComes'
<1> DEFINE h == Head(toClient)
           rest == IF answers # <<>> THEN answers ELSE news
           q == appC_getDevArrayFromAppServer
<1>0. /\ QueuesTyped /\ OthersTyped /\ toClient \in Seq(GwMessages) /\ rest \in Seq(GwMessages)
      /\ h \in GwMessages /\ toServer \in Seq(GwMessages)
  <2>1. QueuesTyped /\ OthersTyped
    BY TypesAre DEF GwInv
  <2>2. toClient \in Seq(GwMessages) /\ rest \in Seq(GwMessages) /\ toServer \in Seq(GwMessages)
    BY <2>1 DEF QueuesTyped
  <2>3. h \in GwMessages
    BY <2>2, TypedTail
  <2> QED
    BY <2>1, <2>2, <2>3
<1>1. q \in GwMessages /\ q.kind = "getDevArray"
  BY PlainIs DEF appC_getDevArrayFromAppServer, Kinds
<1> HIDE DEF q
<1>2. /\ OnTheWay # <<>> /\ OnTheWay \in Seq(GwMessages) /\ Head(OnTheWay) = h
      /\ OnTheWay' = Tail(OnTheWay)
  <2>1. OnTheWay = toClient \o rest /\ OnTheWay' = Tail(toClient) \o rest
    BY DEF OnTheWay, collectorVars
  <2> HIDE DEF rest
  <2>2. /\ Head(toClient \o rest) = Head(toClient) /\ Tail(toClient \o rest) = Tail(toClient) \o rest
        /\ toClient \o rest # <<>>
    BY <1>0, MovedOn
  <2>3. toClient \o rest \in Seq(GwMessages)
    BY <1>0
  <2> QED
    BY <2>1, <2>2, <2>3
<1> HIDE DEF rest
<1>3. \A kinds : Asked(kinds) => Asked(kinds)'
  <2>1. toServer' = toServer \/ toServer' = Append(toServer, q)
    BY DEF q
  <2> QED
    BY <1>0, <1>1, <2>1, StaysAsked
<1>4. h.kind = "nwkCnf" => Asked({"getNwkInfo", "getDevArray"})'
  <2>1. ASSUME toServer' = Append(toServer, q) PROVE Asked({"getNwkInfo", "getDevArray"})'
    BY <1>0, <1>1, <2>1, TypedAppend DEF Asked
  <2> QED
    BY <2>1 DEF q
<1> SUFFICES ASSUME link' = "up", ~crossed', ~WillCross'
             PROVE  (saved => StateComes)' /\ (\A d \in devices : DeviceComes(d))'
  BY DEF TruthComes
<1>5. (saved => StateComes) /\ (\A d \in devices : DeviceComes(d))
  BY DEF GwInv, TruthComes, WillCross, collectorVars
<1>6. ASSUME StateComes PROVE StateComes'
  <2>1. CASE Asked({"getNwkInfo"})
    BY <1>3, <2>1 DEF StateComes
  <2>2. CASE EndsWell(OnTheWay, StateEffect(cllcState), nwkInfo = Shown(cllcState))
    <3> DEFINE e == StateEffect(cllcState)
    <3>1. e[h] \in {"mends", "none", "spoils"}
      BY <1>0, Effects
    <3>2. /\ e[h] = "mends" => nwkInfo' = Shown(cllcState)
          /\ e[h] = "none" /\ nwkInfo = Shown(cllcState) => nwkInfo' = Shown(cllcState)
      OBVIOUS
    <3> HIDE DEF e
    <3>3. EndsWell(Tail(OnTheWay), e, nwkInfo' = Shown(cllcState))
      BY <1>2, <2>2, <3>1, <3>2, FirstTaken DEF e
    <3> QED
      BY <1>2, <3>3 DEF StateComes, e, collectorVars
  <2> QED
    BY <1>6, <2>1, <2>2 DEF StateComes
<1>7. ASSUME NEW d \in devices, DeviceComes(d) PROVE DeviceComes(d)'
  <2>1. CASE Asked({"getNwkInfo", "getDevArray"})
    BY <1>3, <2>1 DEF DeviceComes
  <2>2. CASE \E i \in DOMAIN OnTheWay : OnTheWay[i].kind = "nwkCnf"
    <3>1. PICK i \in DOMAIN OnTheWay : OnTheWay[i].kind = "nwkCnf"
      BY <2>2
    <3>2. CASE i = 1
      <4>1. h.kind = "nwkCnf"
        BY <1>2, <3>1, <3>2, TypedTail
      <4> QED
        BY <1>4, <4>1 DEF DeviceComes
    <3>3. CASE i # 1
      <4>1. i - 1 \in DOMAIN Tail(OnTheWay) /\ Tail(OnTheWay)[i - 1] = OnTheWay[i]
        BY <1>2, <3>1, <3>3
      <4> QED
        BY <1>2, <3>1, <4>1 DEF DeviceComes
    <3> QED
      BY <3>2, <3>3
  <2>3. CASE EndsWell(OnTheWay, DeviceEffect(d), IsKnown(d))
    <3> DEFINE e == DeviceEffect(d)
    <3>1. e[h] \in {"mends", "none", "spoils"}
      BY <1>0, Effects
    <3>2. /\ e[h] = "mends" => IsKnown(d)'
          /\ e[h] = "none" /\ IsKnown(d) => IsKnown(d)'
      OBVIOUS
    <3>3. IsKnown(d) \in BOOLEAN /\ IsKnown(d)' \in BOOLEAN
      BY DEF IsKnown
    <3> HIDE DEF e
    <3>4. EndsWell(Tail(OnTheWay), e, IsKnown(d)')
      BY <1>2, <2>3, <3>1, <3>2, <3>3, FirstTaken DEF e
    <3> QED
      BY <1>2, <3>4 DEF DeviceComes, e
  <2> QED
    BY <1>7, <2>1, <2>2, <2>3 DEF DeviceComes
<1>8. saved' = saved /\ devices' = devices
  BY DEF collectorVars
<1> QED
  BY <1>5, <1>6, <1>7, <1>8

LEMMA ProcessIncomingComes ==
  ASSUME GwInv, ProcessIncoming PROVE TruthComes'
<1> DEFINE h == Head(toClient)
<1>0. /\ QueuesTyped /\ OthersTyped /\ toClient # <<>> /\ h \in GwMessages /\ OfOneDevice(h)
      /\ link = "up"
  <2>1. QueuesTyped /\ OthersTyped
    BY TypesAre DEF GwInv
  <2>2. toClient # <<>> /\ link = "up"
    BY DEF ProcessIncoming, ProcessGetNwkInfoCnf, ProcessGetDevArrayCnf, ProcessNetworkUpdateInd,
       ProcessDeviceJoinedInd, ProcessDeviceNotActiveInd, ProcessDeviceDataRxInd,
       ProcessStateChangeUpdate, ProcessCnf, Take
  <2>3. h \in GwMessages /\ 1 \in DOMAIN toClient /\ h = toClient[1]
    BY <2>1, <2>2, TypedTail DEF QueuesTyped
  <2> QED
    BY <2>1, <2>2, <2>3 DEF QueuesTyped
<1>1. \A d : /\ StateEffect(cllcState)[h] =
                  (IF h.kind \notin StateKinds THEN "none"
                   ELSE IF Shown(h.state) = Shown(cllcState) THEN "mends" ELSE "spoils")
             /\ DeviceEffect(d)[h] =
                  (IF h.kind \in {"joinedInd", "devCnf"} /\ d \in h.devs THEN "mends"
                   ELSE IF h.kind = "devCnf" THEN "spoils" ELSE "none")
  BY <1>0, Effects
<1>2. devices \subseteq Devices /\ known \in [Devices -> {Undefined, "active", "inactive"}]
  BY <1>0 DEF OthersTyped
<1>3. h.kind \in {"joinedInd", "notActiveInd", "dataInd"} =>
        Device(h) \in Devices /\ h.devs = {Device(h)}
  BY <1>0 DEF OfOneDevice, Device
<1> HIDE DEF h
<1>4. "active" # Undefined /\ "inactive" # Undefined
  BY DEF Undefined
<1>5. ASSUME NEW kinds, Take(kinds)
      PROVE  /\ h.kind \in kinds /\ toClient' = Tail(toClient)
             /\ UNCHANGED <<collectorVars, answers, crossed>>
  BY <1>5 DEF Take, h
<1>6. CASE ProcessGetNwkInfoCnf
  <2>1. /\ h.kind \in {"nwkCnf", "nwkCnfNone"} /\ known' = known
        /\ h.kind = "nwkCnf" => /\ nwkInfo' = Shown(h.state)
                                /\ toServer' = Append(toServer, appC_getDevArrayFromAppServer)
        /\ h.kind = "nwkCnfNone" => UNCHANGED <<nwkInfo, toServer>>
    BY <1>5, <1>6 DEF ProcessGetNwkInfoCnf, h
  <2>2. Append(toServer, appC_getDevArrayFromAppServer) # toServer
    <3>1. Len(Append(toServer, appC_getDevArrayFromAppServer)) = Len(toServer) + 1 /\ Len(toServer) \in Nat
      <4>1. toServer \in Seq(GwMessages) /\ appC_getDevArrayFromAppServer \in GwMessages
        BY <1>0, PlainIs DEF appC_getDevArrayFromAppServer, Kinds, QueuesTyped
      <4> QED
        BY <4>1
    <3> QED
      BY <3>1
  <2>3. h.kind = "nwkCnf" => toServer' # toServer
    BY <2>1, <2>2
  <2>4. /\ StateEffect(cllcState)[h] = "mends" => nwkInfo' = Shown(cllcState)
        /\ StateEffect(cllcState)[h] = "none" => nwkInfo' = nwkInfo
    BY <1>1, <2>1 DEF StateKinds
  <2>5. \A d \in devices : DeviceEffect(d)[h] = "none" /\ (IsKnown(d) => IsKnown(d)')
    BY <1>1, <2>1 DEF IsKnown
  <2> QED
    BY <1>0, <1>5, <1>6, <2>1, <2>3, <2>4, <2>5, TakenComes DEF ProcessGetNwkInfoCnf, h
<1>7. CASE ProcessGetDevArrayCnf
  <2>1. /\ h.kind = "devCnf" /\ UNCHANGED <<nwkInfo, toServer>>
        /\ known' = [d \in Devices |-> IF d \in h.devs THEN "active" ELSE Undefined]
    BY <1>5, <1>7 DEF ProcessGetDevArrayCnf, h
  <2>2. StateEffect(cllcState)[h] = "none"
    BY <1>1, <2>1 DEF StateKinds
  <2>3. ASSUME NEW d \in devices
        PROVE  DeviceEffect(d)[h] # "none" /\ (DeviceEffect(d)[h] = "mends" => IsKnown(d)')
    BY <1>1, <1>2, <1>4, <2>1 DEF IsKnown
  <2> QED
    BY <1>0, <1>5, <1>7, <2>1, <2>2, <2>3, TakenComes DEF ProcessGetDevArrayCnf, h
<1>8. CASE ProcessNetworkUpdateInd
  <2>1. h.kind = "nwkInd" /\ UNCHANGED <<known, toServer>> /\ nwkInfo' = Shown(h.state)
    BY <1>5, <1>8 DEF ProcessNetworkUpdateInd, h
  <2>2. /\ StateEffect(cllcState)[h] = "mends" => nwkInfo' = Shown(cllcState)
        /\ StateEffect(cllcState)[h] # "none"
    BY <1>1, <2>1 DEF StateKinds
  <2>3. \A d \in devices : DeviceEffect(d)[h] = "none" /\ (IsKnown(d) => IsKnown(d)')
    BY <1>1, <2>1 DEF IsKnown
  <2> QED
    BY <1>0, <1>5, <1>8, <2>1, <2>2, <2>3, TakenComes DEF ProcessNetworkUpdateInd, h
<1>9. CASE ProcessDeviceJoinedInd
  <2>1. h.kind = "joinedInd" /\ UNCHANGED <<nwkInfo, toServer>> /\ known' = Active(Device(h))
    BY <1>5, <1>9 DEF ProcessDeviceJoinedInd, h
  <2>2. StateEffect(cllcState)[h] = "none"
    BY <1>1, <2>1 DEF StateKinds
  <2>3. ASSUME NEW d \in devices
        PROVE  /\ DeviceEffect(d)[h] = "mends" => IsKnown(d)'
               /\ IsKnown(d) => IsKnown(d)'
    BY <1>1, <1>2, <1>3, <1>4, <2>1 DEF IsKnown, Active
  <2> QED
    BY <1>0, <1>5, <1>9, <2>1, <2>2, <2>3, TakenComes DEF ProcessDeviceJoinedInd, h
<1>10. CASE ProcessDeviceNotActiveInd \/ ProcessDeviceDataRxInd
  <2>1. /\ h.kind \in {"notActiveInd", "dataInd"} /\ UNCHANGED <<nwkInfo, toServer>>
        /\ known' \in {known, [known EXCEPT ![Device(h)] = "inactive"], Active(Device(h))}
    BY <1>5, <1>10 DEF ProcessDeviceNotActiveInd, ProcessDeviceDataRxInd, h
  <2>2. StateEffect(cllcState)[h] = "none"
    BY <1>1, <2>1 DEF StateKinds
  <2>3. ASSUME NEW d \in devices PROVE DeviceEffect(d)[h] = "none" /\ (IsKnown(d) => IsKnown(d)')
    BY <1>1, <1>2, <1>3, <1>4, <2>1 DEF IsKnown, Active
  <2> QED
    BY <1>0, <1>5, <1>10, <2>1, <2>2, <2>3, TakenComes DEF ProcessDeviceNotActiveInd,
       ProcessDeviceDataRxInd, h
<1>11. CASE ProcessStateChangeUpdate
  <2>1. CASE Disconnected /\ link' = "crashed"
    BY <2>1 DEF TruthComes
  <2>2. CASE /\ nwkInfo' = Shown(h.state) /\ toClient' = Tail(toClient)
             /\ UNCHANGED <<link, conn, answers, toServer>>
    <3>1. h.kind = "stateInd" /\ UNCHANGED <<collectorVars, known, crossed>>
      BY <1>11 DEF ProcessStateChangeUpdate, h
    <3>2. /\ StateEffect(cllcState)[h] = "mends" => nwkInfo' = Shown(cllcState)
          /\ StateEffect(cllcState)[h] # "none"
      BY <1>1, <2>2, <3>1 DEF StateKinds
    <3>3. \A d \in devices : DeviceEffect(d)[h] = "none" /\ (IsKnown(d) => IsKnown(d)')
      BY <1>1, <3>1 DEF IsKnown
    <3> QED
      BY <1>0, <2>2, <3>1, <3>2, <3>3, TakenComes DEF h
  <2> QED
    BY <1>11, <2>1, <2>2 DEF ProcessStateChangeUpdate, h
<1>12. CASE ProcessCnf
  <2>1. h.kind \in {"permitCnf", "txCnf"} /\ UNCHANGED <<nwkInfo, known, toServer>>
    BY <1>5, <1>12 DEF ProcessCnf, h
  <2>2. StateEffect(cllcState)[h] = "none"
    BY <1>1, <2>1 DEF StateKinds
  <2>3. \A d \in devices : DeviceEffect(d)[h] = "none" /\ (IsKnown(d) => IsKnown(d)')
    BY <1>1, <2>1 DEF IsKnown
  <2> QED
    BY <1>0, <1>5, <1>12, <2>1, <2>2, <2>3, TakenComes DEF ProcessCnf, h
<1> QED
  BY <1>6, <1>7, <1>8, <1>9, <1>10, <1>11, <1>12 DEF ProcessIncoming

\* A link that is not up after the step, or on which nothing happened.
LEMMA NothingComes ==
  ASSUME GwInv,
         \/ link' # "up"
         \/ UNCHANGED <<link, crossed, news, answers, toClient, toServer, saved, devices, cllcState,
                       nwkInfo, known>>
  PROVE  TruthComes'
<1>1. CASE link' # "up"
  BY <1>1 DEF TruthComes
<1>2. CASE UNCHANGED <<link, crossed, news, answers, toClient, toServer, saved, devices, cllcState,
                       nwkInfo, known>>
  <2>1. StateComes' <=> StateComes
    BY <1>2 DEF StateComes, OnTheWay, Asked
  <2>2. \A d : DeviceComes(d)' <=> DeviceComes(d)
    BY <1>2 DEF DeviceComes, OnTheWay, Asked, IsKnown
  <2> QED
    BY <1>2, <2>1, <2>2 DEF GwInv, TruthComes, WillCross
<1> QED
  BY <1>1, <1>2

LEMMA WriteComes ==
  ASSUME GwInv, NEW m \in GwMessages, Write(m) PROVE TruthComes'
<1>1. CASE toServer' = Append(toServer, m) /\ UNCHANGED link
  <2>1. QueuesTyped
    BY TypesAre DEF GwInv
  <2>2. \A kinds : Asked(kinds) => Asked(kinds)'
    BY <1>1, <2>1, StaysAsked
  <2>3. UNCHANGED <<crossed, news, answers, toClient, saved, devices, cllcState, nwkInfo, known, link>>
    BY <1>1 DEF Write, collectorVars
  <2>4. StateComes => StateComes'
    BY <2>2, <2>3 DEF StateComes, OnTheWay
  <2>5. \A d : DeviceComes(d) => DeviceComes(d)'
    BY <2>2, <2>3 DEF DeviceComes, OnTheWay, IsKnown
  <2> QED
    BY <2>3, <2>4, <2>5 DEF GwInv, TruthComes, WillCross
<1>2. CASE OnError
  BY <1>2, NothingComes DEF OnError
<1> QED
  BY <1>1, <1>2 DEF Write

LEMMA TruthStep == GwInv /\ [GwNext]_gwVars => TruthComes'
<1> SUFFICES ASSUME GwInv, [GwNext]_gwVars PROVE TruthComes'
  OBVIOUS
<1>0. QueuesTyped /\ OthersTyped /\ OthersTyped'
  BY TypesAre, OthersTypedStep DEF GwInv
<1>1. CASE CollectorStep
  BY <1>0, <1>1, CollectorComes, SendNewsComes
<1>2. CASE Register
  BY <1>2, NothingComes DEF Register, collectorVars, clientVars
<1>3. CASE HandleRequest
  BY <1>3, HandleRequestComes
<1>4. CASE SendAnswer
  BY <1>4, SendAnswerComes
<1>5. CASE Connect
  <2>1. Asked({"getNwkInfo"})'
    BY <1>0, <1>5, AskedAtConnect DEF GwInv, Linked, Connect
  <2> QED
    BY <2>1 DEF TruthComes, StateComes, DeviceComes, Asked
<1>6. CASE ConnectFails \/ Reconnect \/ LinkFails
  BY <1>6, NothingComes DEF ConnectFails, Reconnect, LinkFails, LinkEnds, OnError
<1>7. CASE CollectorStops
  BY <1>7, NothingComes DEF CollectorStops, LinkEnds, OnError
<1>8. CASE CollectorStarts \/ UNCHANGED gwVars
  BY <1>8, NothingComes DEF CollectorStarts, gwVars, collectorVars, connectionVars, clientVars
<1>9. CASE ProcessIncoming
  BY <1>9, ProcessIncomingComes
<1>10. CASE (\E open \in BOOLEAN : SetPermitJoin(open)) \/ (\E d \in Devices : SendToDevice(d))
  BY <1>10, BrowserRequests, WriteComes DEF SetPermitJoin, SendToDevice
<1> QED
  BY <1>1, <1>2, <1>3, <1>4, <1>5, <1>6, <1>7, <1>8, <1>9, <1>10 DEF GwNext

LEMMA NextGwInv == GwInv /\ [GwNext]_gwVars => GwInv'
<1> SUFFICES ASSUME GwInv, [GwNext]_gwVars PROVE GwInv'
  OBVIOUS
<1>1. QueuesTyped /\ OthersTyped
  BY TypesAre DEF GwInv
<1>2. QueuesTyped' /\ OthersTyped'
  BY <1>1, QueuesTypedStep, OthersTypedStep
<1>3. GwTypes'
  BY <1>2 DEF GwTypes, QueuesTyped, OthersTyped
<1>4. SavedFirst' /\ Linked'
  BY <1>1, SavedFirstStep, LinkedStep DEF GwInv
<1> QED
  BY <1>3, <1>4, TruthStep DEF GwInv

LEMMA GwInvariant == GwSpec => []GwInv
BY InitGwInv, NextGwInv, PTL DEF GwSpec

\* Whatever was told to the gateway in whatever order, once nothing is on its way browsers
\* are shown the collector's state and its devices, unless two messages crossed.
THEOREM ShownStaysTrue == GwSpec => []ShownIsTrue
<1>1. GwInv => ShownIsTrue
  <2> SUFFICES ASSUME GwInv, Quiet, ~crossed
               PROVE  (saved => nwkInfo = Shown(cllcState)) /\ \A d \in devices : IsKnown(d)
    BY DEF ShownIsTrue
  <2>1. /\ link = "up" /\ news = <<>> /\ answers = <<>> /\ toServer = <<>> /\ toClient = <<>>
    BY DEF Quiet
  <2>2. OnTheWay = <<>> /\ DOMAIN OnTheWay = {} /\ DOMAIN toServer = {}
    BY <2>1 DEF OnTheWay
  <2>3. (saved => StateComes) /\ \A d \in devices : DeviceComes(d)
    BY <2>1 DEF GwInv, TruthComes, WillCross
  <2> QED
    BY <2>2, <2>3 DEF StateComes, DeviceComes, EndsWell, Asked
<1> QED
  BY <1>1, GwInvariant, PTL

=============================================================================
