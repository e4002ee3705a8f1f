--------------------------- MODULE MtLayersProofs ---------------------------
(***************************************************************************)
(* Proofs about the layers of the MT messages: the bytes of the serial     *)
(* port (SerialPort), the messages found among them (MtFrame), the         *)
(* transmission of long messages (MtFragment), and the requests (MtMsg).   *)
(* Of these: for any number of threads, requests and messages, no request  *)
(* is pending when the next one is posted, no answer is taken from a       *)
(* thread that still waits for it, no message is left on the list, and     *)
(* nothing goes wrong before a request has ended without its answer.       *)
(***************************************************************************)
EXTENDS SerialPort, MtFrame, MtFragment, MtMsg, WellFoundedInduction, TLAPS

-----------------------------------------------------------------------------
(* The places of the FIFO's memory.                                        *)

Pos(k) == k % Depth

\* Where a place is that lies up to the whole memory ahead of another.
LEMMA PlacesAhead ==
  ASSUME NEW k \in Nat, NEW m \in 0 .. Depth
  PROVE  /\ Pos(k) \in 0 .. Depth - 1 /\ Pos(k + m) \in 0 .. Depth - 1
         /\ Pos(k + m) = Pos(k) + m \/ Pos(k + m) = Pos(k) + m - Depth
<1> DEFINE q == k \div Depth
           p == (k + m) \div Depth
<1>1. k = Depth * q + Pos(k) /\ Pos(k) \in 0 .. Depth - 1 /\ q \in Int
  BY SerialAssumption DEF Pos
<1>2. k + m = Depth * p + Pos(k + m) /\ Pos(k + m) \in 0 .. Depth - 1 /\ p \in Int
  BY SerialAssumption DEF Pos
<1> HIDE DEF q, p
<1>3. PICK d \in Int : p = q + d
  <2>1. p - q \in Int /\ p = q + (p - q)
    BY <1>1, <1>2
  <2> QED
    BY <2>1
<1>4. Depth * p = Depth * q + Depth * d /\ Depth * q \in Int /\ Depth * d \in Int /\ Depth \in Nat \ {0}
  BY <1>1, <1>2, <1>3, SerialAssumption
<1>5. Pos(k + m) = Pos(k) + m - Depth * d
  BY <1>1, <1>2, <1>4
<1>6. CASE d = 0
  BY <1>1, <1>2, <1>4, <1>5, <1>6
<1>7. CASE d = 1
  BY <1>1, <1>2, <1>4, <1>5, <1>7
<1>8. CASE d >= 2
  <2>1. Depth * d >= 2 * Depth
    BY <1>4, <1>8
  <2> QED
    BY <1>1, <1>2, <1>4, <1>5, <2>1
<1>9. CASE d <= -1
  <2>1. Depth * d <= 0 - Depth
    BY <1>4, <1>9
  <2> QED
    BY <1>1, <1>2, <1>4, <1>5, <2>1
<1> QED
  BY <1>6, <1>7, <1>8, <1>9

\* An index that goes round is that of the place.
LEMMA GoesRound ==
  ASSUME NEW k \in Nat, NEW m \in 0 .. Depth
  PROVE  (Pos(k) + m) % Depth = Pos(k + m)
<1>1. /\ Pos(k) \in 0 .. Depth - 1 /\ Pos(k + m) \in 0 .. Depth - 1 /\ Depth \in Nat \ {0}
      /\ Pos(k + m) = Pos(k) + m \/ Pos(k + m) = Pos(k) + m - Depth
  BY PlacesAhead, SerialAssumption
<1> DEFINE a == Pos(k) + m
           b == Pos(k + m)
<1>2. a \in Int /\ b \in 0 .. Depth - 1 /\ (a = b \/ a = b + Depth)
  BY <1>1
<1> HIDE DEF a, b
<1> DEFINE q == a \div Depth
<1>3. a = Depth * q + (a % Depth) /\ (a % Depth) \in 0 .. Depth - 1 /\ q \in Int
  BY <1>1, <1>2
<1> HIDE DEF q
<1>4. Depth * q \in Int /\ (q <= -1 => Depth * q <= 0 - Depth) /\ (q = 0 => Depth * q = 0)
      /\ (q = 1 => Depth * q = Depth) /\ (q >= 2 => Depth * q >= 2 * Depth)
  BY <1>1, <1>3
<1>5. a % Depth = b
  BY <1>1, <1>2, <1>3, <1>4
<1> QED
  BY <1>5 DEF a, b

\* Numbers that go on where a sequence of numbers ends.
LEMMA GoesOn ==
  ASSUME NEW s \in Seq(Nat), \A i \in 1 .. Len(s) : s[i] = i,
         NEW n \in Nat, NEW t, DOMAIN t = 1 .. n, t = [i \in 1 .. n |-> t[i]],
         \A i \in 1 .. n : t[i] = Len(s) + i
  PROVE  /\ s \o t \in Seq(Nat) /\ Len(s \o t) = Len(s) + n
         /\ \A i \in 1 .. Len(s \o t) : (s \o t)[i] = i
<1>1. Len(s) \in Nat
  OBVIOUS
<1>2. \A i \in 1 .. n : t[i] \in Nat
  BY <1>1
<1>3. t \in [1 .. n -> Nat]
  BY <1>2
<1>4. t \in Seq(Nat) /\ Len(t) = n
  BY <1>3
<1>5. /\ s \o t \in Seq(Nat) /\ Len(s \o t) = Len(s) + n
      /\ \A i \in 1 .. Len(s) + n : (s \o t)[i] = IF i <= Len(s) THEN s[i] ELSE t[i - Len(s)]
  BY <1>1, <1>4
<1>6. ASSUME NEW i \in 1 .. Len(s) + n PROVE (s \o t)[i] = i
  <2>1. CASE i <= Len(s)
    BY <1>1, <1>5, <2>1
  <2>2. CASE ~(i <= Len(s))
    <3>1. i - Len(s) \in 1 .. n /\ Len(s) + (i - Len(s)) = i
      BY <1>1, <2>2
    <3> QED
      BY <1>5, <2>2, <3>1
  <2> QED
    BY <2>1, <2>2
<1> QED
  BY <1>5, <1>6

-----------------------------------------------------------------------------
(* The invariants.                                                         *)

Workers == [at : {"none", "created", "loop", "setup", "read", "update", "ended"}, moves : Nat]

Readers == [at : {"idle", "setup", "wait", "copy", "update", "poll", "read"},
            todo : Nat, done : Nat, waits : BOOLEAN, moves : Nat]

PortTypes ==
  /\ threaded \in BOOLEAN /\ came \in Nat /\ fetched \in Nat
  /\ port \in {"opening", "open", "closing", "freed"}
  /\ fifo \in [buf : [0 .. Depth - 1 -> Nat], cnt : Int, wr : Int, rd : Int]
  /\ inSem \in Nat /\ worker \in Workers /\ reader \in Readers /\ taken \in Seq(Nat)

(* The owner has been given the first bytes, and the driver has given as many at least. *)
OrderInv ==
  /\ \A i \in 1 .. Len(taken) : taken[i] = i
  /\ Len(taken) <= fetched /\ fetched <= came
  /\ ~threaded => fetched = Len(taken)

(* Where a transfer is, it moves something and no more than was asked for. *)
TransferInv ==
  /\ worker.at \in {"read", "update"} => threaded /\ worker.moves > 0
  /\ worker.at # "none" => threaded
  /\ reader.at \in {"read", "poll"} => ~threaded
  /\ reader.at \in {"setup", "wait", "copy", "update"} => threaded
  /\ reader.at # "idle" => reader.done < reader.todo
  /\ reader.at \in {"copy", "update"} =>
       reader.moves > 0 /\ reader.moves <= reader.todo - reader.done

(* How many bytes have gone out of the FIFO, and into it. *)
Out == IF reader.at = "update" THEN Len(taken) - reader.moves ELSE Len(taken)
In == IF worker.at = "update" THEN fetched - worker.moves ELSE fetched

(* The FIFO holds the bytes from Out to In, each at its place; what is being copied is *)
(* copied to where there is room, and from where the bytes are. *)
RingInv ==
  threaded /\ port # "freed" =>
    /\ Out \in Nat /\ In \in Nat /\ fifo.cnt = In - Out /\ fifo.cnt >= 0 /\ fifo.cnt <= Depth
    /\ fifo.wr = Pos(In) /\ fifo.rd = Pos(Out)
    /\ worker.at \in {"read", "update"} => /\ fifo.wr + worker.moves <= Depth
                                           /\ fifo.cnt + worker.moves <= Depth
    /\ reader.at \in {"copy", "update"} => /\ fifo.rd + reader.moves <= Depth
                                           /\ reader.moves <= fifo.cnt
    /\ \A k \in Nat : Out <= k /\ k < fetched => fifo.buf[Pos(k)] = k + 1

PortInv == PortTypes /\ OrderInv /\ TransferInv /\ RingInv /\ SleepsWithoutData

\* Nothing has come at first.
LEMMA InitPort == PortInit => PortInv
<1> SUFFICES ASSUME PortInit PROVE PortInv
  OBVIOUS
<1>1. PortTypes
  <2>1. worker \in Workers
    BY DEF PortInit, NewThread, WorkerGoto, Workers
  <2>2. reader \in Readers
    BY DEF PortInit, NotReading, Readers
  <2>3. fifo \in [buf : [0 .. Depth - 1 -> Nat], cnt : Int, wr : Int, rd : Int]
    BY SerialAssumption DEF PortInit, EmptyFifo
  <2> QED
    BY <2>1, <2>2, <2>3 DEF PortInit, PortTypes
<1>2. OrderInv /\ TransferInv /\ SleepsWithoutData
  BY <1>1 DEF PortInit, OrderInv, TransferInv, SleepsWithoutData, NewThread, WorkerGoto, NotReading, EmptyFifo
<1>3. RingInv
  <2>1. Pos(0) = 0
    BY SerialAssumption DEF Pos
  <2>2. Out = 0 /\ In = 0 /\ fifo.cnt = 0 /\ fifo.wr = 0 /\ fifo.rd = 0 /\ fetched = 0
        /\ worker.at \notin {"read", "update"} /\ reader.at = "idle"
    BY DEF PortInit, Out, In, EmptyFifo, NewThread, WorkerGoto, NotReading
  <2> QED
    BY <2>1, <2>2, SerialAssumption DEF RingInv
<1> QED
  BY <1>1, <1>2, <1>3 DEF PortInv

\* What of the invariant depends on none but the FIFO and the two that use it.
LEMMA RingSame ==
  ASSUME PortInv, UNCHANGED <<threaded, fetched, fifo, taken>>, port' # "freed" => port # "freed",
         worker'.at \in {"read", "update"} \/ worker.at = "update" => worker' = worker,
         reader'.at \in {"copy", "update"} \/ reader.at = "update" => reader' = reader
  PROVE  RingInv'
<1>1. Out' = Out /\ In' = In
  BY DEF Out, In
<1> QED
  BY <1>1 DEF PortInv, RingInv

-----------------------------------------------------------------------------
(* The steps.                                                              *)

LEMMA WorkerKeeps == PortInv /\ WorkerStep => PortInv'
<1> SUFFICES ASSUME PortInv, WorkerStep PROVE PortInv'
  OBVIOUS
<1> USE DEF PortInv
<1>a. /\ Depth \in Nat \ {0} /\ fetched \in Nat /\ came \in Nat /\ fifo.cnt \in Int
      /\ fifo.wr \in Int /\ fifo.rd \in Int
      /\ worker.moves \in Nat /\ reader.moves \in Nat /\ Len(taken) \in Nat
      /\ worker.at \in {"none", "created", "loop", "setup", "read", "update", "ended"}
  BY SerialAssumption DEF PortTypes, Workers, Readers
<1>b. \A at \in {"none", "created", "loop", "setup", "ended"} :
        WorkerGoto(at) \in Workers /\ WorkerGoto(at).at = at
  BY DEF WorkerGoto, Workers
<1>1. ASSUME UNCHANGED <<threaded, port, came, reader, taken, fetched, fifo, inSem>>,
             threaded, worker'.at \notin {"read", "update"}, worker.at # "update", worker' \in Workers
      PROVE  PortInv'
  <2>1. RingInv'
    BY <1>1, RingSame
  <2> QED
    BY <1>1, <2>1 DEF PortTypes, OrderInv, TransferInv, SleepsWithoutData
<1>2. CASE WorkerBegins \/ WorkerEnds \/ WorkerPolls
  <2>1. /\ UNCHANGED <<threaded, port, came, reader, taken, fetched, fifo, inSem>>
        /\ worker.at \in {"created", "loop"}
    BY <1>2 DEF WorkerBegins, WorkerEnds, WorkerPolls, WorkerSame, settings, lineVars
  <2>2. worker'.at \in {"loop", "setup", "ended"} /\ worker' \in Workers
    BY <1>2, <1>b DEF WorkerBegins, WorkerEnds, WorkerPolls
  <2> QED
    BY <1>1, <2>1, <2>2 DEF TransferInv
<1>3. CASE WorkerSetsUp
  <2>1. /\ UNCHANGED <<threaded, port, came, reader, taken, fetched, fifo, inSem>>
        /\ worker.at = "setup" /\ port # "freed" /\ threaded
    BY <1>3 DEF WorkerSetsUp, WorkerSame, settings, lineVars, TransferInv
  <2>2. CASE Room = 0
    <3>1. worker' = WorkerGoto("loop")
      BY <1>3, <2>2 DEF WorkerSetsUp
    <3> QED
      BY <1>1, <1>b, <2>1, <3>1
  <2>3. CASE Room # 0
    <3>1. worker' = [at |-> "read", moves |-> Room]
      BY <1>3, <2>3 DEF WorkerSetsUp
    <3>2. /\ fifo.cnt = In - Out /\ fifo.cnt >= 0 /\ fifo.cnt <= Depth /\ In \in Nat /\ Out \in Nat
          /\ fifo.wr = Pos(In) /\ fifo.rd = Pos(Out)
      BY <2>1 DEF RingInv
    <3>3. /\ fifo.wr \in 0 .. Depth - 1 /\ fifo.rd \in 0 .. Depth - 1
          /\ fifo.wr = fifo.rd + fifo.cnt \/ fifo.wr = fifo.rd + fifo.cnt - Depth
      <4>1. fifo.cnt \in 0 .. Depth /\ In = Out + fifo.cnt
        BY <1>a, <3>2
      <4> HIDE DEF Out, In
      <4> QED
        BY <3>2, <4>1, PlacesAhead
    <3>4. Room \in Nat /\ Room > 0 /\ fifo.wr + Room <= Depth /\ fifo.cnt + Room <= Depth
      <4>1. fifo.cnt # Depth /\ fifo.cnt \in 0 .. Depth
        BY <1>a, <2>3, <3>2 DEF Room
      <4>2. Room = IF fifo.wr >= fifo.rd THEN Depth - fifo.wr ELSE fifo.rd - fifo.wr
        BY <4>1 DEF Room
      <4> HIDE DEF Room
      <4>3. \A w, r \in 0 .. Depth - 1, c \in 0 .. Depth :
              c # Depth /\ (w = r + c \/ w = r + c - Depth)
                => /\ w >= r => c + (Depth - w) <= Depth
                   /\ w < r => c + (r - w) <= Depth /\ w + (r - w) <= Depth
        BY <1>a
      <4>4. /\ fifo.wr >= fifo.rd => fifo.cnt + (Depth - fifo.wr) <= Depth
            /\ fifo.wr < fifo.rd => /\ fifo.cnt + (fifo.rd - fifo.wr) <= Depth
                                    /\ fifo.wr + (fifo.rd - fifo.wr) <= Depth
        BY <3>3, <4>1, <4>3
      <4>5. CASE fifo.wr >= fifo.rd
        <5>1. Room = Depth - fifo.wr /\ fifo.wr \in 0 .. Depth - 1
          BY <3>3, <4>2, <4>5
        <5> QED
          BY SMTT(30), <1>a, <4>4, <4>5, <5>1
      <4>6. CASE fifo.wr < fifo.rd
        <5>1. Room = fifo.rd - fifo.wr
          BY <1>a, <4>2, <4>6
        <5> QED
          BY <1>a, <4>4, <4>6, <5>1
      <4> QED
        BY <1>a, <4>5, <4>6
    <3> HIDE DEF Room
    <3>5. worker' \in Workers /\ worker'.at = "read" /\ worker'.moves = Room
      BY <3>1, <3>4 DEF Workers
    <3>6. Out' = Out /\ In' = In
      BY <2>1, <3>5 DEF Out, In
    <3>7. RingInv'
      BY <2>1, <3>4, <3>5, <3>6 DEF RingInv
    <3> QED
      BY <2>1, <3>4, <3>5, <3>7 DEF PortTypes, OrderInv, TransferInv, SleepsWithoutData
  <2> QED
    BY <2>2, <2>3
<1>4. CASE WorkerReads
  <2>1. /\ UNCHANGED <<threaded, port, came, reader, taken, inSem>>
        /\ worker.at = "read" /\ port # "freed" /\ threaded /\ worker.moves > 0
    BY <1>4 DEF WorkerReads, WorkerSame, settings, lineVars, TransferInv
  <2>2. CASE UNCHANGED <<fetched, fifo>> /\ worker' = WorkerGoto("loop")
    BY <1>1, <1>b, <2>1, <2>2
  <2>3. ASSUME NEW n \in ReadGives(worker.moves), fetched' = fetched + n,
               fifo' = [fifo EXCEPT !.buf =
                 [i \in DOMAIN @ |-> IF i \in fifo.wr .. fifo.wr + n - 1
                                     THEN fetched + 1 + i - fifo.wr ELSE @[i]]],
               worker' = [at |-> "update", moves |-> n]
        PROVE  PortInv'
    <3>1. n \in Nat /\ n > 0 /\ n <= worker.moves /\ n <= came - fetched
      BY <1>a, <2>3 DEF ReadGives, Least
    <3>2. worker' \in Workers /\ worker'.at = "update" /\ worker'.moves = n
      BY <2>3, <3>1 DEF Workers
    <3>3. /\ fifo \in [buf : [0 .. Depth - 1 -> Nat], cnt : Int, wr : Int, rd : Int]
          /\ fifo.cnt = In - Out /\ fifo.cnt >= 0 /\ fifo.cnt <= Depth /\ In \in Nat /\ Out \in Nat
          /\ fifo.wr = Pos(In) /\ fifo.rd = Pos(Out)
          /\ fifo.wr + n <= Depth /\ fifo.cnt + n <= Depth
          /\ reader.at \in {"copy", "update"} => /\ fifo.rd + reader.moves <= Depth
                                                 /\ reader.moves <= fifo.cnt
      <4>1. fifo \in [buf : [0 .. Depth - 1 -> Nat], cnt : Int, wr : Int, rd : Int]
        BY DEF PortTypes
      <4>2. /\ fifo.cnt = In - Out /\ fifo.cnt >= 0 /\ fifo.cnt <= Depth /\ In \in Nat /\ Out \in Nat
            /\ fifo.wr = Pos(In) /\ fifo.rd = Pos(Out)
            /\ fifo.wr + worker.moves <= Depth /\ fifo.cnt + worker.moves <= Depth
            /\ reader.at \in {"copy", "update"} => /\ fifo.rd + reader.moves <= Depth
                                                   /\ reader.moves <= fifo.cnt
        BY <2>1 DEF RingInv
      <4>3. fifo.wr + n <= Depth /\ fifo.cnt + n <= Depth
        BY <1>a, <3>1, <4>2
      <4> QED
        BY <4>1, <4>2, <4>3
    <3>4. \A k \in Nat : Out <= k /\ k < fetched => fifo.buf[Pos(k)] = k + 1
      BY <2>1 DEF RingInv
    <3>5. In = fetched /\ In' = In /\ Out' = Out
      BY <1>a, <2>1, <2>3, <3>1, <3>2 DEF In, Out
    <3> DEFINE buf == [i \in 0 .. Depth - 1 |-> IF i \in fifo.wr .. fifo.wr + n - 1
                                     THEN fetched + 1 + i - fifo.wr ELSE fifo.buf[i]]
    <3>6. /\ fifo'.buf = buf /\ fifo'.cnt = fifo.cnt /\ fifo'.wr = fifo.wr /\ fifo'.rd = fifo.rd
          /\ fifo' = [buf |-> buf, cnt |-> fifo.cnt, wr |-> fifo.wr, rd |-> fifo.rd]
      BY <2>3, <3>3
    <3>7. Pos(In) \in 0 .. Depth - 1
      BY <1>a, <3>3, PlacesAhead
    <3>8. buf \in [0 .. Depth - 1 -> Nat]
      <4>1. \A i \in 0 .. Depth - 1 : fifo.buf[i] \in Nat
        BY <3>3
      <4>2. ASSUME NEW i \in 0 .. Depth - 1 PROVE buf[i] \in Nat
        <5>1. fetched + 1 + i - fifo.wr \in Int
          BY <1>a
        <5>2. i \in fifo.wr .. fifo.wr + n - 1 => fetched + 1 + i - fifo.wr \in Nat
          BY <1>a, <3>1
        <5> QED
          BY <4>1, <5>2
      <4> QED
        BY <4>2
    <3>9. \A i \in 0 .. Depth - 1 : buf[i] = IF i \in fifo.wr .. fifo.wr + n - 1
                                     THEN fetched + 1 + i - fifo.wr ELSE fifo.buf[i]
      OBVIOUS
    <3> HIDE DEF buf
    <3>10. ASSUME NEW k \in Nat, Out <= k, k < fetched + n PROVE buf[Pos(k)] = k + 1
      <4>1. CASE k >= fetched
        <5> DEFINE m == k - In
        <5>1. m \in 0 .. Depth /\ m < n /\ k = In + m
          BY <1>a, <3>1, <3>3, <3>5, <3>7, <3>10, <4>1
        <5>2. Pos(k) = fifo.wr + m /\ Pos(k) \in 0 .. Depth - 1
          <6>1. /\ Pos(In + m) = Pos(In) + m \/ Pos(In + m) = Pos(In) + m - Depth
                /\ Pos(In + m) \in 0 .. Depth - 1
            <7> HIDE DEF m
            <7> QED
              BY <3>3, <5>1, PlacesAhead
          <6>2. Pos(k) = Pos(In + m)
            BY <5>1
          <6> QED
            BY SMTT(30), <1>a, <3>1, <3>3, <3>7, <5>1, <6>1, <6>2
        <5> QED
          BY SMTT(30), <1>a, <3>1, <3>5, <3>9, <5>1, <5>2
      <4>2. CASE k < fetched
        <5> DEFINE m == In - k
        <5>1. m \in 0 .. Depth /\ m > 0 /\ m <= fifo.cnt /\ In = k + m
          BY <1>a, <3>3, <3>5, <3>10, <4>2
        <5>2. /\ Pos(k + m) = Pos(k) + m \/ Pos(k + m) = Pos(k) + m - Depth
              /\ Pos(k) \in 0 .. Depth - 1
          <6> HIDE DEF m
          <6> QED
            BY <5>1, PlacesAhead
        <5>3. Pos(k + m) = fifo.wr
          BY <3>3, <5>1
        <5>4. Pos(k) \notin fifo.wr .. fifo.wr + n - 1
          <6>1. \A a, p, c, w \in Int : /\ c + n <= Depth /\ 0 < a /\ a <= c
                                        /\ w = p + a \/ w = p + a - Depth
                                        => ~(w <= p /\ p <= w + n - 1)
            BY <1>a, <3>1
          <6>2. m \in Int /\ Pos(k) \in Int /\ fifo.cnt + n <= Depth
            BY <1>a, <3>3, <5>1, <5>2
          <6>3. fifo.wr = Pos(k) + m \/ fifo.wr = Pos(k) + m - Depth
            BY <5>2, <5>3
          <6> HIDE DEF m
          <6>4. ~(fifo.wr <= Pos(k) /\ Pos(k) <= fifo.wr + n - 1)
            BY <1>a, <5>1, <6>1, <6>2, <6>3
          <6> QED
            BY <6>4
        <5>5. fifo.buf[Pos(k)] = k + 1
          BY <3>4, <3>10, <4>2
        <5> QED
          BY <3>9, <5>2, <5>4, <5>5
      <4> QED
        BY <1>a, <3>1, <3>10, <4>1, <4>2
    <3>11. RingInv'
      <4>1. \A k \in Nat : Out' <= k /\ k < fetched' => fifo'.buf[Pos(k)] = k + 1
        BY <2>3, <3>5, <3>6, <3>10
      <4> HIDE DEF In, Out
      <4> QED
        <5>1. /\ fifo'.cnt = In' - Out' /\ fifo'.cnt >= 0 /\ fifo'.cnt <= Depth
              /\ In' \in Nat /\ Out' \in Nat /\ fifo'.wr = Pos(In') /\ fifo'.rd = Pos(Out')
          BY <3>3, <3>5, <3>6
        <5>2. fifo'.wr + worker'.moves <= Depth /\ fifo'.cnt + worker'.moves <= Depth
          BY <3>2, <3>3, <3>6
        <5>3. reader'.at \in {"copy", "update"} => /\ fifo'.rd + reader'.moves <= Depth
                                                  /\ reader'.moves <= fifo'.cnt
          BY <2>1, <3>3, <3>6
        <5> QED
          BY <4>1, <5>1, <5>2, <5>3 DEF RingInv
    <3>12. PortTypes'
      <4>1. fifo' \in [buf : [0 .. Depth - 1 -> Nat], cnt : Int, wr : Int, rd : Int]
        BY <1>a, <3>6, <3>8
      <4>2. fetched' \in Nat
        BY <1>a, <2>3, <3>1
      <4> QED
        BY <2>1, <3>2, <4>1, <4>2 DEF PortTypes
    <3> QED
      BY <1>a, <2>1, <2>3, <3>1, <3>2, <3>6, <3>11, <3>12
         DEF OrderInv, TransferInv, SleepsWithoutData
  <2> QED
    BY <1>4, <2>2, <2>3 DEF WorkerReads
<1>5. CASE WorkerUpdates
  <2> DEFINE n == worker.moves
  <2>1. /\ UNCHANGED <<threaded, port, came, reader, taken, fetched>>
        /\ worker.at = "update" /\ port # "freed" /\ threaded /\ n > 0
        /\ fifo' = [fifo EXCEPT !.cnt = @ + n, !.wr = (@ + n) % Depth] /\ inSem' = inSem + 1
        /\ worker' = WorkerGoto("setup")
    BY <1>5 DEF WorkerUpdates, WorkerSame, settings, lineVars, TransferInv, Inserted, Posted
  <2>2. /\ fifo \in [buf : [0 .. Depth - 1 -> Nat], cnt : Int, wr : Int, rd : Int]
        /\ fifo.cnt = In - Out /\ fifo.cnt >= 0 /\ fifo.cnt <= Depth /\ In \in Nat /\ Out \in Nat
        /\ fifo.wr = Pos(In) /\ fifo.rd = Pos(Out)
        /\ fifo.wr + n <= Depth /\ fifo.cnt + n <= Depth
    BY <2>1 DEF RingInv, PortTypes
  <2>3. worker' \in Workers /\ worker'.at = "setup"
    BY <1>b, <2>1
  <2>4. In' = In + n /\ Out' = Out
    BY <1>a, <2>1, <2>3 DEF In, Out
  <2>5. n \in 0 .. Depth
    BY SMTT(30), <1>a, <2>2
  <2>6. fifo'.cnt = fifo.cnt + n /\ fifo'.wr = (fifo.wr + n) % Depth /\ fifo'.rd = fifo.rd
        /\ fifo'.buf = fifo.buf
        /\ fifo' = [buf |-> fifo.buf, cnt |-> fifo.cnt + n, wr |-> (fifo.wr + n) % Depth, rd |-> fifo.rd]
    BY <2>1, <2>2
  <2> HIDE DEF n, In, Out
  <2>7. fifo'.wr = Pos(In + n) /\ Pos(In + n) \in 0 .. Depth - 1
    BY <2>2, <2>5, <2>6, GoesRound, PlacesAhead
  <2>8. RingInv'
    <3>1. /\ fifo'.cnt = In' - Out' /\ fifo'.cnt >= 0 /\ fifo'.cnt <= Depth
          /\ In' \in Nat /\ Out' \in Nat /\ fifo'.wr = Pos(In') /\ fifo'.rd = Pos(Out')
      BY <1>a, <2>2, <2>4, <2>5, <2>6, <2>7
    <3>2. reader'.at \in {"copy", "update"} => /\ fifo'.rd + reader'.moves <= Depth
                                              /\ reader'.moves <= fifo'.cnt
      <4>1. reader.at \in {"copy", "update"} => /\ fifo.rd + reader.moves <= Depth
                                              /\ reader.moves <= fifo.cnt
        BY <2>1 DEF RingInv
      <4> QED
        BY <1>a, <2>1, <2>5, <2>6, <4>1
    <3>3. \A k \in Nat : Out' <= k /\ k < fetched' => fifo'.buf[Pos(k)] = k + 1
      <4>1. \A k \in Nat : Out <= k /\ k < fetched => fifo.buf[Pos(k)] = k + 1
        BY <2>1 DEF RingInv
      <4> QED
        BY <2>1, <2>4, <2>6, <4>1
    <3>4. worker'.at \notin {"read", "update"}
      BY <2>3
    <3> QED
      BY <3>1, <3>2, <3>3, <3>4 DEF RingInv
  <2>9. PortTypes'
    <3>1. fifo' \in [buf : [0 .. Depth - 1 -> Nat], cnt : Int, wr : Int, rd : Int]
      BY <2>2, <2>5, <2>6, <2>7
    <3> QED
      BY <2>1, <2>3, <3>1 DEF PortTypes
  <2>10. SleepsWithoutData'
    BY <2>1 DEF SleepsWithoutData, PortTypes
  <2> QED
    BY <2>1, <2>3, <2>8, <2>9, <2>10 DEF OrderInv, TransferInv
<1> QED
  BY <1>2, <1>3, <1>4, <1>5 DEF WorkerStep

LEMMA ReaderKeeps == PortInv /\ ReaderStep => PortInv' /\ (taken' = taken \/ Len(taken') > Len(taken))
<1> SUFFICES ASSUME PortInv, ReaderStep
             PROVE  PortInv' /\ (taken' = taken \/ Len(taken') > Len(taken))
  OBVIOUS
<1> USE DEF PortInv
<1>a. /\ Depth \in Nat \ {0} /\ fetched \in Nat /\ came \in Nat /\ fifo.cnt \in Int
      /\ fifo.wr \in Int /\ fifo.rd \in Int /\ inSem \in Nat /\ taken \in Seq(Nat)
      /\ worker.moves \in Nat /\ reader.moves \in Nat /\ Len(taken) \in Nat
      /\ reader.todo \in Nat /\ reader.done \in Nat /\ reader.waits \in BOOLEAN /\ reader \in Readers
      /\ reader.at \in {"idle", "setup", "wait", "copy", "update", "poll", "read"}
  BY SerialAssumption DEF PortTypes, Workers, Readers
<1>b. NotReading \in Readers /\ NotReading.at = "idle"
  BY DEF NotReading, Readers
\* A step that moves nothing.
<1>1. ASSUME UNCHANGED <<threaded, port, came, worker, fetched, fifo, taken>>, inSem' \in Nat,
             reader.at # "update", reader' \in Readers, reader'.at \notin {"copy", "update"},
             reader'.at \in {"read", "poll"} => ~threaded,
             reader'.at \in {"setup", "wait"} => threaded,
             reader'.at # "idle" => reader'.done < reader'.todo,
             reader'.at = "wait" => fifo.cnt = 0
      PROVE  PortInv' /\ taken' = taken
  <2>1. RingInv'
    BY <1>1, RingSame
  <2> QED
    BY <1>1, <2>1 DEF PortTypes, OrderInv, TransferInv, SleepsWithoutData
<1>2. CASE Ask
  <2>1. PICK n \in Asked, w \in BOOLEAN :
          reader' = [at |-> IF threaded THEN "setup" ELSE IF w THEN "poll" ELSE "read",
                     todo |-> n, done |-> 0, waits |-> w, moves |-> 0]
    BY <1>2 DEF Ask
  <2>2. n \in Nat /\ n > 0
    BY SerialAssumption
  <2>3. reader' \in Readers
    BY <2>1, <2>2 DEF Readers
  <2>4. /\ reader'.done < reader'.todo /\ reader'.at \in {"setup", "poll", "read"}
        /\ reader'.at = "setup" <=> threaded
    BY <2>1, <2>2
  <2>5. /\ UNCHANGED <<threaded, port, came, worker, fetched, fifo, taken, inSem>> /\ reader.at = "idle"
    BY <1>2 DEF Ask, ReaderSame, settings, lineVars
  <2> QED
    BY <1>1, <1>a, <2>3, <2>4, <2>5
\* The end of a call of the FIFO.
<1>3. ASSUME CallEnds, threaded, reader.done < reader.todo
      PROVE  /\ reader' \in Readers /\ reader'.at \in {"idle", "setup"}
             /\ reader'.at # "idle" => reader'.done < reader'.todo
  <2>1. CASE reader.moves = 0
    BY <1>3, <1>b, <2>1 DEF CallEnds
  <2>2. CASE reader.moves # 0
    <3>1. reader' = [reader EXCEPT !.at = "setup", !.moves = 0]
      BY <1>3, <2>2 DEF CallEnds
    <3> QED
      BY <1>3, <1>a, <3>1 DEF Readers
  <2> QED
    BY <2>1, <2>2
<1>4. CASE ReaderSetsUp
  <2>1. /\ UNCHANGED <<threaded, port, came, worker, fetched, fifo, taken, inSem>>
        /\ reader.at = "setup" /\ port # "freed" /\ threaded /\ reader.done < reader.todo
    BY <1>4 DEF ReaderSetsUp, ReaderSame, settings, lineVars, TransferInv
  <2>2. /\ fifo.cnt = In - Out /\ fifo.cnt >= 0 /\ fifo.cnt <= Depth /\ In \in Nat /\ Out \in Nat
        /\ fifo.wr = Pos(In) /\ fifo.rd = Pos(Out)
    BY <2>1 DEF RingInv
  <2>3. /\ fifo.wr \in 0 .. Depth - 1 /\ fifo.rd \in 0 .. Depth - 1 /\ fifo.cnt \in 0 .. Depth
        /\ fifo.wr = fifo.rd + fifo.cnt \/ fifo.wr = fifo.rd + fifo.cnt - Depth
    <3>1. fifo.cnt \in 0 .. Depth /\ In = Out + fifo.cnt
      BY <1>a, <2>2
    <3> HIDE DEF Out, In
    <3> QED
      BY <2>2, <3>1, PlacesAhead
  <2>4. CASE fifo.cnt = 0
    <3>1. Stock = 0
      BY <2>4 DEF Stock
    <3>2. CASE reader.waits
      <4>1. reader' = [reader EXCEPT !.at = "wait"]
        BY <1>4, <3>1, <3>2 DEF ReaderSetsUp, ReaderGoto
      <4> QED
        <5>1. reader' \in Readers /\ reader'.at = "wait" /\ reader'.done < reader'.todo
          BY <1>a, <2>1, <4>1 DEF Readers
        <5> QED
          BY <1>1, <1>a, <2>1, <2>4, <5>1
    <3>3. CASE ~reader.waits
      <4>1. CallEnds
        BY <1>4, <3>1, <3>3 DEF ReaderSetsUp
      <4> QED
        BY <1>1, <1>3, <1>a, <2>1, <4>1
    <3> QED
      BY <3>2, <3>3
  <2>5. CASE fifo.cnt # 0
    <3>1. Stock = IF fifo.rd < fifo.wr THEN fifo.wr - fifo.rd ELSE Depth - fifo.rd
      BY <2>5 DEF Stock
    <3>2. \A w, r \in 0 .. Depth - 1, c \in 0 .. Depth :
              c # 0 /\ (w = r + c \/ w = r + c - Depth)
                => /\ r < w => w - r > 0 /\ w - r <= c /\ r + (w - r) <= Depth
                   /\ ~(r < w) => Depth - r > 0 /\ Depth - r <= c
      BY <1>a
    <3>3. /\ fifo.rd < fifo.wr => /\ fifo.wr - fifo.rd > 0 /\ fifo.wr - fifo.rd <= fifo.cnt
                                  /\ fifo.rd + (fifo.wr - fifo.rd) <= Depth
          /\ ~(fifo.rd < fifo.wr) => Depth - fifo.rd > 0 /\ Depth - fifo.rd <= fifo.cnt
      BY <2>3, <2>5, <3>2
    <3>4. Stock \in Nat /\ Stock > 0 /\ Stock <= fifo.cnt /\ fifo.rd + Stock <= Depth
      <4>1. CASE fifo.rd < fifo.wr
        BY <1>a, <3>1, <3>3, <4>1
      <4>2. CASE ~(fifo.rd < fifo.wr)
        BY <1>a, <3>1, <3>3, <4>2
      <4> QED
        BY <4>1, <4>2
    <3> HIDE DEF Stock
    <3> DEFINE m == Least(Stock, reader.todo - reader.done)
    <3>5. m \in Nat /\ m > 0 /\ m <= fifo.cnt /\ fifo.rd + m <= Depth /\ m <= reader.todo - reader.done
      <4>1. reader.todo - reader.done \in Nat /\ reader.todo - reader.done > 0
        BY <1>a, <2>1
      <4>2. \A a, b \in Nat : /\ Least(a, b) \in Nat /\ Least(a, b) <= a /\ Least(a, b) <= b
                              /\ a > 0 /\ b > 0 => Least(a, b) > 0
        BY DEF Least
      <4>3. m \in Nat /\ m > 0 /\ m <= Stock /\ m <= reader.todo - reader.done
        BY <3>4, <4>1, <4>2
      <4> HIDE DEF m
      <4> QED
        BY <1>a, <3>4, <4>3
    <3>6. reader' = [reader EXCEPT !.at = "copy", !.moves = m]
      BY <1>4, <3>4 DEF ReaderSetsUp
    <3> HIDE DEF m
    <3>7. /\ reader' \in Readers /\ reader'.at = "copy" /\ reader'.moves = m
          /\ reader'.todo = reader.todo /\ reader'.done = reader.done
      BY <1>a, <3>5, <3>6 DEF Readers
    <3>8. Out' = Out /\ In' = In
      BY <2>1, <3>7 DEF Out, In
    <3>9. RingInv'
      BY <2>1, <3>5, <3>7, <3>8 DEF RingInv
    <3> QED
      BY <2>1, <3>5, <3>7, <3>9 DEF PortTypes, OrderInv, TransferInv, SleepsWithoutData
  <2> QED
    BY <2>4, <2>5
<1>5. CASE ReaderIsWoken
  <2>1. /\ UNCHANGED <<threaded, port, came, worker, fetched, fifo, taken>> /\ inSem' \in Nat
        /\ reader.at = "wait" /\ threaded /\ reader.done < reader.todo
        /\ reader' = [reader EXCEPT !.at = "setup"]
    BY <1>5, <1>a DEF ReaderIsWoken, ReaderSame, settings, lineVars, TransferInv, ReaderGoto
  <2>2. reader' \in Readers /\ reader'.at = "setup" /\ reader'.done < reader'.todo
    BY <1>a, <2>1 DEF Readers
  <2> QED
    BY <1>1, <2>1, <2>2
<1>6. CASE ReaderIsLate
  <2>1. /\ UNCHANGED <<threaded, port, came, worker, fetched, fifo, taken, inSem>>
        /\ reader.at = "wait" /\ threaded /\ reader.done < reader.todo /\ CallEnds
    BY <1>6 DEF ReaderIsLate, ReaderSame, settings, lineVars, TransferInv
  <2> QED
    BY <1>1, <1>3, <1>a, <2>1
<1>7. CASE ReaderCopies
  <2> DEFINE m == reader.moves
             new == [i \in 1 .. m |-> fifo.buf[fifo.rd + i - 1]]
  <2>1. /\ UNCHANGED <<threaded, port, came, worker, fetched, fifo, inSem>>
        /\ reader.at = "copy" /\ port # "freed" /\ threaded /\ reader.done < reader.todo
        /\ m > 0 /\ m <= reader.todo - reader.done
        /\ taken' = taken \o new /\ reader' = [reader EXCEPT !.at = "update"]
    BY <1>7 DEF ReaderCopies, ReaderSame, settings, lineVars, TransferInv, ReaderGoto
  <2>2. /\ fifo.cnt = In - Out /\ fifo.cnt >= 0 /\ fifo.cnt <= Depth /\ In \in Nat /\ Out \in Nat
        /\ fifo.wr = Pos(In) /\ fifo.rd = Pos(Out) /\ fifo.rd + m <= Depth /\ m <= fifo.cnt
    BY <2>1 DEF RingInv
  <2>3. /\ Out = Len(taken) /\ In <= fetched
    BY <1>a, <2>1 DEF Out, In
  <2>4. \A k \in Nat : Out <= k /\ k < fetched => fifo.buf[Pos(k)] = k + 1
    BY <2>1 DEF RingInv
  <2>5. ASSUME NEW i \in 1 .. m PROVE fifo.buf[fifo.rd + i - 1] = Out + i
    <3> DEFINE d == i - 1
    <3>1. d \in 0 .. Depth /\ Out + d \in Nat /\ d < m
      BY <1>a, <2>2
    <3>2. /\ Pos(Out + d) = Pos(Out) + d \/ Pos(Out + d) = Pos(Out) + d - Depth
          /\ Pos(Out + d) \in 0 .. Depth - 1
      <4> HIDE DEF d, Out
      <4> QED
        BY <2>2, <3>1, PlacesAhead
    <3>3. Pos(Out + d) = fifo.rd + d
      <4>1. \A p, r \in Int : r + m <= Depth /\ (p = r + d \/ p = r + d - Depth) /\ 0 <= p => p = r + d
        BY <1>a, <3>1
      <4>2. Pos(Out + d) \in Int /\ 0 <= Pos(Out + d)
        BY <1>a, <3>2
      <4> HIDE DEF d, Out
      <4> QED
        BY <1>a, <2>2, <3>2, <4>1, <4>2
    <3>4. Out + d < fetched /\ Out <= Out + d
      BY <1>a, <2>2, <2>3, <3>1
    <3>5. fifo.buf[Pos(Out + d)] = (Out + d) + 1
      <4> HIDE DEF d, Out
      <4> QED
        BY <2>4, <3>1, <3>4
    <3>6. fifo.rd + i - 1 = fifo.rd + d /\ (Out + d) + 1 = Out + i
      BY <1>a, <2>2
    <3> QED
      BY <3>3, <3>5, <3>6
  <2>6. DOMAIN new = 1 .. m /\ new = [i \in 1 .. m |-> new[i]] /\ \A i \in 1 .. m : new[i] = Len(taken) + i
    BY <2>3, <2>5
  <2> HIDE DEF new
  <2>7. /\ taken' \in Seq(Nat) /\ Len(taken') = Len(taken) + m
        /\ \A i \in 1 .. Len(taken') : taken'[i] = i
    <3>1. \A i \in 1 .. Len(taken) : taken[i] = i
      BY DEF OrderInv
    <3> QED
      BY <1>a, <2>1, <2>6, <3>1, GoesOn
  <2>9. /\ reader' \in Readers /\ reader'.at = "update" /\ reader'.moves = m
        /\ reader'.todo = reader.todo /\ reader'.done = reader.done
    BY <1>a, <2>1 DEF Readers
  <2>10. Out' = Out /\ In' = In
    BY SMTT(30), <1>a, <2>1, <2>7, <2>9 DEF Out, In
  <2>11. RingInv'
    BY <2>1, <2>9, <2>10 DEF RingInv
  <2>12. Len(taken') <= fetched
    BY <1>a, <2>2, <2>3, <2>7
  <2> QED
    <3>1. PortTypes' /\ SleepsWithoutData'
      BY <2>1, <2>7, <2>9 DEF PortTypes, SleepsWithoutData
    <3>2. OrderInv'
      BY <1>a, <2>1, <2>7, <2>12 DEF OrderInv
    <3>3. TransferInv'
      BY <2>1, <2>9 DEF TransferInv
    <3>4. Len(taken') > Len(taken)
      BY <1>a, <2>1, <2>7
    <3> QED
      BY <2>11, <3>1, <3>2, <3>3, <3>4
<1>8. CASE ReaderUpdates
  <2> DEFINE m == reader.moves
  <2>1. /\ UNCHANGED <<threaded, port, came, worker, fetched, inSem, taken>>
        /\ reader.at = "update" /\ port # "freed" /\ threaded /\ reader.done < reader.todo
        /\ m > 0 /\ m <= reader.todo - reader.done
        /\ fifo' = [fifo EXCEPT !.cnt = @ - m, !.rd = (@ + m) % Depth]
    BY <1>8 DEF ReaderUpdates, ReaderSame, settings, lineVars, TransferInv, Removed
  <2>2. /\ fifo \in [buf : [0 .. Depth - 1 -> Nat], cnt : Int, wr : Int, rd : Int]
        /\ fifo.cnt = In - Out /\ fifo.cnt >= 0 /\ fifo.cnt <= Depth /\ In \in Nat /\ Out \in Nat
        /\ fifo.wr = Pos(In) /\ fifo.rd = Pos(Out) /\ fifo.rd + m <= Depth /\ m <= fifo.cnt
        /\ worker.at \in {"read", "update"} => /\ fifo.wr + worker.moves <= Depth
                                               /\ fifo.cnt + worker.moves <= Depth
    BY <2>1 DEF RingInv, PortTypes
  <2>3. \A k \in Nat : Out <= k /\ k < fetched => fifo.buf[Pos(k)] = k + 1
    BY <2>1 DEF RingInv
  <2>4. fifo'.cnt = fifo.cnt - m /\ fifo'.rd = (fifo.rd + m) % Depth /\ fifo'.wr = fifo.wr
        /\ fifo'.buf = fifo.buf
        /\ fifo' = [buf |-> fifo.buf, cnt |-> fifo.cnt - m, wr |-> fifo.wr, rd |-> (fifo.rd + m) % Depth]
    BY <2>1, <2>2
  <2>5. reader' \in Readers /\ reader'.at \in {"idle", "setup"} /\ (reader'.at # "idle" => reader'.done < reader'.todo)
    <3>1. CASE reader.done + m = reader.todo
      <4>1. reader' = NotReading
        BY <1>8, <3>1 DEF ReaderUpdates
      <4> QED
        BY <1>b, <4>1
    <3>2. CASE reader.done + m # reader.todo
      <4>1. reader' = [reader EXCEPT !.at = "setup", !.done = reader.done + m]
        BY <1>8, <3>2 DEF ReaderUpdates
      <4>2. reader.done + m \in Nat /\ reader.done + m < reader.todo
        BY SMTT(30), <1>a, <2>1, <3>2
      <4>3. reader.done + m \in Nat
        BY <4>2
      <4> HIDE DEF m
      <4> QED
        BY <1>a, <4>1, <4>2, <4>3 DEF Readers
    <3> QED
      BY <3>1, <3>2
  <2>6. Out' = Out + m /\ In' = In
    BY <1>a, <2>1, <2>5 DEF Out, In
  <2>7. m \in 0 .. Depth
    BY <1>a, <2>2
  <2> HIDE DEF m, In, Out
  <2>8. fifo'.rd = Pos(Out + m) /\ Pos(Out + m) \in 0 .. Depth - 1
    BY <2>2, <2>4, <2>7, GoesRound, PlacesAhead
  <2>9. RingInv'
    <3>1. /\ fifo'.cnt = In' - Out' /\ fifo'.cnt >= 0 /\ fifo'.cnt <= Depth
          /\ In' \in Nat /\ Out' \in Nat /\ fifo'.wr = Pos(In') /\ fifo'.rd = Pos(Out')
      BY <1>a, <2>2, <2>4, <2>6, <2>7, <2>8
    <3>2. worker'.at \in {"read", "update"} => /\ fifo'.wr + worker'.moves <= Depth
                                              /\ fifo'.cnt + worker'.moves <= Depth
      <4>1. worker.at \in {"read", "update"} => fifo.cnt - m + worker.moves <= Depth
        <5>1. \A d, c, w \in Int, k \in Nat : c + w <= d => c - k + w <= d
          OBVIOUS
        <5>2. m \in Nat /\ fifo.cnt \in Int /\ worker.moves \in Int /\ Depth \in Int
          BY <1>a, <2>7
        <5>3. worker.at \in {"read", "update"} => fifo.cnt + worker.moves <= Depth
          BY <2>2
        <5> QED
          BY <5>1, <5>2, <5>3
      <4> QED
        BY <2>1, <2>2, <2>4, <4>1
    <3>3. \A k \in Nat : Out' <= k /\ k < fetched' => fifo'.buf[Pos(k)] = k + 1
      BY <2>1, <2>2, <2>3, <2>4, <2>6, <2>7
    <3> QED
      BY <2>5, <3>1, <3>2, <3>3 DEF RingInv
  <2>10. PortTypes'
    <3>1. fifo' \in [buf : [0 .. Depth - 1 -> Nat], cnt : Int, wr : Int, rd : Int]
      BY <2>2, <2>4, <2>7, <2>8
    <3> QED
      BY <2>1, <2>5, <3>1 DEF PortTypes
  <2> QED
    BY <2>1, <2>5, <2>9, <2>10 DEF OrderInv, TransferInv, SleepsWithoutData
<1>9. CASE ReaderPolls
  <2>1. /\ UNCHANGED <<threaded, port, came, worker, fetched, fifo, taken, inSem>>
        /\ reader.at = "poll" /\ ~threaded /\ reader.done < reader.todo
        /\ reader' = NotReading \/ reader' = [reader EXCEPT !.at = "read"]
    BY <1>9 DEF ReaderPolls, ReaderSame, settings, lineVars, TransferInv, ReaderGoto
  <2>2. /\ reader' \in Readers /\ reader'.at \in {"idle", "read"}
        /\ reader'.at # "idle" => reader'.done < reader'.todo
    <3>1. CASE reader' = NotReading
      BY <1>b, <3>1
    <3>2. CASE reader' = [reader EXCEPT !.at = "read"]
      BY <1>a, <2>1, <3>2 DEF Readers
    <3> QED
      BY <2>1, <3>1, <3>2
  <2> QED
    BY <1>1, <1>a, <2>1, <2>2
<1>10. CASE ReaderReads
  <2>1. /\ UNCHANGED <<threaded, port, came, worker, fifo, inSem>>
        /\ reader.at = "read" /\ port # "freed" /\ ~threaded /\ reader.done < reader.todo
    BY <1>10 DEF ReaderReads, ReaderSame, settings, lineVars, TransferInv
  <2>2. CASE reader' = NotReading /\ UNCHANGED <<fetched, taken>>
    BY <1>1, <1>a, <1>b, <2>1, <2>2
  <2>3. ASSUME NEW n \in ReadGives(reader.todo - reader.done), fetched' = fetched + n,
               taken' = taken \o [i \in 1 .. n |-> fetched + i],
               reader' = IF reader.done + n = reader.todo THEN NotReading
                         ELSE [reader EXCEPT !.done = @ + n,
                                             !.at = IF reader.waits THEN "poll" ELSE "read"]
        PROVE  PortInv' /\ Len(taken') > Len(taken)
    <3>1. n \in Nat /\ n > 0 /\ n <= reader.todo - reader.done /\ n <= came - fetched
      BY SMTT(30), <1>a, <2>1, <2>3 DEF ReadGives, Least
    <3> DEFINE new == [i \in 1 .. n |-> fetched + i]
    <3>2. DOMAIN new = 1 .. n /\ new = [i \in 1 .. n |-> new[i]] /\ \A i \in 1 .. n : new[i] = Len(taken) + i
      BY <2>1 DEF OrderInv
    <3>3. taken' = taken \o new
      BY <2>3
    <3> HIDE DEF new
    <3>4. /\ taken' \in Seq(Nat) /\ Len(taken') = Len(taken) + n
          /\ \A i \in 1 .. Len(taken') : taken'[i] = i
      <4>1. \A i \in 1 .. Len(taken) : taken[i] = i
        BY DEF OrderInv
      <4> QED
        BY <1>a, <3>1, <3>2, <3>3, <4>1, GoesOn
    <3>5. Len(taken) = fetched
      BY <2>1 DEF OrderInv
    <3>6. /\ reader' \in Readers /\ reader'.at \in {"idle", "poll", "read"}
          /\ reader'.at # "idle" => reader'.done < reader'.todo
      <4>1. CASE reader.done + n = reader.todo
        BY <1>b, <2>3, <4>1
      <4>2. CASE reader.done + n # reader.todo
        <5>1. reader.done + n \in Nat /\ reader.done + n < reader.todo
          <6>1. \A d, t, k \in Nat : k <= t - d /\ d + k # t => d + k \in Nat /\ d + k < t
            OBVIOUS
          <6> QED
            BY <1>a, <3>1, <4>2, <6>1
        <5>2. reader' = [reader EXCEPT !.at = "poll", !.done = reader.done + n]
              \/ reader' = [reader EXCEPT !.at = "read", !.done = reader.done + n]
          BY <1>a, <2>3, <4>2 DEF Readers
        <5>3. CASE reader' = [reader EXCEPT !.at = "poll", !.done = reader.done + n]
          BY <1>a, <5>1, <5>3 DEF Readers
        <5>4. CASE reader' = [reader EXCEPT !.at = "read", !.done = reader.done + n]
          BY <1>a, <5>1, <5>4 DEF Readers
        <5> QED
          BY <5>2, <5>3, <5>4
      <4> QED
        BY <4>1, <4>2
    <3>7. RingInv'
      BY <2>1 DEF RingInv
    <3> QED
      <4>1. fetched' \in Nat /\ fetched' = Len(taken') /\ fetched' <= came /\ Len(taken') > Len(taken)
        <5>1. fetched \in Nat /\ came \in Nat /\ n \in Nat /\ n > 0 /\ n <= came - fetched
          BY <1>a, <3>1
        <5>2. fetched' = fetched + n /\ Len(taken) = fetched /\ Len(taken') = fetched + n
          BY <2>3, <3>4, <3>5
        <5> QED
          BY <5>1, <5>2
      <4>2. PortTypes' /\ SleepsWithoutData'
        BY <2>1, <3>4, <3>6, <4>1 DEF PortTypes, SleepsWithoutData
      <4>3. OrderInv'
        BY <1>a, <2>1, <3>4, <4>1 DEF OrderInv
      <4>4. TransferInv'
        BY <2>1, <3>6 DEF TransferInv
      <4> QED
        BY <3>7, <4>1, <4>2, <4>3, <4>4
  <2> QED
    BY <1>10, <2>2, <2>3 DEF ReaderReads
<1> QED
  BY <1>2, <1>4, <1>5, <1>6, <1>7, <1>8, <1>9, <1>10 DEF ReaderStep

LEMMA PortKeeps ==
  PortInv /\ (ByteComes \/ LineEnds \/ Configured \/ Close \/ Free)
    => PortInv' /\ taken' = taken /\ (came' = came \/ came' = came + 1)
<1> SUFFICES ASSUME PortInv, ByteComes \/ LineEnds \/ Configured \/ Close \/ Free
             PROVE  PortInv' /\ taken' = taken /\ (came' = came \/ came' = came + 1)
  OBVIOUS
<1> USE DEF PortInv
<1>1. CASE ByteComes \/ LineEnds
  <2>1. /\ UNCHANGED <<threaded, port, fetched, fifo, inSem, worker, reader, taken>>
        /\ came' = came \/ came' = came + 1
    BY <1>1 DEF ByteComes, LineEnds, settings
  <2>2. RingInv'
    BY <2>1, RingSame
  <2>3. came' \in Nat /\ fetched' <= came'
    BY <2>1 DEF PortTypes, OrderInv
  <2> QED
    BY <2>1, <2>2, <2>3 DEF PortTypes, OrderInv, TransferInv, SleepsWithoutData
<1>2. CASE Configured \/ Close \/ Free
  <2>1. /\ UNCHANGED <<threaded, came, fetched, fifo, inSem, worker, taken>>
        /\ reader' = reader \/ (port' = "freed" /\ reader' = NotReading)
        /\ port' \in {"open", "closing", "freed"} /\ port # "freed"
    BY <1>2 DEF Configured, Close, Free, OwnerSame, lineVars
  <2>2. NotReading \in Readers /\ NotReading.at = "idle"
    BY DEF NotReading, Readers
  <2>3. RingInv'
    <3>1. CASE reader' = reader
      BY <2>1, <3>1, RingSame
    <3>2. CASE port' = "freed"
      BY <3>2 DEF RingInv
    <3> QED
      BY <2>1, <3>1, <3>2
  <2> QED
    BY <2>1, <2>2, <2>3 DEF PortTypes, OrderInv, TransferInv, SleepsWithoutData
<1> QED
  BY <1>1, <1>2

LEMMA PortInvariant == PortSpec => []PortInv
<1>1. PortInv /\ [PortNext]_portVars => PortInv'
  <2>1. PortInv /\ UNCHANGED portVars => PortInv'
    BY DEF portVars, PortInv, PortTypes, OrderInv, TransferInv, RingInv, SleepsWithoutData, In, Out
  <2> QED
    BY <2>1, WorkerKeeps, ReaderKeeps, PortKeeps DEF PortNext
<1> QED
  BY <1>1, InitPort, PTL DEF PortSpec

\* Whoever reads a port with a thread does not sleep while the FIFO holds bytes and nobody
\* is going to post, whatever the size of the FIFO, and wherever its two sides are.
THEOREM NobodySleepsOnData == PortSpec => []SleepsWithoutData
  BY PortInvariant, PTL DEF PortInv

\* The bytes that came are taken in their order, none left out and none twice, through a
\* FIFO of any size, although they are copied without its lock.
THEOREM PortIsAPipe == PortSpec => ImplementsPipe
<1>1. PortInit => Line!Init
  BY DEF PortInit, Line!Init
<1>2. PortInv /\ PortInv' /\ [PortNext]_portVars => [Line!Next]_<<came, taken>>
  <2> SUFFICES ASSUME PortInv, PortInv', [PortNext]_portVars
               PROVE  [Line!Next]_<<came, taken>>
    OBVIOUS
  <2>1. ASSUME UNCHANGED came, Len(taken') > Len(taken) PROVE Line!Take
    <3> DEFINE n == Len(taken')
    <3>1. /\ taken' \in Seq(Nat) /\ taken \in Seq(Nat) /\ n <= came /\ came \in Nat
          /\ \A i \in 1 .. n : taken'[i] = i
      BY <2>1 DEF PortInv, PortTypes, OrderInv
    <3>2. taken' = [i \in 1 .. n |-> i]
      <4>1. taken' = [i \in 1 .. n |-> taken'[i]]
        BY <3>1
      <4> QED
        BY <3>1, <4>1
    <3>3. n \in Len(taken) + 1 .. came
      BY <2>1, <3>1
    <3> HIDE DEF n
    <3> QED
      BY <2>1, <3>2, <3>3 DEF Line!Take
  <2>2. CASE WorkerStep
    BY <2>2 DEF WorkerStep, WorkerBegins, WorkerEnds, WorkerPolls, WorkerSetsUp, WorkerReads,
       WorkerUpdates, WorkerSame, lineVars
  <2>3. CASE ReaderStep
    <3>1. UNCHANGED came
      BY <2>3 DEF ReaderStep, Ask, ReaderSetsUp, ReaderIsWoken, ReaderIsLate, ReaderCopies,
         ReaderUpdates, ReaderPolls, ReaderReads, ReaderSame, lineVars
    <3> QED
      BY <2>1, <2>3, <3>1, ReaderKeeps DEF Line!Next
  <2>4. CASE ByteComes \/ LineEnds \/ Configured \/ Close \/ Free
    BY <2>4, PortKeeps DEF Line!Next, Line!Come
  <2>5. CASE UNCHANGED portVars
    BY <2>5 DEF portVars
  <2> QED
    BY <2>2, <2>3, <2>4, <2>5 DEF PortNext
<1> QED
  BY <1>1, <1>2, PortInvariant, PTL DEF PortSpec, ImplementsPipe, Line!Spec

-----------------------------------------------------------------------------
(* The line.                                                               *)

USE FrameAssumption

LEMMA EndsOnTheLine ==
  ASSUME NEW m \in 0 .. Len(Ends)
  PROVE  EndOf(m) \in Nat /\ EndOf(m) <= LineLength
  BY DEF EndOf, LineLength, Overhead

LEMMA LineLengthIsNat == LineLength \in Nat
<1>1. Len(Ends) \in 0 .. Len(Ends)
  OBVIOUS
<1>2. EndOf(Len(Ends)) \in Nat
  BY <1>1, EndsOnTheLine
<1> QED
  BY <1>2 DEF LineLength

LEMMA EndsInOrder ==
  ASSUME NEW m \in 0 .. Len(Ends), NEW n \in 0 .. Len(Ends), m < n
  PROVE  EndOf(m) + Overhead <= EndOf(n)
  BY DEF EndOf, Overhead

\* At most one message begins at a position.
LEMMA BeginsOnce ==
  ASSUME NEW m \in Frames
  PROVE  MessageAt(EndOf(m - 1)) = m
<1>1. \A n \in Frames : EndOf(n - 1) = EndOf(m - 1) => n = m
  <2> SUFFICES ASSUME NEW n \in Frames, n # m PROVE EndOf(n - 1) # EndOf(m - 1)
    OBVIOUS
  <2>1. m - 1 \in 0 .. Len(Ends) /\ n - 1 \in 0 .. Len(Ends)
    BY DEF Frames
  <2>2. m - 1 < n - 1 \/ n - 1 < m - 1
    BY DEF Frames
  <2> QED
    BY <2>1, <2>2, EndsInOrder, EndsOnTheLine DEF Overhead
<1> QED
  BY <1>1 DEF MessageAt

LEMMA PayloadIsNat ==
  ASSUME NEW m \in Frames
  PROVE  PayloadOf(m) \in Nat
<1>1. m - 1 \in 0 .. Len(Ends) /\ m \in 0 .. Len(Ends) /\ m - 1 < m
  BY DEF Frames
<1>2. EndOf(m - 1) \in Nat /\ EndOf(m) \in Nat
  BY <1>1, EndsOnTheLine
<1>3. EndOf(m - 1) + Overhead <= EndOf(m)
  BY <1>1, EndsInOrder
<1> QED
  BY <1>2, <1>3 DEF PayloadOf, Overhead

-----------------------------------------------------------------------------
(* The least of some positions.                                            *)

LEMMA LeastOfNats ==
  ASSUME NEW S \in SUBSET Nat, S # {}
  PROVE  Min(S) \in S /\ \A y \in S : Min(S) <= y
<1>1. PICK x \in S : \A y \in S : ~ (<<y, x>> \in OpToRel(<, Nat))
  BY NatLessThanWellFounded, WFMin, Zenon
<1>2. ASSUME NEW y \in S PROVE x <= y
  <2>1. <<y, x>> \in Nat \X Nat
    OBVIOUS
  <2>2. ~ (y < x)
    BY <1>1, <2>1, Zenon DEF OpToRel
  <2> QED
    BY <2>2
<1>3. \E z \in S : \A y \in S : z <= y
  BY <1>2
<1> QED
  BY <1>3 DEF Min

\* The first sync byte of what was read is the beginning of a message.
LEMMA FirstSync ==
  ASSUME NEW n \in Nat, start \in Nat, Syncs(n) # {}
  PROVE  /\ Min(Syncs(n)) \in Syncs(n) /\ \A y \in Syncs(n) : Min(Syncs(n)) <= y
         /\ start <= Min(Syncs(n)) /\ Min(Syncs(n)) < start + n
         /\ Min(Syncs(n)) \in Nat
         /\ MessageAt(Min(Syncs(n))) \in Frames
<1>1. Syncs(n) \in SUBSET Nat
  <2>1. \A m \in Frames : m - 1 \in 0 .. Len(Ends)
    BY DEF Frames
  <2> QED
    BY <2>1, EndsOnTheLine DEF Syncs
<1>2. Min(Syncs(n)) \in Syncs(n) /\ \A y \in Syncs(n) : Min(Syncs(n)) <= y
  BY <1>1, LeastOfNats
<1>3. PICK m \in Frames : Min(Syncs(n)) = EndOf(m - 1)
  BY <1>2 DEF Syncs
<1> QED
  BY <1>1, <1>2, <1>3, BeginsOnce DEF Syncs

-----------------------------------------------------------------------------
(* The receiver never goes back: it has passed on no message that ends     *)
(* after the place it reads from, which lies within what has come.         *)

FrameTypes ==
  /\ arrived \in 0 .. LineLength
  /\ start \in Nat /\ nvalid \in Nat /\ nneed \in Nat \ {0}
  /\ rxAt \in {"header", "payload", "dump"}
  /\ passed \in Seq(Frames)
  /\ pauses \in Nat

PassedAreBehind ==
  /\ start + nvalid <= arrived
  /\ \A i \in DOMAIN passed : EndOf(passed[i]) <= start

\* As long as no message was cut, the receiver stands at the beginning of a
\* message all before which were passed on, and knows its length.
InPlace ==
  \E k \in 0 .. Len(Ends) :
    /\ start = EndOf(k)
    /\ \A m \in 1 .. k : \E i \in DOMAIN passed : passed[i] = m
    /\ \/ rxAt = "header" /\ nneed = Overhead /\ nvalid = 0
       \/ /\ rxAt = "payload" /\ k < Len(Ends) /\ nvalid >= 1
          /\ nneed = EndOf(k + 1) - start

FrameInv ==
  /\ FrameTypes /\ PassedAreBehind /\ PassedInOrder
  /\ pauses = 0 => InPlace

LEMMA InitFrameInv == FrameInit => FrameInv
<1> SUFFICES ASSUME FrameInit PROVE FrameInv
  OBVIOUS
<1>1. LineLength \in Nat
  BY LineLengthIsNat
<1>2. InPlace
  <2>1. 0 \in 0 .. Len(Ends) /\ EndOf(0) = 0
    BY DEF EndOf
  <2> QED
    BY <2>1 DEF InPlace, FrameInit
<1> QED
  BY <1>1, <1>2 DEF FrameInit, FrameInv, FrameTypes, PassedAreBehind, PassedInOrder, Overhead

LEMMA ArriveKeeps ==
  ASSUME FrameInv, Arrive
  PROVE  FrameInv'
<1>1. LineLength \in Nat
  BY LineLengthIsNat
<1> QED
  BY <1>1 DEF Arrive, FrameInv, FrameTypes, PassedAreBehind, PassedInOrder, InPlace

LEMMA FetchedHasCome ==
  ASSUME FrameInv
  PROVE  Fetched \in Nat /\ start + Fetched <= arrived
  BY DEF Fetched, FrameInv, FrameTypes, PassedAreBehind, InTime

LEMMA RxHeaderKeeps ==
  ASSUME FrameInv, RxHeader
  PROVE  FrameInv'
<1> DEFINE n == Fetched
           p == Min(Syncs(n))
<1>1. n \in Nat /\ n > 0 /\ start + n <= arrived
  BY FetchedHasCome DEF RxHeader, FrameInv, FrameTypes
<1>2. /\ arrived' = arrived /\ passed' = passed /\ pauses' = pauses
      /\ start' >= start /\ start' + nvalid' <= arrived
      /\ start' \in Nat /\ nvalid' \in Nat /\ nneed' \in Nat \ {0}
      /\ rxAt' \in {"header", "payload"}
  <2>1. CASE Syncs(n) = {}
    BY <1>1, <2>1 DEF RxHeader, SearchFrom, FrameInv, FrameTypes, Overhead
  <2>2. CASE Syncs(n) # {}
    <3>1. /\ start <= p /\ p < start + n /\ p \in Nat /\ MessageAt(p) \in Frames
      BY <1>1, <2>2, FirstSync DEF FrameInv, FrameTypes
    <3>2. nneed + PayloadOf(MessageAt(p)) \in Nat \ {0} /\ LineLength + 1 \in Nat \ {0}
      BY <3>1, PayloadIsNat, LineLengthIsNat DEF FrameInv, FrameTypes
    <3>3. Min({nneed + PayloadOf(MessageAt(p)), LineLength + 1}) \in Nat \ {0}
      BY <3>2, LeastOfNats
    <3> QED
      BY <1>1, <2>2, <3>1, <3>3 DEF RxHeader, FrameInv, FrameTypes
  <2> QED
    BY <2>1, <2>2
<1>3. FrameTypes' /\ PassedInOrder'
  BY <1>2 DEF FrameInv, FrameTypes, PassedInOrder
<1>4. PassedAreBehind'
  <2>1. \A i \in DOMAIN passed : passed[i] \in 0 .. Len(Ends)
    BY DEF FrameInv, FrameTypes, Frames
  <2>2. \A i \in DOMAIN passed : EndOf(passed[i]) \in Nat
    BY <2>1, EndsOnTheLine
  <2>3. \A i \in DOMAIN passed : EndOf(passed[i]) <= start'
    <3> SUFFICES ASSUME NEW i \in DOMAIN passed PROVE EndOf(passed[i]) <= start'
      OBVIOUS
    <3>1. EndOf(passed[i]) <= start /\ start \in Nat
      BY DEF FrameInv, FrameTypes, PassedAreBehind
    <3> QED
      BY <1>2, <2>2, <3>1
  <2> QED
    BY <1>2, <2>3 DEF PassedAreBehind
<1>5. ASSUME pauses = 0 PROVE InPlace'
  <2>1. PICK k \in 0 .. Len(Ends) :
          /\ start = EndOf(k) /\ nneed = Overhead /\ nvalid = 0
          /\ \A m \in 1 .. k : \E i \in DOMAIN passed : passed[i] = m
    BY <1>5 DEF FrameInv, InPlace, RxHeader
  <2>2. k < Len(Ends)
    <3>1. EndOf(Len(Ends)) = LineLength
      BY DEF LineLength
    <3> QED
      BY <1>1, <2>1, <3>1 DEF FrameInv, FrameTypes
  <2>3. InTime
    <3> SUFFICES ASSUME ~InTime PROVE FALSE
      OBVIOUS
    <3>1. PICK j \in 0 .. Len(Ends) : arrived = EndOf(j)
      BY DEF RxHeader, Late, BetweenMessages, Frames
    <3>2. EndOf(k) < EndOf(j) /\ EndOf(j) < EndOf(k) + Overhead
      BY <1>1, <2>1, <3>1 DEF InTime, FrameInv, FrameTypes, Overhead
    <3> QED
      BY <3>2, EndsInOrder, EndsOnTheLine DEF Overhead
  <2>4. n = Overhead
    BY <2>1, <2>3 DEF Fetched, Overhead
  <2>5. k + 1 \in Frames /\ (k + 1) - 1 = k
    BY <2>2 DEF Frames
  <2>6. start \in Syncs(n)
    <3>1. start \in {EndOf(m - 1) : m \in Frames}
      BY <2>1, <2>5
    <3>2. start <= start /\ start < start + n
      BY <1>1 DEF FrameInv, FrameTypes
    <3> QED
      BY <3>1, <3>2 DEF Syncs
  <2>7. p = start
    BY <1>1, <2>6, FirstSync DEF FrameInv, FrameTypes
  <2>8. MessageAt(p) = k + 1
    BY <2>1, <2>5, <2>7, BeginsOnce
  <2>9. nneed + PayloadOf(k + 1) = EndOf(k + 1) - start /\ EndOf(k + 1) - start < LineLength + 1
        /\ EndOf(k + 1) \in Nat /\ start \in Nat /\ LineLength \in Nat
    <3>1. k + 1 \in 0 .. Len(Ends)
      BY <2>2
    <3>2. EndOf(k + 1) \in Nat /\ EndOf(k + 1) <= LineLength /\ EndOf(k) \in Nat
      BY <3>1, EndsOnTheLine
    <3>3. PayloadOf(k + 1) = EndOf(k + 1) - EndOf(k) - Overhead
      BY <2>5 DEF PayloadOf
    <3> QED
      BY <2>1, <3>2, <3>3, LineLengthIsNat DEF Overhead
  <2>10. \A a, b \in Nat : a < b => Min({a, b}) = a
    <3> SUFFICES ASSUME NEW a \in Nat, NEW b \in Nat, a < b PROVE Min({a, b}) = a
      OBVIOUS
    <3>1. Min({a, b}) \in {a, b} /\ \A y \in {a, b} : Min({a, b}) <= y
      BY LeastOfNats
    <3> QED
      BY <3>1
  <2>11. nneed + PayloadOf(k + 1) \in Nat
    BY <2>1, <2>5, PayloadIsNat DEF Overhead
  <2>12. Min({nneed + PayloadOf(MessageAt(p)), LineLength + 1}) = EndOf(k + 1) - start
    BY <2>8, <2>9, <2>10, <2>11
  <2>13. /\ start' = start /\ nvalid' = n /\ rxAt' = "payload"
         /\ nneed' = EndOf(k + 1) - start
    <3>1. Syncs(n) # {}
      BY <2>6
    <3> QED
      BY <1>1, <2>4, <2>7, <2>12, <3>1 DEF RxHeader, FrameInv, FrameTypes, Overhead
  <2> QED
    BY <1>2, <2>1, <2>2, <2>4, <2>13 DEF InPlace, Overhead
<1> QED
  BY <1>2, <1>3, <1>4, <1>5 DEF FrameInv

LEMMA RxMessageEndsKeeps ==
  ASSUME FrameInv, RxMessageEnds
  PROVE  FrameInv'
<1>1. start + nneed <= arrived /\ arrived' = arrived /\ pauses' = pauses
  BY DEF RxMessageEnds, InTime
<1>2. CASE ~ChecksumFits
  <2>1. pauses # 0
    <3> SUFFICES ASSUME pauses = 0 PROVE FALSE
      OBVIOUS
    <3>1. PICK k \in 0 .. Len(Ends) :
             start = EndOf(k) /\ k < Len(Ends) /\ nneed = EndOf(k + 1) - start
      BY DEF FrameInv, InPlace, RxMessageEnds
    <3>2. k + 1 \in Frames /\ (k + 1) - 1 = k /\ ((k + 1) - (k + 1)) % 2 = 0
      BY <3>1 DEF Frames
    <3>3. start + nneed = EndOf(k + 1)
      <4>1. EndOf(k + 1) \in Nat
        BY <3>1, EndsOnTheLine
      <4> QED
        BY <3>1, <4>1 DEF FrameInv, FrameTypes
    <3> QED
      BY <1>2, <3>1, <3>2, <3>3 DEF ChecksumFits
  <2> QED
    BY <1>2, <2>1
    DEF RxMessageEnds, FrameInv, FrameTypes, PassedAreBehind, PassedInOrder
<1>3. CASE ChecksumFits
  <2>1. PICK m \in Frames, e \in Frames :
          e >= m /\ start = EndOf(m - 1) /\ start + nneed = EndOf(e)
    BY <1>3 DEF ChecksumFits
  <2>2. /\ passed' = Append(passed, m) /\ start' = start + nneed
        /\ nvalid' = 0 /\ nneed' = Overhead /\ rxAt' = "header"
    BY <1>3, <2>1, BeginsOnce DEF RxMessageEnds, SearchFrom
  <2>3. /\ m \in 0 .. Len(Ends) /\ e \in 0 .. Len(Ends) /\ m - 1 \in 0 .. Len(Ends)
        /\ m \in Int /\ passed \in Seq(Frames)
        /\ \A i \in DOMAIN passed : passed[i] \in 0 .. Len(Ends) /\ i \in Int
    <3>1. m \in 0 .. Len(Ends) /\ e \in 0 .. Len(Ends) /\ m - 1 \in 0 .. Len(Ends)
      BY DEF Frames
    <3>2. passed \in Seq(Frames)
      BY DEF FrameInv, FrameTypes
    <3>3. \A i \in DOMAIN passed : passed[i] \in Frames /\ i \in Int
      BY <3>2
    <3> QED
      BY SMTT(30), <3>1, <3>2, <3>3 DEF Frames
  <2>4. EndOf(m) <= start'
    BY SMTT(30), <2>1, <2>2, <2>3, EndsInOrder, EndsOnTheLine DEF Overhead
  <2>5. \A i \in DOMAIN passed : passed[i] < m
    <3> SUFFICES ASSUME NEW i \in DOMAIN passed, passed[i] >= m PROVE FALSE
      BY <2>3
    <3>1. EndOf(passed[i]) <= EndOf(m - 1)
      BY <2>1 DEF FrameInv, PassedAreBehind
    <3>2. EndOf(m - 1) + Overhead <= EndOf(passed[i])
      BY SMTT(30), <2>3, EndsInOrder
    <3>3. EndOf(m - 1) \in Nat /\ EndOf(passed[i]) \in Nat
      BY <2>3, EndsOnTheLine
    <3> QED
      BY <3>1, <3>2, <3>3 DEF Overhead
  <2>6. FrameTypes' /\ start <= start'
    BY <1>1, <2>2, <2>3 DEF FrameInv, FrameTypes, Overhead
  <2>7. PassedAreBehind'
    <3>1. start' + nvalid' <= arrived'
      BY <1>1, <2>2 DEF FrameInv, FrameTypes
    <3>2. ASSUME NEW i \in DOMAIN passed' PROVE EndOf(passed'[i]) <= start'
      <4>1. CASE i = Len(passed) + 1
        BY <2>2, <2>3, <2>4, <4>1
      <4>2. CASE i # Len(passed) + 1
        <5>1. i \in DOMAIN passed /\ passed'[i] = passed[i]
          BY SMTT(30), <2>2, <2>3, <3>2, <4>2
        <5>2. EndOf(passed[i]) \in Nat /\ EndOf(passed[i]) <= start
          BY <2>3, <5>1, EndsOnTheLine DEF FrameInv, PassedAreBehind
        <5> QED
          BY <2>6, <5>1, <5>2 DEF FrameInv, FrameTypes
      <4> QED
        BY <4>1, <4>2
    <3> QED
      BY <3>1, <3>2 DEF PassedAreBehind
  <2>8. PassedInOrder'
    <3> SUFFICES ASSUME NEW i \in 1 .. Len(passed') - 1 PROVE passed'[i] < passed'[i + 1]
      BY DEF PassedInOrder
    <3>1. i \in DOMAIN passed /\ passed'[i] = passed[i]
      BY <2>2, <2>3
    <3>2. CASE i = Len(passed)
      BY <2>2, <2>3, <2>5, <3>1, <3>2
    <3>3. CASE i # Len(passed)
      BY <2>2, <2>3, <3>1, <3>3 DEF FrameInv, PassedInOrder
    <3> QED
      BY <3>2, <3>3
  <2>9. ASSUME pauses = 0 PROVE InPlace'
    <3>1. PICK k \in 0 .. Len(Ends) :
            /\ start = EndOf(k) /\ k < Len(Ends) /\ nneed = EndOf(k + 1) - start
            /\ \A x \in 1 .. k : \E i \in DOMAIN passed : passed[i] = x
      BY <2>9 DEF FrameInv, InPlace, RxMessageEnds
    <3>2. k + 1 \in Frames /\ (k + 1) - 1 = k /\ k + 1 \in 0 .. Len(Ends)
      BY <3>1 DEF Frames
    <3>3. m = k + 1
      BY <2>1, <3>1, <3>2, BeginsOnce
    <3>4. start' = EndOf(k + 1)
      BY <2>2, <3>1, <3>2, EndsOnTheLine DEF FrameInv, FrameTypes
    <3>5. ASSUME NEW x \in 1 .. k + 1 PROVE \E i \in DOMAIN passed' : passed'[i] = x
      <4>1. CASE x = k + 1
        <5>1. Len(passed) + 1 \in DOMAIN passed' /\ passed'[Len(passed) + 1] = m
          BY <2>2, <2>3
        <5> QED
          BY <3>3, <4>1, <5>1
      <4>2. CASE x # k + 1
        <5>1. PICK i \in DOMAIN passed : passed[i] = x
          BY <3>1, <4>2
        <5>2. i \in DOMAIN passed' /\ passed'[i] = x
          BY <2>2, <2>3, <5>1
        <5> QED
          BY <5>2
      <4> QED
        BY <4>1, <4>2
    <3> QED
      BY <2>2, <3>2, <3>4, <3>5 DEF InPlace
  <2> QED
    BY <1>1, <2>6, <2>7, <2>8, <2>9 DEF FrameInv
<1> QED
  BY <1>2, <1>3

LEMMA RxShortKeeps ==
  ASSUME FrameInv, RxShort
  PROVE  FrameInv'
<1>1. Fetched \in Nat /\ start + Fetched <= arrived
  BY FetchedHasCome DEF FrameInv, FrameTypes
<1>2. /\ arrived' = arrived /\ start' = start /\ nneed' = nneed /\ passed' = passed
      /\ nvalid' = Fetched /\ rxAt' = "header" /\ pauses' \in Nat
      /\ LateInside => pauses' # 0
  BY DEF RxShort, FrameInv, FrameTypes
<1>3. FrameTypes' /\ PassedAreBehind' /\ PassedInOrder'
  BY <1>1, <1>2 DEF FrameInv, FrameTypes, PassedAreBehind, PassedInOrder
<1>4. pauses' # 0
  <2> SUFFICES ASSUME pauses' = 0 PROVE FALSE
    OBVIOUS
  <2>1. Late /\ pauses = 0
    BY <1>2 DEF RxShort, LateInside, Late, FrameInv, FrameTypes
  <2>2. PICK k \in 0 .. Len(Ends) :
          /\ start = EndOf(k) /\ k < Len(Ends) /\ nvalid >= 1
          /\ nneed = EndOf(k + 1) - start
    BY <2>1 DEF FrameInv, InPlace, RxShort
  <2>3. PICK j \in 0 .. Len(Ends) : arrived = EndOf(j)
    BY <2>1 DEF Late, BetweenMessages, Frames
  <2>4. k + 1 \in 0 .. Len(Ends) /\ k \in Int /\ j \in Int
    BY <2>2
  <2>5. EndOf(k) < EndOf(j) /\ EndOf(j) < EndOf(k + 1)
    <3>1. EndOf(k + 1) \in Nat
      BY <2>4, EndsOnTheLine
    <3>2. arrived \in Nat /\ start \in Nat /\ nvalid \in Nat /\ start + nvalid <= arrived
      BY LineLengthIsNat DEF FrameInv, FrameTypes, PassedAreBehind
    <3>3. ~ (start + nneed <= arrived)
      BY <2>1 DEF Late, InTime
    <3>4. nneed = EndOf(k + 1) - start
      BY <2>2
    <3>5. arrived < EndOf(k + 1)
      <4> HIDE DEF EndOf
      <4> QED
        BY <3>1, <3>2, <3>3, <3>4
    <3>6. start < arrived
      BY <2>2, <3>2
    <3> QED
      BY <2>2, <2>3, <3>5, <3>6
  <2>6. j > k
    BY <2>4, <2>5, EndsInOrder, EndsOnTheLine DEF Overhead
  <2>7. j = k + 1 \/ k + 1 < j
    BY <2>4, <2>6
  <2> QED
    BY <2>4, <2>5, <2>7, EndsInOrder, EndsOnTheLine DEF Overhead
<1> QED
  BY <1>3, <1>4 DEF FrameInv

LEMMA RxDumpKeeps ==
  ASSUME FrameInv, RxDump
  PROVE  FrameInv'
<1>1. /\ arrived' = arrived /\ start' = arrived /\ nneed' = Overhead /\ nvalid' = 0
      /\ passed' = passed /\ rxAt' = "header" /\ pauses' = pauses
  BY DEF RxDump, SearchFrom
<1>2. \A i \in DOMAIN passed : passed[i] \in 0 .. Len(Ends)
  BY DEF FrameInv, FrameTypes, Frames
<1>3. LineLength \in Nat
  BY LineLengthIsNat
<1>4. FrameTypes' /\ PassedAreBehind' /\ PassedInOrder'
  <2>1. start <= arrived
    BY DEF FrameInv, FrameTypes, PassedAreBehind
  <2>2. \A i \in DOMAIN passed : EndOf(passed[i]) \in Nat
    BY <1>2, EndsOnTheLine
  <2> QED
    BY <1>1, <1>3, <2>1, <2>2
    DEF FrameInv, FrameTypes, PassedAreBehind, PassedInOrder, Overhead
<1>5. pauses # 0
  BY DEF FrameInv, InPlace, RxDump
<1> QED
  BY <1>1, <1>4, <1>5 DEF FrameInv

LEMMA NextFrameInv == FrameInv /\ [FrameNext]_frameVars => FrameInv'
<1>1. CASE UNCHANGED frameVars
  BY <1>1
  DEF frameVars, FrameInv, FrameTypes, PassedAreBehind, PassedInOrder, InPlace
<1> QED
  BY <1>1, ArriveKeeps, RxHeaderKeeps, RxMessageEndsKeeps, RxShortKeeps, RxDumpKeeps
  DEF FrameNext

LEMMA FrameInvariant == FrameSpec => []FrameInv
<1> QED
  BY InitFrameInv, NextFrameInv, PTL DEF FrameSpec

(* Messages are passed on in the order in which they were sent, and no     *)
(* message twice, whatever pauses cut them and however many bytes are      *)
(* thrown away: mt_msg_rx.                                                 *)
THEOREM NoMessageTwice == FrameSpec => []PassedInOrder
<1>1. FrameInv => PassedInOrder
  BY DEF FrameInv
<1> QED
  BY <1>1, FrameInvariant, PTL

(* As long as no message is cut by a pause, every one whose bytes were     *)
(* taken from the line was passed on: mt_msg_rx, mt_msg_rx_bytes.          *)
THEOREM OnlyPausesLose == FrameSpec => []SkippedAfterPausesOnly
<1>1. FrameInv => SkippedAfterPausesOnly
  <2> SUFFICES ASSUME FrameInv, pauses = 0, NEW m \in Frames, EndOf(m) <= start
               PROVE  \E i \in DOMAIN passed : passed[i] = m
    BY DEF SkippedAfterPausesOnly, NothingIsSkipped
  <2>1. PICK k \in 0 .. Len(Ends) :
          /\ start = EndOf(k)
          /\ \A x \in 1 .. k : \E i \in DOMAIN passed : passed[i] = x
    BY DEF FrameInv, InPlace
  <2>2. m \in 0 .. Len(Ends) /\ m \in Nat \ {0} /\ k \in Int
    BY DEF Frames
  <2>3. m <= k
    BY <2>1, <2>2, EndsInOrder, EndsOnTheLine DEF Overhead
  <2> QED
    BY <2>1, <2>2, <2>3
<1> QED
  BY <1>1, FrameInvariant, PTL

HIDE FrameAssumption

-----------------------------------------------------------------------------
(* Long messages.  Both ends tell blocks apart by their numbers only: what *)
(* is on its way must fit where the sender and the receiver are.           *)

Statuses == {"success", "complete", "outOfOrder"}
Answers == [block : Nat, status : Statuses]
Listed == [block : Nat, status : Statuses, freed : BOOLEAN]
Parts == [block : Nat, count : Nat, msg : Msgs]
WholeOf(m) == [b \in 1 .. Blocks[m] |-> m]

Sending == step # "idle"
Got == \E i \in DOMAIN received : received[i] = WholeOf(msg)

FragTypes ==
  /\ step \in {"idle", "send", "wait", "pop"}
  /\ msg \in 0 .. Len(Blocks)
  /\ block \in Nat
  /\ Sending => msg \in Msgs /\ block < Count
  /\ data \in Seq(Parts)
  /\ back \in Seq(Answers)
  /\ acks \in Seq(Listed)
  /\ rxFrag \in [cur : Nat, count : Nat, parts : Seq(Msgs)]
  /\ received \in Seq(Seq(Msgs))

\* Blocks of earlier messages are left over only behind their first, and only
\* until the receiver has answered the current message's first block; of the
\* current message there are the sender's block and the one before it.
BlockInv(d) ==
  /\ d.count = Blocks[d.msg] /\ d.block < d.count /\ d.msg <= msg
  /\ d.msg < msg \/ ~Sending => d.block >= 1
  /\ d.msg = msg => d.block <= block
  /\ Sending /\ d.msg = msg => block <= d.block + 1
  /\ Sending /\ block >= 1 => d.msg = msg

InOrder(d, e) == d.msg < e.msg \/ (d.msg = e.msg /\ d.block <= e.block)

DataInv ==
  /\ \A i \in DOMAIN data : BlockInv(data[i])
  /\ \A i, j \in DOMAIN data : i < j => InOrder(data[i], data[j])

\* All blocks on the line are the current message's, from b on.
DataFrom(b) ==
  \A i \in DOMAIN data : data[i].msg = msg /\ data[i].block >= b

\* The receiver has nothing and will take none of the blocks on the line.
Dead == rxFrag = NoRx /\ \A i \in DOMAIN data : data[i].block >= 1

RxInv ==
  rxFrag # NoRx =>
    /\ Sending /\ ~Got
    /\ rxFrag.count = Count /\ rxFrag.cur + 1 < Count
    /\ rxFrag.parts = [b \in 1 .. rxFrag.cur + 1 |-> msg]
    /\ rxFrag.cur <= block /\ block <= rxFrag.cur + 1
    /\ DataFrom(rxFrag.cur)

ReceivedInv ==
  /\ \A i \in DOMAIN received : \E m \in 1 .. msg : received[i] = WholeOf(m)
  /\ Got => Dead /\ (Sending => block + 1 = Count)
  /\ ~Sending => Dead

\* An acknowledgement that the sender may still look at ...
Waiting(a) ==
  \/ \E i \in DOMAIN back : back[i] = a
  \/ \E i \in DOMAIN acks :
       ~acks[i].freed /\ acks[i].block = a.block /\ acks[i].status = a.status

\* ... and two of which the first one came first.
Before(a, b) ==
  \/ \E i, j \in DOMAIN back : i < j /\ back[i] = a /\ back[j] = b
  \/ /\ \E i \in DOMAIN acks :
          ~acks[i].freed /\ acks[i].block = a.block /\ acks[i].status = a.status
     /\ \E j \in DOMAIN back : back[j] = b

\* What one of them says is true of the current message, but for a refusal
\* that comes while its first block is being sent.
AckInv(a) ==
  /\ a.status = "success" =>
       /\ Sending /\ a.block <= block /\ a.block + 1 < Count
       /\ DataFrom(a.block)
       /\ rxFrag # NoRx => a.block <= rxFrag.cur
  /\ a.status = "complete" => Sending /\ a.block + 1 = Count /\ Got
  /\ a.status = "outOfOrder" => a.block >= 1 /\ (Sending /\ block >= 1 => Dead)

Follows(a, b) ==
  /\ a.status = "complete" => b.status = "outOfOrder"
  /\ Sending /\ block >= 1 /\ a.status = "outOfOrder" => b.status = "outOfOrder"
  /\ Sending /\ block = 0 /\ a.status = "success" => b.status = "success"

LiveInv ==
  /\ \A a \in Answers : Waiting(a) => AckInv(a)
  /\ \A a, b \in Answers : Before(a, b) => Follows(a, b)

FragInv == FragTypes /\ DataInv /\ RxInv /\ ReceivedInv /\ LiveInv

USE MtFragmentAssumption DEF Msgs, Count

\* As is said of ImplementsTransfer: a message of one block is acknowledged,
\* and not passed on.
SeveralBlocks == \A m \in Msgs : Blocks[m] > 1

-----------------------------------------------------------------------------
(* Sequences that grow at their end and shrink at their beginning.         *)

LEMMA Appended ==
  ASSUME NEW S, NEW s \in Seq(S), NEW x \in S
  PROVE  /\ Append(s, x) \in Seq(S) /\ Len(s) \in Nat
         /\ DOMAIN s = 1 .. Len(s) /\ DOMAIN Append(s, x) = 1 .. Len(s) + 1
         /\ \A i \in 1 .. Len(s) : Append(s, x)[i] = s[i]
         /\ Append(s, x)[Len(s) + 1] = x
  OBVIOUS

LEMMA TailOf ==
  ASSUME NEW S, NEW s \in Seq(S), s # <<>>
  PROVE  /\ Tail(s) \in Seq(S) /\ Head(s) \in S /\ Head(s) = s[1] /\ 1 \in DOMAIN s
         /\ Len(s) \in Nat \ {0} /\ DOMAIN s = 1 .. Len(s)
         /\ DOMAIN Tail(s) = 1 .. Len(s) - 1
         /\ \A i \in 1 .. Len(s) - 1 : Tail(s)[i] = s[i + 1] /\ i + 1 \in DOMAIN s
  OBVIOUS

LEMMA PartsOnTheLine ==
  ASSUME FragTypes
  PROVE  /\ DOMAIN data = 1 .. Len(data) /\ Len(data) \in Nat
         /\ \A i \in DOMAIN data :
              /\ data[i] \in Parts /\ data[i].block \in Nat
              /\ data[i].count \in Nat /\ data[i].msg \in Msgs /\ data[i].msg \in Nat
<1>1. data \in Seq(Parts)
  BY DEF FragTypes
<1>2. /\ DOMAIN data = 1 .. Len(data) /\ Len(data) \in Nat
      /\ \A i \in DOMAIN data : data[i] \in Parts
  BY <1>1
<1> QED
  BY <1>2 DEF Parts

-----------------------------------------------------------------------------
(* How the lists of acknowledgements change.                               *)

LEMMA BeforeAreWaiting ==
  ASSUME NEW a \in Answers, NEW b \in Answers, Before(a, b)
  PROVE  Waiting(a) /\ Waiting(b)
  BY DEF Before, Waiting

LEMMA LiveKept ==
  ASSUME LiveInv,
         \A a \in Answers : Waiting(a)' => Waiting(a),
         \A a, b \in Answers : Before(a, b)' => Before(a, b),
         \A a \in Answers : AckInv(a) => AckInv(a)',
         \A a, b \in Answers : AckInv(a) /\ Follows(a, b) => Follows(a, b)'
  PROVE  LiveInv'
<1>1. ASSUME NEW a \in Answers, Waiting(a)' PROVE AckInv(a)'
  BY <1>1 DEF LiveInv
<1>2. ASSUME NEW a \in Answers, NEW b \in Answers, Before(a, b)' PROVE Follows(a, b)'
  <2>1. Before(a, b) /\ Waiting(a)
    BY <1>2, BeforeAreWaiting
  <2> QED
    BY <2>1 DEF LiveInv
<1> QED
  BY <1>1, <1>2 DEF LiveInv

\* One more acknowledgement is sent.
LEMMA LiveGrows ==
  ASSUME LiveInv, FragTypes, NEW n \in Answers,
         back' = Append(back, n), acks' = acks,
         \A a \in Answers : AckInv(a) => AckInv(a)',
         \A a, b \in Answers : AckInv(a) /\ Follows(a, b) => Follows(a, b)',
         AckInv(n)',
         \A a \in Answers : AckInv(a) => Follows(a, n)'
  PROVE  LiveInv'
<1>0. /\ back \in Seq(Answers) /\ DOMAIN back = 1 .. Len(back) /\ Len(back) \in Nat
      /\ DOMAIN back' = 1 .. Len(back) + 1
      /\ \A i \in DOMAIN back : back'[i] = back[i]
      /\ back'[Len(back) + 1] = n
  BY SMTT(30), Appended DEF FragTypes
<1>1. ASSUME NEW a \in Answers, Waiting(a)' PROVE Waiting(a) \/ a = n
  BY <1>0, <1>1 DEF Waiting
<1>2. ASSUME NEW a \in Answers, NEW b \in Answers, Before(a, b)'
      PROVE  Before(a, b) \/ (b = n /\ Waiting(a))
  <2>1. CASE \E i, j \in DOMAIN back' : i < j /\ back'[i] = a /\ back'[j] = b
    <3>1. PICK i \in DOMAIN back', j \in DOMAIN back' : i < j /\ back'[i] = a /\ back'[j] = b
      BY <2>1
    <3>2. i \in DOMAIN back /\ back[i] = a
      BY <1>0, <3>1
    <3>3. (j \in DOMAIN back /\ back[j] = b) \/ b = n
      BY <1>0, <3>1
    <3> QED
      BY <3>1, <3>2, <3>3 DEF Before, Waiting
  <2>2. CASE /\ \E i \in DOMAIN acks : ~acks[i].freed /\ acks[i].block = a.block
                                       /\ acks[i].status = a.status
             /\ \E j \in DOMAIN back' : back'[j] = b
    <3>1. PICK j \in DOMAIN back' : back'[j] = b
      BY <2>2
    <3>2. (j \in DOMAIN back /\ back[j] = b) \/ b = n
      BY <1>0, <3>1
    <3> QED
      BY <2>2, <3>2 DEF Before, Waiting
  <2> QED
    BY <1>2, <2>1, <2>2 DEF Before
<1>3. ASSUME NEW a \in Answers, Waiting(a)' PROVE AckInv(a)'
  BY <1>1, <1>3 DEF LiveInv
<1>4. ASSUME NEW a \in Answers, NEW b \in Answers, Before(a, b)' PROVE Follows(a, b)'
  <2>1. CASE Before(a, b)
    BY <2>1, BeforeAreWaiting DEF LiveInv
  <2>2. CASE b = n /\ Waiting(a)
    BY <2>2 DEF LiveInv
  <2> QED
    BY <1>2, <1>4, <2>1, <2>2
<1> QED
  BY <1>3, <1>4 DEF LiveInv

\* Only what came after the acknowledgement h is left.
LEMMA LiveAfter ==
  ASSUME LiveInv, NEW h \in Answers,
         \A a \in Answers : Waiting(a)' => Before(h, a),
         \A a, b \in Answers : Before(a, b)' => Before(a, b) /\ Before(h, a) /\ Before(h, b),
         \A a \in Answers : AckInv(a) /\ Follows(h, a) => AckInv(a)',
         \A a, b \in Answers : Follows(h, a) /\ Follows(h, b) /\ Follows(a, b) => Follows(a, b)'
  PROVE  LiveInv'
<1>1. ASSUME NEW a \in Answers, Waiting(a)' PROVE AckInv(a)'
  <2>1. Before(h, a)
    BY <1>1
  <2>2. Follows(h, a) /\ Waiting(a)
    BY <2>1, BeforeAreWaiting DEF LiveInv
  <2> QED
    BY <2>2 DEF LiveInv
<1>2. ASSUME NEW a \in Answers, NEW b \in Answers, Before(a, b)' PROVE Follows(a, b)'
  <2>1. Before(a, b) /\ Before(h, a) /\ Before(h, b)
    BY <1>2
  <2>2. Follows(a, b) /\ Follows(h, a) /\ Follows(h, b)
    BY <2>1 DEF LiveInv
  <2> QED
    BY <2>2
<1> QED
  BY <1>1, <1>2 DEF LiveInv

\* Nothing but the lists of acknowledgements changes.
LEMMA ConversationStays ==
  ASSUME FragInv, FragTypes', data' = data, rxFrag' = rxFrag, received' = received,
         msg' = msg, block' = block, Sending' = Sending
  PROVE  /\ DataInv' /\ RxInv' /\ ReceivedInv'
         /\ \A a \in Answers : AckInv(a) => AckInv(a)'
         /\ \A a, b \in Answers : Follows(a, b) => Follows(a, b)'
<1>1. (Got' <=> Got) /\ (Dead' <=> Dead)
  BY DEF Got, Dead, NoRx
<1>2. DataInv'
  BY DEF FragInv, DataInv, BlockInv, InOrder
<1>3. RxInv'
  BY <1>1 DEF FragInv, RxInv, DataFrom, NoRx
<1>4. ReceivedInv'
  BY <1>1 DEF FragInv, ReceivedInv
<1>5. ASSUME NEW a \in Answers, AckInv(a) PROVE AckInv(a)'
  BY <1>1, <1>5 DEF AckInv, DataFrom, NoRx
<1>6. ASSUME NEW a \in Answers, NEW b \in Answers, Follows(a, b) PROVE Follows(a, b)'
  BY <1>6 DEF Follows
<1> QED
  BY <1>2, <1>3, <1>4, <1>5, <1>6

-----------------------------------------------------------------------------
(* The sender.                                                             *)

LEMMA WholeIsOne ==
  ASSUME NEW m \in Msgs, NEW n \in Msgs, WholeOf(m) = WholeOf(n)
  PROVE  m = n
<1>1. 1 \in 1 .. Blocks[m] /\ 1 \in 1 .. Blocks[n]
  OBVIOUS
<1>2. WholeOf(m)[1] = m /\ WholeOf(n)[1] = n
  BY <1>1 DEF WholeOf
<1> QED
  BY <1>2

LEMMA InitFragInv == FragInit => FragInv
<1> SUFFICES ASSUME FragInit PROVE FragInv
  OBVIOUS
<1>1. FragTypes
  BY DEF FragInit, FragTypes, Sending, NoRx
<1>2. ~Got /\ Dead /\ ~Sending
  BY DEF FragInit, Got, Dead, Sending
<1>3. \A a \in Answers : ~Waiting(a)
  BY DEF FragInit, Waiting
<1>4. LiveInv
  BY <1>3, BeforeAreWaiting DEF LiveInv
<1> QED
  BY <1>1, <1>2, <1>4 DEF FragInit, FragInv, DataInv, RxInv, ReceivedInv

LEMMA QuietFragKeeps ==
  ASSUME FragInv, AckWoken \/ AckTimedOut \/ AckPut
  PROVE  FragInv'
<1>1. /\ data' = data /\ rxFrag' = rxFrag /\ received' = received /\ msg' = msg
      /\ block' = block /\ back' = back /\ acks' = acks
      /\ step' \in {"idle", "send", "wait", "pop"}
      /\ step' = step \/ (step = "wait" /\ step' = "pop")
  BY DEF AckWoken, AckTimedOut, AckPut, rxVars, txVars, FragInv, FragTypes
<1>2. Sending' = Sending
  BY <1>1 DEF Sending
<1>3. FragTypes'
  BY <1>1, <1>2 DEF FragInv, FragTypes
<1>4. /\ \A a \in Answers : Waiting(a)' => Waiting(a)
      /\ \A a, b \in Answers : Before(a, b)' => Before(a, b)
  BY <1>1 DEF Waiting, Before
<1>5. /\ DataInv' /\ RxInv' /\ ReceivedInv'
      /\ \A a \in Answers : AckInv(a) => AckInv(a)'
      /\ \A a, b \in Answers : Follows(a, b) => Follows(a, b)'
  BY <1>1, <1>2, <1>3, ConversationStays
<1>6. LiveInv'
  BY <1>4, <1>5, LiveKept DEF FragInv
<1> QED
  BY <1>3, <1>5, <1>6 DEF FragInv

LEMMA StartFragKeeps ==
  ASSUME FragInv, Start
  PROVE  FragInv'
<1>1. /\ ~Sending /\ step' = "send" /\ msg' = msg + 1 /\ msg + 1 \in Msgs /\ block' = 0
      /\ data' = data /\ rxFrag' = rxFrag /\ received' = received
      /\ back' = back /\ acks' = acks /\ msg \in Nat
  BY DEF Start, rxVars, Sending, FragInv, FragTypes
<1>2. Sending' /\ Dead /\ Dead'
  BY <1>1 DEF Sending, Dead, NoRx, FragInv, ReceivedInv
<1>3. FragTypes'
  BY SMTT(30), <1>1, <1>2 DEF FragInv, FragTypes
<1>4. ~Got'
  <2> SUFFICES ASSUME NEW i \in DOMAIN received, received[i] = WholeOf(msg + 1) PROVE FALSE
    BY <1>1 DEF Got, WholeOf
  <2>1. PICK m \in 1 .. msg : received[i] = WholeOf(m)
    BY DEF FragInv, ReceivedInv
  <2>2. m \in Msgs /\ m # msg + 1
    BY <1>1
  <2> QED
    BY <1>1, <2>1, <2>2, WholeIsOne
<1>5. DataInv'
  <2>1. \A i \in DOMAIN data : data[i].msg \in Nat
    BY PartsOnTheLine DEF FragInv
  <2>2. ASSUME NEW i \in DOMAIN data PROVE BlockInv(data[i])'
    <3>1. BlockInv(data[i])
      BY DEF FragInv, DataInv
    <3> QED
      BY SMTT(30), <1>1, <1>2, <2>1, <3>1 DEF BlockInv
  <2> QED
    BY <1>1, <2>2 DEF FragInv, DataInv, InOrder
<1>6. RxInv'
  BY <1>2 DEF RxInv, Dead
<1>7. ReceivedInv'
  <2>1. ASSUME NEW i \in DOMAIN received'
        PROVE  \E m \in 1 .. msg' : received'[i] = WholeOf(m)'
    <3>1. PICK m \in 1 .. msg : received[i] = WholeOf(m)
      BY <1>1, <2>1 DEF FragInv, ReceivedInv
    <3>2. m \in 1 .. msg' /\ received'[i] = WholeOf(m)'
      BY <1>1, <3>1 DEF WholeOf
    <3> QED
      BY <3>2
  <2> QED
    BY <1>2, <1>4, <2>1 DEF ReceivedInv
<1>8. /\ \A a \in Answers : Waiting(a)' => Waiting(a)
      /\ \A a, b \in Answers : Before(a, b)' => Before(a, b)
  BY <1>1 DEF Waiting, Before
<1>9. ASSUME NEW a \in Answers, AckInv(a) PROVE AckInv(a)'
  BY <1>1, <1>2, <1>9 DEF AckInv
<1>10. ASSUME NEW a \in Answers, NEW b \in Answers, AckInv(a), Follows(a, b)
       PROVE  Follows(a, b)'
  BY <1>1, <1>2, <1>10 DEF AckInv, Follows
<1>11. LiveInv'
  BY <1>8, <1>9, <1>10, LiveKept DEF FragInv
<1> QED
  BY <1>3, <1>5, <1>6, <1>7, <1>11 DEF FragInv

LEMMA SendFragKeeps ==
  ASSUME SeveralBlocks, FragInv, Send
  PROVE  FragInv'
<1> DEFINE d == [block |-> block, count |-> Count, msg |-> msg]
<1>1. /\ Sending /\ step' = "wait" /\ data' = Append(data, d)
      /\ msg' = msg /\ block' = block /\ rxFrag' = rxFrag /\ received' = received
      /\ back' = back /\ acks' = acks
  BY DEF Send, rxVars, Sending
<1>2. /\ msg \in Msgs /\ block \in Nat /\ Count \in Nat /\ block < Count
      /\ data \in Seq(Parts)
  BY <1>1 DEF FragInv, FragTypes
<1>3. Sending' /\ (Got' <=> Got)
  BY <1>1 DEF Sending, Got, WholeOf
<1>4. d \in Parts
  BY <1>2 DEF Parts
<1>5. /\ DOMAIN data' = 1 .. Len(data) + 1 /\ DOMAIN data = 1 .. Len(data) /\ Len(data) \in Nat
      /\ \A i \in DOMAIN data : data'[i] = data[i]
      /\ data'[Len(data) + 1] = d
      /\ data' \in Seq(Parts)
  <2> HIDE DEF d
  <2> QED
    BY <1>1, <1>2, <1>4, Appended
<1>6. FragTypes'
  BY <1>1, <1>3, <1>5 DEF FragInv, FragTypes
<1>7. \A i \in DOMAIN data' : i \in DOMAIN data \/ data'[i] = d
  BY <1>5
<1>8. DataInv'
  <2>1. ASSUME NEW i \in DOMAIN data' PROVE BlockInv(data[i])'
    <3>1. CASE i \in DOMAIN data
      <4>1. BlockInv(data[i]) /\ data'[i] = data[i]
        BY <1>5, <3>1 DEF FragInv, DataInv
      <4> QED
        BY <1>1, <1>3, <4>1 DEF BlockInv
    <3>2. CASE data'[i] = d
      BY <1>1, <1>2, <1>3, <3>2 DEF BlockInv
    <3> QED
      BY <1>7, <3>1, <3>2
  <2>2. ASSUME NEW i \in DOMAIN data', NEW j \in DOMAIN data', i < j
        PROVE  InOrder(data[i], data[j])'
    <3> HIDE DEF d
    <3>1. i \in DOMAIN data /\ data'[i] = data[i]
      BY <1>5, <2>2
    <3>2. CASE j \in DOMAIN data
      BY <1>5, <2>2, <3>1, <3>2 DEF FragInv, DataInv, InOrder
    <3>3. CASE data'[j] = d
      <4>1. BlockInv(data[i]) /\ data[i].msg \in Nat /\ data[i].block \in Nat
        BY <3>1, PartsOnTheLine DEF FragInv, DataInv
      <4>2. d.msg = msg /\ d.block = block
        BY DEF d
      <4> QED
        BY <1>2, <3>1, <3>3, <4>1, <4>2 DEF BlockInv, InOrder
    <3> QED
      BY <1>7, <3>2, <3>3
  <2> QED
    BY <2>1, <2>2 DEF DataInv
<1>9. ASSUME NEW b \in Nat, b <= block, DataFrom(b) PROVE DataFrom(b)'
  <2> SUFFICES ASSUME NEW i \in DOMAIN data' PROVE data'[i].msg = msg' /\ data'[i].block >= b
    BY DEF DataFrom
  <2>1. CASE i \in DOMAIN data
    BY <1>1, <1>5, <1>9, <2>1 DEF DataFrom
  <2>2. CASE data'[i] = d
    BY <1>1, <1>9, <2>2
  <2> QED
    BY <1>7, <2>1, <2>2
<1>10. Dead /\ block >= 1 => Dead'
  BY <1>1, <1>2, <1>5, <1>7 DEF Dead, NoRx
<1>11. RxInv'
  <2>1. rxFrag.cur \in Nat
    BY DEF FragInv, FragTypes
  <2> QED
    BY <1>1, <1>3, <1>9, <2>1 DEF FragInv, RxInv, NoRx, DataFrom
<1>12. ReceivedInv'
  <2>1. Got => block >= 1 /\ Dead /\ block + 1 = Count
    <3>1. Got => Dead /\ block + 1 = Count
      BY <1>1 DEF FragInv, ReceivedInv
    <3> QED
      BY <1>1, <1>2, <3>1 DEF SeveralBlocks
  <2> QED
    BY <1>1, <1>3, <1>10, <2>1 DEF FragInv, ReceivedInv, WholeOf
<1>13. /\ \A a \in Answers : Waiting(a)' => Waiting(a)
       /\ \A a, b \in Answers : Before(a, b)' => Before(a, b)
  BY <1>1 DEF Waiting, Before
<1>14. ASSUME NEW a \in Answers, AckInv(a) PROVE AckInv(a)'
  <2>1. a.block \in Nat
    BY DEF Answers
  <2> QED
    BY <1>1, <1>3, <1>9, <1>10, <1>14, <2>1 DEF AckInv, NoRx
<1>15. ASSUME NEW a \in Answers, NEW b \in Answers, Follows(a, b) PROVE Follows(a, b)'
  BY <1>1, <1>3, <1>15 DEF Follows
<1>16. LiveInv'
  BY <1>13, <1>14, <1>15, LiveKept DEF FragInv
<1> QED
  BY <1>6, <1>8, <1>11, <1>12, <1>16 DEF FragInv

\* The newest acknowledgement is dropped, or there is none, or it is freed.
LEMMA PopNothingKeeps ==
  ASSUME FragInv, step = "pop", step' \in {"send", "wait", "pop"},
         acks' = acks \/ (acks # <<>> /\ acks' = Tail(acks)),
         block' = block, msg' = msg, back' = back, data' = data,
         rxFrag' = rxFrag, received' = received
  PROVE  FragInv'
<1>1. Sending /\ Sending'
  BY DEF Sending
<1>2. /\ acks' \in Seq(Listed)
      /\ \A i \in DOMAIN acks' : \E k \in DOMAIN acks : acks'[i] = acks[k]
  <2>1. acks \in Seq(Listed)
    BY DEF FragInv, FragTypes
  <2>2. CASE acks' = acks
    BY <2>1, <2>2
  <2>3. CASE acks # <<>> /\ acks' = Tail(acks)
    <3>1. /\ acks' \in Seq(Listed) /\ DOMAIN acks' = 1 .. Len(acks) - 1
          /\ \A i \in 1 .. Len(acks) - 1 : acks'[i] = acks[i + 1] /\ i + 1 \in DOMAIN acks
      BY <2>1, <2>3, TailOf
    <3> QED
      BY <3>1
  <2> QED
    BY <2>2, <2>3
<1>3. FragTypes'
  BY <1>1, <1>2 DEF FragInv, FragTypes
<1>4. /\ \A a \in Answers : Waiting(a)' => Waiting(a)
      /\ \A a, b \in Answers : Before(a, b)' => Before(a, b)
  <2>1. ASSUME NEW a \in Answers,
               \E i \in DOMAIN acks' :
                 ~acks'[i].freed /\ acks'[i].block = a.block /\ acks'[i].status = a.status
        PROVE  \E i \in DOMAIN acks :
                 ~acks[i].freed /\ acks[i].block = a.block /\ acks[i].status = a.status
    <3>1. PICK i \in DOMAIN acks' :
             ~acks'[i].freed /\ acks'[i].block = a.block /\ acks'[i].status = a.status
      BY <2>1
    <3>2. PICK k \in DOMAIN acks : acks'[i] = acks[k]
      BY <1>2
    <3> QED
      BY <3>1, <3>2
  <2> QED
    BY <2>1 DEF Waiting, Before
<1>5. /\ DataInv' /\ RxInv' /\ ReceivedInv'
      /\ \A a \in Answers : AckInv(a) => AckInv(a)'
      /\ \A a, b \in Answers : Follows(a, b) => Follows(a, b)'
  BY <1>1, <1>3, ConversationStays
<1>6. LiveInv'
  BY <1>4, <1>5, LiveKept DEF FragInv
<1> QED
  BY <1>3, <1>5, <1>6 DEF FragInv

\* The answer to the block that is sent, and what came after it.
LEMMA HeadOfAcks ==
  ASSUME FragInv, acks # <<>>, ~Head(acks).freed
  PROVE  \E h \in Answers :
           /\ h.block = Head(acks).block /\ h.status = Head(acks).status
           /\ Waiting(h) /\ AckInv(h)
           /\ \A b \in Answers : (\E j \in DOMAIN back : back[j] = b) => Before(h, b)
<1> DEFINE h == [block |-> Head(acks).block, status |-> Head(acks).status]
<1>1. acks \in Seq(Listed)
  BY DEF FragInv, FragTypes
<1>2. /\ Head(acks) \in Listed
      /\ Head(acks) = acks[1] /\ 1 \in DOMAIN acks
  BY <1>1, TailOf
<1>3. Head(acks).block \in Nat /\ Head(acks).status \in Statuses
  BY <1>2 DEF Listed
<1>4. h \in Answers /\ h.block = Head(acks).block /\ h.status = Head(acks).status
  BY <1>3 DEF Answers
<1> HIDE DEF h
<1>5. Waiting(h)
  BY <1>2, <1>4 DEF Waiting
<1>6. AckInv(h)
  BY <1>4, <1>5 DEF FragInv, LiveInv
<1>7. ASSUME NEW b \in Answers, \E j \in DOMAIN back : back[j] = b PROVE Before(h, b)
  BY <1>2, <1>4, <1>7 DEF Before
<1> QED
  BY <1>4, <1>5, <1>6, <1>7

\* The sender goes on, or ends; the other acknowledgements are freed.
LEMMA OthersAreFreed ==
  ASSUME FragInv, NEW h \in Answers, back' = back,
         \A b \in Answers : (\E j \in DOMAIN back : back[j] = b) => Before(h, b),
         \A i \in DOMAIN acks' : acks'[i].freed,
         \A a \in Answers : AckInv(a) /\ Follows(h, a) => AckInv(a)',
         \A a, b \in Answers : Follows(h, a) /\ Follows(h, b) /\ Follows(a, b) => Follows(a, b)'
  PROVE  LiveInv'
<1>1. ASSUME NEW a \in Answers, Waiting(a)' PROVE Before(h, a)
  BY <1>1 DEF Waiting
<1>2. ASSUME NEW a \in Answers, NEW b \in Answers, Before(a, b)'
      PROVE  Before(a, b) /\ Before(h, a) /\ Before(h, b)
  BY <1>1, <1>2 DEF Before
<1> QED
  BY <1>1, <1>2, LiveAfter DEF FragInv

LEMMA FreeRestTypes ==
  ASSUME FragInv, acks # <<>>, acks' = FreeRest(Tail(acks)) \/ acks' = <<>>
  PROVE  /\ acks' \in Seq(Listed)
         /\ \A i \in DOMAIN acks' : acks'[i].freed
<1>1. acks \in Seq(Listed)
  BY DEF FragInv, FragTypes
<1>2. Tail(acks) \in Seq(Listed)
  BY <1>1, TailOf
<1>3. CASE acks' = <<>>
  BY <1>3
<1>4. CASE acks' = FreeRest(Tail(acks))
  <2> DEFINE r == Tail(acks)
  <2>1. /\ r \in Seq(Listed)
        /\ DOMAIN r = 1 .. Len(r) /\ Len(r) \in Nat
    BY <1>2
  <2>2. \A i \in DOMAIN r : r[i] \in Listed
    BY <2>1
  <2> HIDE DEF r
  <2>3. \A i \in DOMAIN r :
          /\ [r[i] EXCEPT !.freed = TRUE] \in Listed
          /\ [r[i] EXCEPT !.freed = TRUE].freed
    BY <2>2 DEF Listed
  <2>4. acks' = [i \in 1 .. Len(r) |-> [r[i] EXCEPT !.freed = TRUE]]
    BY <1>4, <2>1 DEF FreeRest, r
  <2>5. acks' \in [1 .. Len(r) -> Listed]
    BY <2>1, <2>3, <2>4
  <2>6. acks' \in Seq(Listed) /\ DOMAIN acks' = 1 .. Len(r)
    BY <2>1, <2>5
  <2> QED
    BY <2>1, <2>3, <2>4, <2>6
<1> QED
  BY <1>3, <1>4

LEMMA AdvanceKeeps ==
  ASSUME FragInv, step = "pop", acks # <<>>, ~Head(acks).freed,
         Head(acks).block = block, Accepted(Head(acks)),
         block + 1 < Count, block' = block + 1, step' = "send",
         acks' = FreeRest(Tail(acks)),
         msg' = msg, back' = back, data' = data, rxFrag' = rxFrag, received' = received
  PROVE  FragInv'
<1>1. /\ Sending /\ Sending' /\ msg \in Msgs /\ block \in Nat /\ Count \in Nat
      /\ rxFrag.cur \in Nat
  BY DEF Sending, FragInv, FragTypes
<1>2. PICK h \in Answers :
        /\ h.block = Head(acks).block /\ h.status = Head(acks).status
        /\ Waiting(h) /\ AckInv(h)
        /\ \A b \in Answers : (\E j \in DOMAIN back : back[j] = b) => Before(h, b)
  BY HeadOfAcks
<1>3. h.status = "success" /\ h.block = block /\ h.status # "complete" /\ h.status # "outOfOrder"
  BY <1>1, <1>2 DEF Accepted
<1>4. DataFrom(block) /\ (rxFrag # NoRx => block <= rxFrag.cur)
  BY <1>2, <1>3 DEF AckInv
<1>5. FragTypes'
  BY SMTT(30), <1>1, FreeRestTypes DEF FragInv, FragTypes
<1>6. ~Got /\ ~Got' /\ (Dead' <=> Dead)
  BY <1>1 DEF FragInv, ReceivedInv, Got, WholeOf, Dead, NoRx
<1>7. DataInv'
  <2>1. ASSUME NEW i \in DOMAIN data PROVE BlockInv(data[i])'
    <3>1. BlockInv(data[i]) /\ data[i].msg = msg /\ data[i].block >= block /\ data[i].block \in Nat
      BY <1>4, PartsOnTheLine DEF FragInv, DataInv, DataFrom
    <3> QED
      BY <1>1, <3>1 DEF BlockInv
  <2> QED
    BY <2>1 DEF FragInv, DataInv, InOrder
<1>8. RxInv'
  BY <1>1, <1>4, <1>6 DEF FragInv, RxInv, DataFrom, NoRx
<1>9. ReceivedInv'
  BY <1>1, <1>6 DEF FragInv, ReceivedInv, WholeOf
<1>10. ASSUME NEW a \in Answers, AckInv(a), Follows(h, a) PROVE AckInv(a)'
  <2>1. a.block \in Nat /\ a.status \in Statuses
    BY DEF Answers
  <2>2. a.status # "complete"
    BY <1>6, <1>10 DEF AckInv
  <2>3. ASSUME a.status = "success" PROVE AckInv(a)'
    BY <1>1, <1>10, <2>1, <2>3 DEF AckInv, DataFrom, NoRx
  <2>4. ASSUME a.status = "outOfOrder" PROVE AckInv(a)'
    <3>1. block >= 1
      BY <1>1, <1>3, <1>10, <2>4 DEF Follows
    <3> QED
      BY <1>1, <1>6, <1>10, <2>4, <3>1 DEF AckInv
  <2> QED
    BY <2>1, <2>2, <2>3, <2>4 DEF Statuses
<1>11. ASSUME NEW a \in Answers, NEW b \in Answers, Follows(h, a), Follows(h, b), Follows(a, b)
       PROVE  Follows(a, b)'
  BY <1>1, <1>3, <1>11 DEF Follows
<1>12. LiveInv'
  BY <1>2, <1>10, <1>11, FreeRestTypes, OthersAreFreed
<1> QED
  BY <1>5, <1>7, <1>8, <1>9, <1>12 DEF FragInv

\* The result is right, too: a message is reported as sent only if received.
LEMMA FinishKeeps ==
  ASSUME FragInv, step = "pop", acks # <<>>, ~Head(acks).freed,
         Head(acks).block = block,
         Accepted(Head(acks)) => block + 1 = Count,
         block' = block, step' = "idle", acks' = <<>>,
         msg' = msg, back' = back, data' = data, rxFrag' = rxFrag, received' = received
  PROVE  FragInv' /\ (Accepted(Head(acks)) => Got)
<1>1. /\ Sending /\ ~Sending' /\ msg \in Msgs /\ block \in Nat /\ Count \in Nat
  BY DEF Sending, FragInv, FragTypes
<1>2. PICK h \in Answers :
        /\ h.block = Head(acks).block /\ h.status = Head(acks).status
        /\ Waiting(h) /\ AckInv(h)
        /\ \A b \in Answers : (\E j \in DOMAIN back : back[j] = b) => Before(h, b)
  BY HeadOfAcks
<1>3. h.block = block /\ h.status \in Statuses
  BY <1>2 DEF Answers
<1>4. \/ h.status = "complete" /\ Got
      \/ h.status = "outOfOrder" /\ block >= 1
  <2>1. h.status # "success"
    BY <1>1, <1>2, <1>3 DEF AckInv, Accepted
  <2> QED
    BY <1>2, <1>3, <2>1 DEF AckInv, Statuses
<1>5. Dead
  BY <1>1, <1>2, <1>4 DEF AckInv, FragInv, ReceivedInv
<1>6. \A a \in Answers : Follows(h, a) => a.status = "outOfOrder"
  BY <1>1, <1>4 DEF Follows
<1>7. FragTypes'
  BY <1>1, FreeRestTypes DEF FragInv, FragTypes
<1>8. Dead' /\ (Got' <=> Got)
  BY <1>5 DEF Dead, NoRx, Got, WholeOf
<1>9. DataInv'
  <2>1. ASSUME NEW i \in DOMAIN data PROVE BlockInv(data[i])'
    <3>1. BlockInv(data[i]) /\ data[i].block >= 1
      BY <1>5 DEF FragInv, DataInv, Dead
    <3> QED
      BY <1>1, <3>1 DEF BlockInv
  <2> QED
    BY <2>1 DEF FragInv, DataInv, InOrder
<1>10. RxInv'
  BY <1>8 DEF RxInv, Dead
<1>11. ReceivedInv'
  BY <1>1, <1>8 DEF FragInv, ReceivedInv, WholeOf
<1>12. ASSUME NEW a \in Answers, AckInv(a), Follows(h, a) PROVE AckInv(a)'
  BY <1>1, <1>6, <1>12 DEF AckInv
<1>13. ASSUME NEW a \in Answers, NEW b \in Answers, Follows(h, a), Follows(h, b), Follows(a, b)
       PROVE  Follows(a, b)'
  BY <1>1, <1>13 DEF Follows
<1>14. LiveInv'
  BY <1>2, <1>12, <1>13, FreeRestTypes, OthersAreFreed
<1>15. Accepted(Head(acks)) => Got
  BY <1>2, <1>4 DEF Accepted
<1> QED
  BY <1>7, <1>9, <1>10, <1>11, <1>14, <1>15 DEF FragInv

LEMMA PopKeeps ==
  ASSUME FragInv, Pop
  PROVE  FragInv'
<1>1. /\ step = "pop" /\ msg' = msg /\ back' = back /\ data' = data
      /\ rxFrag' = rxFrag /\ received' = received
  BY DEF Pop, rxVars
<1>2. CASE acks = <<>> /\ Again /\ UNCHANGED <<acks, readFreed>>
  BY <1>1, <1>2, PopNothingKeeps DEF Again
<1>3. CASE acks # <<>> /\ Head(acks).freed /\ UNCHANGED <<acks, step, block, try, results>>
  BY <1>1, <1>3, PopNothingKeeps
<1>4. CASE /\ acks # <<>> /\ acks' = Tail(acks) /\ step' = "wait"
           /\ UNCHANGED <<readFreed, block, try, results>>
  BY <1>1, <1>4, PopNothingKeeps
<1>5. CASE /\ acks # <<>> /\ ~Head(acks).freed /\ Head(acks).block = block
           /\ IF Accepted(Head(acks)) THEN Advance ELSE Finish("failed")
           /\ acks' = RestOfAcks
  <2>1. CASE block + 1 < Count /\ block' = block + 1 /\ step' = "send" /\ Accepted(Head(acks))
    <3>1. acks' = FreeRest(Tail(acks))
      BY <1>5, <2>1 DEF RestOfAcks
    <3> QED
      BY <1>1, <1>5, <2>1, <3>1, AdvanceKeeps
  <2>2. CASE /\ block' = block /\ step' = "idle"
             /\ Accepted(Head(acks)) => block + 1 = Count
    <3>1. acks' = <<>>
      BY <1>5, <2>2 DEF RestOfAcks
    <3> QED
      BY <1>1, <1>5, <2>2, <3>1, FinishKeeps
  <2> QED
    BY <1>5, <2>1, <2>2 DEF Advance, Finish
<1> QED
  BY <1>2, <1>3, <1>4, <1>5 DEF Pop

\* The receive thread of the sender.
LEMMA AckInKeeps ==
  ASSUME FragInv, AckIn
  PROVE  FragInv'
<1> DEFINE r == [block |-> Head(back).block, status |-> Head(back).status, freed |-> FALSE]
<1>1. /\ back # <<>> /\ back' = Tail(back) /\ acks' = <<r>> \o acks
      /\ step' = step /\ msg' = msg /\ block' = block /\ data' = data
      /\ rxFrag' = rxFrag /\ received' = received
  BY DEF AckIn, txVars, rxVars
<1>2. back \in Seq(Answers) /\ acks \in Seq(Listed)
  BY DEF FragInv, FragTypes
<1>3. /\ back' \in Seq(Answers) /\ Head(back) \in Answers /\ Head(back) = back[1] /\ 1 \in DOMAIN back
      /\ Len(back) \in Nat \ {0} /\ DOMAIN back = 1 .. Len(back)
      /\ DOMAIN back' = 1 .. Len(back) - 1
      /\ \A i \in 1 .. Len(back) - 1 : back'[i] = back[i + 1] /\ i + 1 \in DOMAIN back
  BY <1>1, <1>2, TailOf
<1>4. r \in Listed /\ ~r.freed /\ r.block = back[1].block /\ r.status = back[1].status
  BY <1>3 DEF Answers, Listed
<1> HIDE DEF r
<1>5. /\ acks' \in Seq(Listed) /\ DOMAIN acks' = 1 .. Len(acks) + 1 /\ Len(acks) \in Nat
      /\ DOMAIN acks = 1 .. Len(acks) /\ acks'[1] = r
      /\ \A i \in DOMAIN acks' : i # 1 => acks'[i] = acks[i - 1] /\ i - 1 \in DOMAIN acks
  <2>1. <<r>> \in Seq(Listed) /\ Len(<<r>>) = 1 /\ <<r>>[1] = r
    BY <1>4
  <2> QED
    BY <1>1, <1>2, <2>1
<1>6. Sending' = Sending
  BY <1>1 DEF Sending
<1>7. FragTypes'
  BY <1>1, <1>3, <1>5, <1>6 DEF FragInv, FragTypes
<1>8. \A a, b \in Answers : a.block = b.block /\ a.status = b.status => a = b
  BY DEF Answers
<1>9. ASSUME NEW a \in Answers,
             \E i \in DOMAIN acks' :
               ~acks'[i].freed /\ acks'[i].block = a.block /\ acks'[i].status = a.status
      PROVE  \/ a = back[1]
             \/ \E i \in DOMAIN acks :
                  ~acks[i].freed /\ acks[i].block = a.block /\ acks[i].status = a.status
  <2>1. PICK i \in DOMAIN acks' :
           ~acks'[i].freed /\ acks'[i].block = a.block /\ acks'[i].status = a.status
    BY <1>9
  <2>2. CASE i = 1
    BY <1>3, <1>4, <1>5, <1>8, <2>1, <2>2
  <2>3. CASE i # 1
    BY <1>5, <2>1, <2>3
  <2> QED
    BY <2>2, <2>3
<1>10. ASSUME NEW a \in Answers, \E j \in DOMAIN back' : back'[j] = a
       PROVE  \E j \in DOMAIN back : j > 1 /\ back[j] = a
  <2>1. PICK j \in DOMAIN back' : back'[j] = a
    BY <1>10
  <2>2. j + 1 \in DOMAIN back /\ j + 1 > 1 /\ back[j + 1] = a
    BY <1>3, <2>1
  <2> QED
    BY <2>2
<1>11. ASSUME NEW a \in Answers, Waiting(a)' PROVE Waiting(a)
  BY <1>3, <1>9, <1>10, <1>11 DEF Waiting
<1>12. ASSUME NEW a \in Answers, NEW b \in Answers, Before(a, b)' PROVE Before(a, b)
  <2>1. CASE \E i, j \in DOMAIN back' : i < j /\ back'[i] = a /\ back'[j] = b
    <3>1. PICK i \in DOMAIN back', j \in DOMAIN back' : i < j /\ back'[i] = a /\ back'[j] = b
      BY <2>1
    <3>2. /\ i + 1 \in DOMAIN back /\ j + 1 \in DOMAIN back /\ i + 1 < j + 1
          /\ back[i + 1] = a /\ back[j + 1] = b
      BY <1>3, <3>1
    <3> QED
      BY <3>2 DEF Before
  <2>2. CASE /\ \E i \in DOMAIN acks' :
                  ~acks'[i].freed /\ acks'[i].block = a.block /\ acks'[i].status = a.status
             /\ \E j \in DOMAIN back' : back'[j] = b
    <3>1. PICK j \in DOMAIN back : j > 1 /\ back[j] = b
      BY <1>10, <2>2
    <3>2. CASE a = back[1]
      BY <1>3, <3>1, <3>2 DEF Before
    <3>3. CASE a # back[1]
      BY <1>9, <2>2, <3>1, <3>3 DEF Before
    <3> QED
      BY <3>2, <3>3
  <2> QED
    BY <1>12, <2>1, <2>2 DEF Before
<1>13. /\ DataInv' /\ RxInv' /\ ReceivedInv'
       /\ \A a \in Answers : AckInv(a) => AckInv(a)'
       /\ \A a, b \in Answers : Follows(a, b) => Follows(a, b)'
  BY <1>1, <1>6, <1>7, ConversationStays
<1>14. LiveInv'
  BY <1>11, <1>12, <1>13, LiveKept DEF FragInv
<1> QED
  BY <1>7, <1>13, <1>14 DEF FragInv

LEMMA LoseAckKeeps ==
  ASSUME FragInv, LoseAck
  PROVE  FragInv'
<1>1. /\ back # <<>> /\ back' = Tail(back) /\ acks' = acks
      /\ step' = step /\ msg' = msg /\ block' = block /\ data' = data
      /\ rxFrag' = rxFrag /\ received' = received
  BY DEF LoseAck, txVars, rxVars
<1>2. /\ back' \in Seq(Answers) /\ Len(back) \in Nat \ {0} /\ DOMAIN back = 1 .. Len(back)
      /\ DOMAIN back' = 1 .. Len(back) - 1
      /\ \A i \in 1 .. Len(back) - 1 : back'[i] = back[i + 1] /\ i + 1 \in DOMAIN back
  BY <1>1, TailOf DEF FragInv, FragTypes
<1>3. Sending' = Sending
  BY <1>1 DEF Sending
<1>4. FragTypes'
  BY <1>1, <1>2, <1>3 DEF FragInv, FragTypes
<1>5. ASSUME NEW a \in Answers, Waiting(a)' PROVE Waiting(a)
  BY <1>1, <1>2, <1>5 DEF Waiting
<1>6. ASSUME NEW a \in Answers, NEW b \in Answers, Before(a, b)' PROVE Before(a, b)
  <2>1. CASE \E i, j \in DOMAIN back' : i < j /\ back'[i] = a /\ back'[j] = b
    <3>1. PICK i \in DOMAIN back', j \in DOMAIN back' : i < j /\ back'[i] = a /\ back'[j] = b
      BY <2>1
    <3>2. /\ i + 1 \in DOMAIN back /\ j + 1 \in DOMAIN back /\ i + 1 < j + 1
          /\ back[i + 1] = a /\ back[j + 1] = b
      BY <1>2, <3>1
    <3> QED
      BY <3>2 DEF Before
  <2> QED
    BY <1>1, <1>2, <1>6, <2>1 DEF Before
<1>7. /\ DataInv' /\ RxInv' /\ ReceivedInv'
      /\ \A a \in Answers : AckInv(a) => AckInv(a)'
      /\ \A a, b \in Answers : Follows(a, b) => Follows(a, b)'
  BY <1>1, <1>3, <1>4, ConversationStays
<1>8. LiveInv'
  BY <1>5, <1>6, <1>7, LiveKept DEF FragInv
<1> QED
  BY <1>4, <1>7, <1>8 DEF FragInv

-----------------------------------------------------------------------------
(* The receiver.                                                           *)

\* The block that comes first off the line, and those that follow it.
LEMMA HeadOfData ==
  ASSUME FragInv, data # <<>>
  PROVE  /\ Head(data) \in Parts /\ BlockInv(Head(data)) /\ Head(data) = data[1] /\ 1 \in DOMAIN data
         /\ Head(data).block \in Nat /\ Head(data).count \in Nat /\ Head(data).msg \in Msgs
         /\ Tail(data) \in Seq(Parts)
         /\ \A i \in DOMAIN Tail(data) :
              /\ i + 1 \in DOMAIN data /\ Tail(data)[i] = data[i + 1]
              /\ InOrder(Head(data), Tail(data)[i])
<1>1. data \in Seq(Parts)
  BY DEF FragInv, FragTypes
<1>2. /\ Tail(data) \in Seq(Parts) /\ Head(data) \in Parts /\ Head(data) = data[1] /\ 1 \in DOMAIN data
      /\ Len(data) \in Nat \ {0} /\ DOMAIN data = 1 .. Len(data)
      /\ DOMAIN Tail(data) = 1 .. Len(data) - 1
      /\ \A i \in 1 .. Len(data) - 1 : Tail(data)[i] = data[i + 1] /\ i + 1 \in DOMAIN data
  BY <1>1, TailOf
<1>3. \A i \in DOMAIN Tail(data) : InOrder(Head(data), Tail(data)[i])
  <2> SUFFICES ASSUME NEW i \in DOMAIN Tail(data) PROVE InOrder(data[1], data[i + 1])
    BY <1>2
  <2>1. 1 < i + 1 /\ i + 1 \in DOMAIN data
    BY <1>2
  <2> QED
    BY <1>2, <2>1 DEF FragInv, DataInv
<1>4. BlockInv(Head(data))
  BY <1>2 DEF FragInv, DataInv
<1> QED
  BY <1>2, <1>3, <1>4 DEF Parts

\* What is left on the line.
LEMMA DataShrinks ==
  ASSUME FragInv, data # <<>>, data' = Tail(data),
         step' = step, msg' = msg, block' = block
  PROVE  /\ DataInv' /\ data' \in Seq(Parts) /\ Sending' = Sending
         /\ \A b : DataFrom(b) => DataFrom(b)'
         /\ (\A i \in DOMAIN data : data[i].block >= 1)
              => (\A i \in DOMAIN data' : data'[i].block >= 1)
<1>1. /\ data' \in Seq(Parts) /\ Len(data) \in Nat \ {0} /\ DOMAIN data = 1 .. Len(data)
      /\ DOMAIN data' = 1 .. Len(data) - 1
      /\ \A i \in 1 .. Len(data) - 1 : data'[i] = data[i + 1] /\ i + 1 \in DOMAIN data
  BY TailOf DEF FragInv, FragTypes
<1>2. Sending' = Sending
  BY DEF Sending
<1>3. DataInv'
  <2>1. ASSUME NEW i \in DOMAIN data' PROVE BlockInv(data[i])'
    <3>1. BlockInv(data[i + 1]) /\ data'[i] = data[i + 1]
      BY <1>1 DEF FragInv, DataInv
    <3> QED
      BY <1>2, <3>1 DEF BlockInv
  <2>2. ASSUME NEW i \in DOMAIN data', NEW j \in DOMAIN data', i < j
        PROVE  InOrder(data[i], data[j])'
    <3>1. /\ i + 1 \in DOMAIN data /\ j + 1 \in DOMAIN data /\ i + 1 < j + 1
          /\ data'[i] = data[i + 1] /\ data'[j] = data[j + 1]
      BY <1>1, <2>2
    <3>2. InOrder(data[i + 1], data[j + 1])
      BY <3>1 DEF FragInv, DataInv
    <3> QED
      BY <3>1, <3>2 DEF InOrder
  <2> QED
    BY <2>1, <2>2 DEF DataInv
<1>4. ASSUME NEW b, DataFrom(b) PROVE DataFrom(b)'
  BY <1>1, <1>4 DEF DataFrom
<1>5. (\A i \in DOMAIN data : data[i].block >= 1)
        => (\A i \in DOMAIN data' : data'[i].block >= 1)
  BY <1>1
<1> QED
  BY <1>1, <1>2, <1>3, <1>4, <1>5

\* Blocks disappear, and with them perhaps what the receiver has of a message.
LEMMA LessIsKnown ==
  ASSUME FragInv, data # <<>>, data' = Tail(data), step' = step, msg' = msg, block' = block,
         received' = received, rxFrag' \in {rxFrag, NoRx}
  PROVE  /\ DataInv' /\ RxInv' /\ ReceivedInv' /\ data' \in Seq(Parts) /\ Sending' = Sending
         /\ rxFrag' \in [cur : Nat, count : Nat, parts : Seq(Msgs)]
         /\ \A a \in Answers : AckInv(a) => AckInv(a)'
         /\ \A a, b \in Answers : Follows(a, b) => Follows(a, b)'
<1>1. /\ DataInv' /\ data' \in Seq(Parts) /\ Sending' = Sending
      /\ \A b : DataFrom(b) => DataFrom(b)'
      /\ (\A i \in DOMAIN data : data[i].block >= 1)
           => (\A i \in DOMAIN data' : data'[i].block >= 1)
  BY DataShrinks
<1>2. (Got' <=> Got) /\ (Dead => Dead')
  BY <1>1 DEF Got, WholeOf, Dead, NoRx
<1>3. rxFrag' \in [cur : Nat, count : Nat, parts : Seq(Msgs)]
  <2>1. NoRx \in [cur : Nat, count : Nat, parts : Seq(Msgs)]
    BY DEF NoRx
  <2> QED
    BY <2>1 DEF FragInv, FragTypes
<1>4. rxFrag' # NoRx' => rxFrag' = rxFrag /\ rxFrag # NoRx
  BY DEF NoRx
<1>5. RxInv'
  BY <1>1, <1>2, <1>4 DEF FragInv, RxInv, DataFrom
<1>6. ReceivedInv'
  BY <1>1, <1>2 DEF FragInv, ReceivedInv, WholeOf
<1>7. ASSUME NEW a \in Answers, AckInv(a) PROVE AckInv(a)'
  <2>1. (rxFrag # NoRx => a.block <= rxFrag.cur) => (rxFrag' # NoRx' => a.block <= rxFrag'.cur)
    BY <1>4
  <2> QED
    BY <1>1, <1>2, <1>4, <1>7, <2>1 DEF AckInv
<1>8. ASSUME NEW a \in Answers, NEW b \in Answers, Follows(a, b) PROVE Follows(a, b)'
  BY <1>1, <1>8 DEF Follows
<1> QED
  BY <1>1, <1>3, <1>5, <1>6, <1>7, <1>8

LEMMA LoseDataKeeps ==
  ASSUME FragInv, LoseData
  PROVE  FragInv'
<1>1. /\ data # <<>> /\ data' = Tail(data) /\ step' = step /\ msg' = msg /\ block' = block
      /\ received' = received /\ rxFrag' = rxFrag /\ back' = back /\ acks' = acks
  BY DEF LoseData, txVars, rxVars
<1>2. /\ DataInv' /\ RxInv' /\ ReceivedInv' /\ data' \in Seq(Parts) /\ Sending' = Sending
      /\ \A a \in Answers : AckInv(a) => AckInv(a)'
      /\ \A a, b \in Answers : Follows(a, b) => Follows(a, b)'
  BY <1>1, LessIsKnown
<1>3. FragTypes'
  BY <1>1, <1>2 DEF FragInv, FragTypes
<1>4. /\ \A a \in Answers : Waiting(a)' => Waiting(a)
      /\ \A a, b \in Answers : Before(a, b)' => Before(a, b)
  BY <1>1 DEF Waiting, Before
<1>5. LiveInv'
  BY <1>2, <1>4, LiveKept DEF FragInv
<1> QED
  BY <1>2, <1>3, <1>5 DEF FragInv

LEMMA UnwantedBlockKeeps ==
  ASSUME FragInv, DataIn, rxFrag = NoRx, Head(data).block # 0
  PROVE  FragInv'
<1> DEFINE d == Head(data)
           refusal == [block |-> d.block, status |-> "outOfOrder"]
<1>1. /\ data # <<>> /\ data' = Tail(data) /\ step' = step /\ msg' = msg /\ block' = block
      /\ received' = received /\ rxFrag' = rxFrag /\ back' = Append(back, refusal) /\ acks' = acks
  BY DEF DataIn, FirstBlock, Ack, txVars, rxVars
<1>2. /\ d \in Parts /\ BlockInv(d) /\ d = data[1] /\ 1 \in DOMAIN data /\ d.block \in Nat
      /\ d.msg \in Msgs /\ d.block >= 1
  BY <1>1, HeadOfData
<1>3. PICK n \in Answers : n = refusal /\ n.status = "outOfOrder" /\ n.block >= 1
  <2>1. refusal \in Answers /\ refusal.status = "outOfOrder" /\ refusal.block >= 1
    BY <1>2 DEF Answers, Statuses
  <2> QED
    BY <2>1
<1> HIDE DEF d, refusal
<1>4. /\ DataInv' /\ RxInv' /\ ReceivedInv' /\ data' \in Seq(Parts) /\ Sending' = Sending
      /\ \A a \in Answers : AckInv(a) => AckInv(a)'
      /\ \A a, b \in Answers : Follows(a, b) => Follows(a, b)'
  BY <1>1, LessIsKnown
<1>5. back' \in Seq(Answers)
  BY <1>1, <1>3, Appended DEF FragInv, FragTypes
<1>6. FragTypes'
  BY <1>1, <1>4, <1>5 DEF FragInv, FragTypes
<1>7. ASSUME Sending, block >= 1 PROVE Dead'
  <2> SUFFICES ASSUME NEW i \in DOMAIN data' PROVE data'[i].block >= 1
    BY <1>1 DEF Dead, NoRx
  <2>1. d.msg = msg
    BY <1>2, <1>7 DEF BlockInv
  <2>2. InOrder(d, data'[i]) /\ i \in DOMAIN Tail(data)
    BY <1>1, HeadOfData DEF d
  <2>3. data'[i] = data[i + 1] /\ i + 1 \in DOMAIN data
    BY <1>1, HeadOfData
  <2>4. data[i + 1].msg = msg /\ data[i + 1].block \in Nat
    BY <1>7, <2>3, PartsOnTheLine DEF FragInv, DataInv, BlockInv
  <2>5. msg \in Nat
    BY <1>2, <2>1
  <2> QED
    BY <1>2, <2>1, <2>2, <2>3, <2>4, <2>5 DEF InOrder
<1>8. AckInv(n)'
  BY <1>1, <1>3, <1>4, <1>7 DEF AckInv
<1>9. ASSUME NEW a \in Answers, AckInv(a) PROVE Follows(a, n)'
  <2>1. ~ (Sending /\ block = 0 /\ a.status = "success")
    <3> SUFFICES ASSUME Sending, block = 0, a.status = "success" PROVE FALSE
      OBVIOUS
    <3>1. d.msg = msg
      BY <1>2, <1>9 DEF AckInv, DataFrom
    <3> QED
      BY <1>2, <3>1 DEF BlockInv
  <2> QED
    BY <1>1, <1>3, <1>4, <2>1 DEF Follows
<1>10. LiveInv'
  BY <1>1, <1>3, <1>4, <1>8, <1>9, LiveGrows DEF FragInv
<1> QED
  BY <1>4, <1>6, <1>10 DEF FragInv

LEMMA FirstBlockKeeps ==
  ASSUME SeveralBlocks, FragInv, DataIn, rxFrag = NoRx, Head(data).block = 0
  PROVE  FragInv' /\ received' = received
<1> DEFINE d == Head(data)
           n == [block |-> 0, status |-> "success"]
<1>1. /\ data # <<>> /\ data' = Tail(data) /\ step' = step /\ msg' = msg /\ block' = block
      /\ received' = received /\ acks' = acks
      /\ rxFrag' = [cur |-> 0, count |-> d.count, parts |-> <<d.msg>>]
      /\ back' = Append(back, [block |-> 0,
                               status |-> IF 0 + 1 = d.count THEN "complete" ELSE "success"])
  BY DEF DataIn, FirstBlock, Ack, AckBlock, txVars, rxVars
<1>2. /\ d \in Parts /\ BlockInv(d) /\ d = data[1] /\ 1 \in DOMAIN data /\ d.block = 0
      /\ d.msg \in Msgs
  BY <1>1, HeadOfData
<1>3. n \in Answers /\ n.status = "success" /\ n.block = 0
  BY DEF Answers, Statuses
<1> HIDE DEF d
<1>4. Sending /\ d.msg = msg /\ msg \in Msgs /\ d.count = Count /\ Count > 1 /\ Count \in Nat
      /\ msg \in Nat /\ block \in Nat /\ block <= 1
  <2>1. Sending /\ ~ (d.msg < msg) /\ d.msg <= msg /\ msg \in Nat /\ block \in Nat
    BY SMTT(30), <1>2 DEF BlockInv, FragInv, FragTypes
  <2>2. d.msg = msg
    BY <1>2, <2>1
  <2> QED
    BY <1>2, <2>1, <2>2 DEF BlockInv, SeveralBlocks
<1>5. back' = Append(back, n)
  BY <1>1, <1>4
<1> HIDE DEF n
<1>6. /\ DataInv' /\ data' \in Seq(Parts) /\ Sending' = Sending
      /\ \A b : DataFrom(b) => DataFrom(b)'
  BY <1>1, DataShrinks
<1>7. back' \in Seq(Answers)
  BY <1>3, <1>5, Appended DEF FragInv, FragTypes
<1>8. rxFrag' \in [cur : Nat, count : Nat, parts : Seq(Msgs)] /\ rxFrag'.cur = 0
      /\ rxFrag'.count = Count /\ rxFrag'.parts = <<msg>>
  BY <1>1, <1>4
<1>9. FragTypes'
  BY <1>1, <1>6, <1>7, <1>8 DEF FragInv, FragTypes
<1>10. ~Dead /\ ~Got /\ ~Got'
  <2>1. ~Dead
    BY <1>2 DEF Dead
  <2> QED
    BY <1>1, <2>1 DEF FragInv, ReceivedInv, Got, WholeOf
<1>11. DataFrom(0)'
  <2> SUFFICES ASSUME NEW i \in DOMAIN data' PROVE data'[i].msg = msg /\ data'[i].block >= 0
    BY <1>1 DEF DataFrom
  <2>1. InOrder(d, data'[i]) /\ data'[i] = data[i + 1] /\ i + 1 \in DOMAIN data
    BY <1>1, HeadOfData DEF d
  <2>2. data[i + 1].msg \in Nat /\ data[i + 1].msg <= msg /\ data[i + 1].block \in Nat
    BY <2>1, PartsOnTheLine DEF FragInv, DataInv, BlockInv
  <2> QED
    BY <1>4, <2>1, <2>2 DEF InOrder
<1>12. RxInv'
  <2>1. <<msg>> = [b \in 1 .. 0 + 1 |-> msg]
    BY <1>4
  <2> QED
    BY <1>1, <1>4, <1>6, <1>8, <1>10, <1>11, <2>1 DEF RxInv
<1>13. ReceivedInv'
  BY <1>1, <1>4, <1>6, <1>10 DEF FragInv, ReceivedInv, WholeOf
<1>14. ASSUME NEW a \in Answers, AckInv(a)
       PROVE  a.status # "complete" /\ ~ (block >= 1 /\ a.status = "outOfOrder")
  BY <1>4, <1>10, <1>14 DEF AckInv
<1>15. ASSUME NEW a \in Answers, AckInv(a) PROVE AckInv(a)'
  <2>1. a.block \in Nat /\ a.status \in Statuses
    BY DEF Answers
  <2>2. ASSUME a.status = "success" PROVE AckInv(a)'
    <3>1. DataFrom(a.block) /\ a.block <= 0
      BY <1>2, <1>15, <2>1, <2>2 DEF AckInv, DataFrom
    <3> QED
      BY <1>1, <1>6, <1>8, <1>15, <2>1, <2>2, <3>1 DEF AckInv
  <2>3. ASSUME a.status = "outOfOrder" PROVE AckInv(a)'
    BY <1>1, <1>6, <1>14, <1>15, <2>3 DEF AckInv
  <2> QED
    BY <1>14, <1>15, <2>1, <2>2, <2>3 DEF Statuses
<1>16. AckInv(n)'
  BY <1>1, <1>3, <1>4, <1>6, <1>8, <1>11 DEF AckInv
<1>17. ASSUME NEW a \in Answers, AckInv(a) PROVE Follows(a, n)'
  BY <1>1, <1>3, <1>6, <1>14, <1>17 DEF Follows
<1>18. ASSUME NEW a \in Answers, NEW b \in Answers, Follows(a, b) PROVE Follows(a, b)'
  BY <1>1, <1>6, <1>18 DEF Follows
<1>19. LiveInv'
  BY <1>1, <1>3, <1>5, <1>15, <1>16, <1>17, <1>18, LiveGrows DEF FragInv
<1> QED
  BY <1>1, <1>6, <1>9, <1>12, <1>13, <1>19 DEF FragInv

LEMMA DuplicateKeeps ==
  ASSUME FragInv, DataIn, rxFrag # NoRx, Duplicate(Head(data))
  PROVE  FragInv'
<1>1. /\ data # <<>> /\ data' = Tail(data) /\ step' = step /\ msg' = msg /\ block' = block
      /\ received' = received /\ rxFrag' = NoRx /\ back' = back /\ acks' = acks
  BY DEF DataIn, Duplicate, txVars
<1>2. /\ DataInv' /\ RxInv' /\ ReceivedInv' /\ data' \in Seq(Parts) /\ Sending' = Sending
      /\ rxFrag' \in [cur : Nat, count : Nat, parts : Seq(Msgs)]
      /\ \A a \in Answers : AckInv(a) => AckInv(a)'
      /\ \A a, b \in Answers : Follows(a, b) => Follows(a, b)'
  BY <1>1, LessIsKnown
<1>3. FragTypes'
  BY <1>1, <1>2 DEF FragInv, FragTypes
<1>4. /\ \A a \in Answers : Waiting(a)' => Waiting(a)
      /\ \A a, b \in Answers : Before(a, b)' => Before(a, b)
  BY <1>1 DEF Waiting, Before
<1>5. LiveInv'
  BY <1>2, <1>4, LiveKept DEF FragInv
<1> QED
  BY <1>2, <1>3, <1>5 DEF FragInv

\* What the receiver expects is all that can come.
LEMMA BlockIsNear ==
  ASSUME FragInv, rxFrag # NoRx, data # <<>>
  PROVE  /\ Head(data).msg = msg /\ Head(data).count = rxFrag.count
         /\ Head(data).block = rxFrag.cur \/ Head(data).block = rxFrag.cur + 1
         /\ \A i \in DOMAIN Tail(data) :
              Tail(data)[i].msg = msg /\ Tail(data)[i].block >= Head(data).block
<1>1. /\ BlockInv(Head(data)) /\ Head(data) = data[1] /\ 1 \in DOMAIN data
      /\ Head(data).block \in Nat
  BY HeadOfData
<1>2. /\ Sending /\ rxFrag.count = Count /\ block <= rxFrag.cur + 1 /\ DataFrom(rxFrag.cur)
      /\ rxFrag.cur \in Nat /\ block \in Nat /\ msg \in Nat
  BY DEF FragInv, RxInv, FragTypes
<1>3. Head(data).msg = msg /\ Head(data).block >= rxFrag.cur
  BY <1>1, <1>2 DEF DataFrom
<1>4. Head(data).count = Count /\ Head(data).block <= block
  BY <1>1, <1>3 DEF BlockInv
<1>5. Head(data).block = rxFrag.cur \/ Head(data).block = rxFrag.cur + 1
  BY <1>1, <1>2, <1>3, <1>4
<1>6. ASSUME NEW i \in DOMAIN Tail(data)
      PROVE  Tail(data)[i].msg = msg /\ Tail(data)[i].block >= Head(data).block
  <2>1. /\ i + 1 \in DOMAIN data /\ Tail(data)[i] = data[i + 1]
        /\ InOrder(Head(data), Tail(data)[i])
    BY HeadOfData
  <2>2. data[i + 1].msg = msg /\ data[i + 1].block \in Nat
    BY <1>2, <2>1, PartsOnTheLine DEF DataFrom, FragInv
  <2> QED
    BY <1>1, <1>2, <1>3, <2>1, <2>2 DEF InOrder
<1> QED
  BY <1>2, <1>3, <1>4, <1>5, <1>6

LEMMA OnePartMore ==
  ASSUME NEW m \in Msgs, NEW k \in Nat
  PROVE  /\ Append([b \in 1 .. k + 1 |-> m], m) = [b \in 1 .. k + 2 |-> m]
         /\ Append([b \in 1 .. k + 1 |-> m], m) \in Seq(Msgs)
<1> DEFINE f == [b \in 1 .. k + 1 |-> m]
           g == [b \in 1 .. k + 2 |-> m]
<1>1. f \in Seq(Msgs) /\ Len(f) = k + 1 /\ \A b \in 1 .. k + 1 : f[b] = m
  OBVIOUS
<1>2. g \in Seq(Msgs) /\ Len(g) = k + 2 /\ \A b \in 1 .. k + 2 : g[b] = m
  OBVIOUS
<1> HIDE DEF f, g
<1>3. /\ Append(f, m) \in Seq(Msgs) /\ Len(Append(f, m)) = k + 2
      /\ \A b \in 1 .. k + 2 : Append(f, m)[b] = m
  BY <1>1
<1>4. Append(f, m) = g
  BY SMTT(30), <1>2, <1>3
<1> QED
  BY <1>3, <1>4 DEF f, g

LEMMA NextBlockKeeps ==
  ASSUME FragInv, DataIn, rxFrag # NoRx, NextBlock(Head(data))
  PROVE  /\ FragInv'
         /\ \/ received' = received
            \/ received' = Append(received, WholeOf(msg)) /\ ~Got /\ Sending
<1> DEFINE d == Head(data)
           answer == [block |-> d.block, status |-> IF d.block + 1 = rxFrag.count
                                                    THEN "complete" ELSE "success"]
           parts == Append(rxFrag.parts, d.msg)
<1>1. /\ data # <<>> /\ data' = Tail(data) /\ step' = step /\ msg' = msg /\ block' = block
      /\ acks' = acks /\ d.block = rxFrag.cur + 1 /\ back' = Append(back, answer)
      /\ \/ d.block + 1 = rxFrag.count /\ received' = Append(received, parts) /\ rxFrag' = NoRx
         \/ /\ d.block + 1 # rxFrag.count /\ received' = received
            /\ rxFrag' = [rxFrag EXCEPT !.cur = d.block, !.parts = parts]
  BY DEF DataIn, NextBlock, Ack, AckBlock, txVars
<1>2. /\ d \in Parts /\ BlockInv(d) /\ d.block \in Nat /\ d.msg = msg /\ d.count = Count
      /\ \A i \in DOMAIN Tail(data) : Tail(data)[i].msg = msg /\ Tail(data)[i].block >= d.block
      /\ 1 \in DOMAIN data /\ d = data[1]
  <2>1. /\ d.msg = msg
        /\ \A i \in DOMAIN Tail(data) : Tail(data)[i].msg = msg /\ Tail(data)[i].block >= d.block
    BY <1>1, BlockIsNear
  <2> QED
    BY <1>1, <2>1, HeadOfData DEF BlockInv
<1>3. /\ Sending /\ ~Got /\ rxFrag.count = Count /\ rxFrag.cur + 1 < Count
      /\ rxFrag.parts = [b \in 1 .. rxFrag.cur + 1 |-> msg] /\ block <= rxFrag.cur + 1
      /\ rxFrag.cur \in Nat /\ block \in Nat /\ msg \in Nat /\ msg \in Msgs /\ Count \in Nat
      /\ rxFrag \in [cur : Nat, count : Nat, parts : Seq(Msgs)]
  BY DEF FragInv, RxInv, FragTypes
<1> HIDE DEF d
<1>4. d.block = block /\ block >= 1 /\ d.block < Count
  <2>1. d.block <= block /\ d.block < d.count
    BY <1>2 DEF BlockInv
  <2> QED
    BY <1>1, <1>2, <1>3, <2>1
<1>5. parts = [b \in 1 .. rxFrag.cur + 2 |-> msg] /\ parts \in Seq(Msgs)
  <2>1. parts = Append([b \in 1 .. rxFrag.cur + 1 |-> msg], msg)
    BY <1>2, <1>3
  <2> HIDE DEF parts
  <2> QED
    BY <1>3, <2>1, OnePartMore
<1>6. PICK n \in Answers :
        /\ n = answer /\ n.block = block
        /\ n.status = IF block + 1 = Count THEN "complete" ELSE "success"
  <2>1. /\ answer \in Answers /\ answer.block = block
        /\ answer.status = IF block + 1 = Count THEN "complete" ELSE "success"
    BY <1>2, <1>3, <1>4 DEF Answers, Statuses
  <2> QED
    BY <2>1
<1> HIDE DEF answer, parts
<1>7. /\ DataInv' /\ data' \in Seq(Parts) /\ Sending' = Sending
      /\ \A b : DataFrom(b) => DataFrom(b)'
  BY <1>1, DataShrinks
<1>8. back' \in Seq(Answers)
  BY <1>1, <1>6, Appended DEF FragInv, FragTypes
<1>9. DataFrom(block)' /\ ~Dead /\ \A i \in DOMAIN data' : data'[i].block >= 1
  <2>1. DataFrom(block)' /\ ~Dead
    BY <1>1, <1>2, <1>4 DEF DataFrom, Dead
  <2>2. \A i \in DOMAIN data' : data'[i].block \in Nat /\ data'[i].block >= block
    <3>1. \A i \in DOMAIN data' : data'[i].block >= block
      BY <1>1, <1>2, <1>4
    <3>2. \A i \in DOMAIN data' : data'[i].block \in Nat
      <4>1. \A i \in DOMAIN Tail(data) : Tail(data)[i] = data[i + 1] /\ i + 1 \in DOMAIN data
        BY <1>1, HeadOfData
      <4> QED
        BY <1>1, <4>1, PartsOnTheLine DEF FragInv
    <3> QED
      BY <3>1, <3>2
  <2> QED
    BY <1>3, <1>4, <2>1, <2>2
<1>10. ASSUME NEW a \in Answers, AckInv(a)
       PROVE  a.status = "success" /\ (a.block <= block)
  <2>1. a.status # "complete" /\ a.status # "outOfOrder"
    BY <1>3, <1>4, <1>9, <1>10 DEF AckInv
  <2> QED
    BY <1>10, <2>1 DEF AckInv, Answers, Statuses
<1>11. ASSUME NEW a \in Answers, AckInv(a) PROVE Follows(a, n)'
  BY <1>1, <1>4, <1>10, <1>11 DEF Follows
<1>12. ASSUME NEW a \in Answers, NEW b \in Answers, Follows(a, b) PROVE Follows(a, b)'
  BY <1>1, <1>7, <1>12 DEF Follows
<1>13. CASE block + 1 = Count
  <2>1. received' = Append(received, parts) /\ rxFrag' = NoRx /\ n.status = "complete"
    BY <1>1, <1>3, <1>4, <1>6, <1>13
  <2>2. parts = WholeOf(msg) /\ rxFrag.cur + 2 = Count
    BY SMTT(30), <1>1, <1>3, <1>4, <1>5, <1>13 DEF WholeOf
  <2>3. /\ received' \in Seq(Seq(Msgs)) /\ Len(received) \in Nat
        /\ DOMAIN received = 1 .. Len(received) /\ DOMAIN received' = 1 .. Len(received) + 1
        /\ \A i \in 1 .. Len(received) : received'[i] = received[i]
        /\ received'[Len(received) + 1] = WholeOf(msg)
    <3>1. received \in Seq(Seq(Msgs)) /\ parts \in Seq(Msgs)
      BY <1>5 DEF FragInv, FragTypes
    <3> QED
      BY <2>1, <2>2, <3>1, Appended
  <2>4. NoRx \in [cur : Nat, count : Nat, parts : Seq(Msgs)]
    BY DEF NoRx
  <2>5. FragTypes'
    BY <1>1, <1>7, <1>8, <2>1, <2>3, <2>4 DEF FragInv, FragTypes
  <2>6. Got' /\ Dead'
    <3>1. Dead'
      BY <1>9, <2>1 DEF Dead, NoRx
    <3>2. Len(received) + 1 \in DOMAIN received' /\ WholeOf(msg)' = WholeOf(msg)
      BY <1>1, <2>3 DEF WholeOf
    <3> QED
      BY <2>3, <3>1, <3>2 DEF Got
  <2>7. RxInv'
    BY <2>6 DEF RxInv, Dead
  <2>8. ReceivedInv'
    <3>1. ASSUME NEW i \in DOMAIN received' PROVE \E m \in 1 .. msg : received'[i] = WholeOf(m)
      <4>1. CASE i = Len(received) + 1
        <5>1. msg \in 1 .. msg
          BY <1>3
        <5> QED
          BY <2>3, <4>1, <5>1
      <4>2. CASE i # Len(received) + 1
        <5>1. i \in DOMAIN received /\ received'[i] = received[i]
          BY <2>3, <4>2
        <5> QED
          BY <5>1 DEF FragInv, ReceivedInv
      <4> QED
        BY <4>1, <4>2
    <3>2. \A i \in DOMAIN received' : \E m \in 1 .. msg' : received'[i] = WholeOf(m)'
      BY <1>1, <3>1 DEF WholeOf
    <3> QED
      BY <1>1, <1>13, <2>6, <3>2 DEF ReceivedInv
  <2>9. ASSUME NEW a \in Answers, AckInv(a) PROVE AckInv(a)'
    <3>1. a.status = "success" /\ (Sending /\ a.block <= block /\ a.block + 1 < Count /\ DataFrom(a.block))
      BY <1>10, <2>9 DEF AckInv
    <3>2. rxFrag' = NoRx'
      BY <2>1 DEF NoRx
    <3> QED
      BY <1>1, <1>7, <3>1, <3>2 DEF AckInv
  <2>10. AckInv(n)'
    BY <1>1, <1>3, <1>6, <1>7, <1>13, <2>1, <2>6 DEF AckInv
  <2>11. LiveInv'
    BY <1>1, <1>6, <1>11, <1>12, <2>9, <2>10, LiveGrows DEF FragInv
  <2> QED
    BY <1>3, <1>7, <2>1, <2>2, <2>5, <2>7, <2>8, <2>11 DEF FragInv
<1>14. CASE block + 1 # Count
  <2>1. /\ received' = received /\ rxFrag' = [rxFrag EXCEPT !.cur = d.block, !.parts = parts]
        /\ n.status = "success" /\ block + 1 < Count
    <3>1. n.status = "success" /\ block + 1 < Count
      BY <1>3, <1>4, <1>6, <1>14
    <3>2. d.block + 1 # rxFrag.count
      BY <1>3, <1>4, <1>14
    <3> QED
      BY <1>1, <3>1, <3>2
  <2>2. /\ rxFrag' \in [cur : Nat, count : Nat, parts : Seq(Msgs)]
        /\ rxFrag'.cur = block /\ rxFrag'.count = Count /\ rxFrag'.parts = parts
    BY <1>3, <1>4, <1>5, <2>1
  <2>3. FragTypes'
    BY <1>1, <1>7, <1>8, <2>1, <2>2 DEF FragInv, FragTypes
  <2>4. (Got' <=> Got) /\ ~Got'
    BY <1>1, <1>3, <2>1 DEF Got, WholeOf
  <2>5. RxInv'
    <3>1. parts = [b \in 1 .. block + 1 |-> msg]
      <4>1. rxFrag.cur + 2 = block + 1
        <5>1. rxFrag.cur + 1 = block
          BY <1>1, <1>4
        <5>2. rxFrag.cur \in Nat
          BY <1>3
        <5> QED
          BY <5>1, <5>2
      <4> QED
        BY <1>5, <4>1
    <3> QED
      BY SMTT(30), <1>1, <1>3, <1>7, <1>9, <2>1, <2>2, <2>4, <3>1 DEF RxInv
  <2>6. ReceivedInv'
    BY <1>1, <1>3, <1>7, <2>1, <2>4 DEF FragInv, ReceivedInv, WholeOf
  <2>7. ASSUME NEW a \in Answers, AckInv(a) PROVE AckInv(a)'
    <3>1. a.status = "success" /\ (Sending /\ a.block <= block /\ a.block + 1 < Count /\ DataFrom(a.block))
      BY <1>10, <2>7 DEF AckInv
    <3> QED
      BY <1>1, <1>7, <2>2, <3>1 DEF AckInv
  <2>8. AckInv(n)'
    BY <1>1, <1>3, <1>6, <1>7, <1>9, <2>1, <2>2 DEF AckInv
  <2>9. LiveInv'
    BY <1>1, <1>6, <1>11, <1>12, <2>7, <2>8, LiveGrows DEF FragInv
  <2> QED
    BY <1>7, <2>1, <2>3, <2>5, <2>6, <2>9 DEF FragInv
<1> QED
  BY <1>13, <1>14

LEMMA DataInKeeps ==
  ASSUME SeveralBlocks, FragInv, DataIn
  PROVE  /\ FragInv'
         /\ \/ received' = received
            \/ received' = Append(received, WholeOf(msg)) /\ ~Got /\ Sending
<1>1. CASE rxFrag = NoRx /\ Head(data).block # 0
  <2>1. received' = received
    BY <1>1 DEF DataIn, FirstBlock, rxVars
  <2> QED
    BY <1>1, <2>1, UnwantedBlockKeeps
<1>2. CASE rxFrag = NoRx /\ Head(data).block = 0
  BY <1>2, FirstBlockKeeps
<1>3. CASE rxFrag # NoRx
  <2>1. data # <<>> /\ (Duplicate(Head(data)) \/ Misplaced(Head(data)) \/ NextBlock(Head(data)))
    BY <1>3 DEF DataIn
  <2>2. ~Misplaced(Head(data))
    BY <1>3, <2>1, BlockIsNear DEF Misplaced
  <2>3. CASE Duplicate(Head(data))
    BY <1>3, <2>3, DuplicateKeeps DEF Duplicate
  <2>4. CASE NextBlock(Head(data))
    BY <1>3, <2>4, NextBlockKeeps
  <2> QED
    BY <2>1, <2>2, <2>3, <2>4
<1> QED
  BY <1>1, <1>2, <1>3

LEMMA NextFragInv ==
  ASSUME SeveralBlocks, FragInv, [FragNext]_fragVars
  PROVE  FragInv'
<1>1. CASE UNCHANGED fragVars
  <2>1. /\ data' = data /\ rxFrag' = rxFrag /\ received' = received /\ msg' = msg
        /\ block' = block /\ back' = back /\ acks' = acks /\ step' = step
    BY <1>1 DEF fragVars
  <2>2. Sending' = Sending
    BY <2>1 DEF Sending
  <2>3. FragTypes'
    BY <2>1, <2>2 DEF FragInv, FragTypes
  <2>4. /\ \A a \in Answers : Waiting(a)' => Waiting(a)
        /\ \A a, b \in Answers : Before(a, b)' => Before(a, b)
    BY <2>1 DEF Waiting, Before
  <2>5. /\ DataInv' /\ RxInv' /\ ReceivedInv'
        /\ \A a \in Answers : AckInv(a) => AckInv(a)'
        /\ \A a, b \in Answers : Follows(a, b) => Follows(a, b)'
    BY <2>1, <2>2, <2>3, ConversationStays
  <2>6. LiveInv'
    BY <2>4, <2>5, LiveKept DEF FragInv
  <2> QED
    BY <2>3, <2>5, <2>6 DEF FragInv
<1> QED
  BY <1>1, StartFragKeeps, SendFragKeeps, QuietFragKeeps, PopKeeps, AckInKeeps, DataInKeeps,
     LoseDataKeeps, LoseAckKeeps
  DEF FragNext, FragSenderStep, LineStep

-----------------------------------------------------------------------------
(* The refinement.                                                         *)

LEMMA WholeIsCarried ==
  ASSUME FragInv, NEW i \in DOMAIN received, NEW m \in Msgs
  PROVE  Carried(i) = m <=> received[i] = WholeOf(m)
<1>1. PICK n \in 1 .. msg : received[i] = WholeOf(n)
  BY DEF FragInv, ReceivedInv
<1>2. n \in Msgs
  BY DEF FragInv, FragTypes
<1>3. received[i][1] = n
  <2>1. 1 \in 1 .. Blocks[n]
    BY <1>2
  <2> QED
    BY <1>1, <2>1 DEF WholeOf
<1>4. Carried(i) = n
  BY <1>1, <1>3 DEF Carried, WholeOf
<1> QED
  BY <1>1, <1>2, <1>4, WholeIsOne

Current == IF step = "idle" THEN 0 ELSE msg
Delivered == [i \in DOMAIN received |-> Carried(i)]

\* The new message is none of the earlier ones.
LEMMA NewIsDelivered ==
  ASSUME SeveralBlocks, FragInv, FragInv', msg' = msg, step' = step, UNCHANGED results,
         received' = Append(received, WholeOf(msg)), ~Got, Sending
  PROVE  T!Deliver
<1>1. /\ received \in Seq(Seq(Msgs)) /\ msg \in Msgs /\ WholeOf(msg) \in Seq(Msgs)
  BY DEF FragInv, FragTypes, WholeOf
<1>2. /\ Len(received) \in Nat /\ DOMAIN received = 1 .. Len(received)
      /\ DOMAIN received' = 1 .. Len(received) + 1
      /\ \A i \in 1 .. Len(received) : received'[i] = received[i]
      /\ received'[Len(received) + 1] = WholeOf(msg)
  BY <1>1, Appended
<1>3. \A i \in DOMAIN received : Carried(i) # msg
  BY <1>1, WholeIsCarried DEF Got
<1>4. \A i \in DOMAIN received : Carried(i)' = Carried(i)
  BY <1>2 DEF Carried
<1>5. PICK k \in Nat : k = Len(received) + 1
  BY <1>2
<1>6. Carried(k)' = msg
  <2>1. WholeOf(msg)[1] = msg
    <3>1. 1 \in 1 .. Blocks[msg]
      BY <1>1
    <3> QED
      BY <3>1 DEF WholeOf
  <2>2. received'[k] = WholeOf(msg)
    BY <1>2, <1>5
  <2> QED
    BY <2>1, <2>2 DEF Carried, WholeOf
<1>7. Delivered' = Append(Delivered, msg)
  <2>1. DOMAIN received = 1 .. k - 1 /\ DOMAIN received' = 1 .. k
    BY <1>2, <1>5
  <2>2. Delivered = [i \in 1 .. k - 1 |-> Carried(i)]
    BY <2>1 DEF Delivered
  <2>3. DOMAIN Delivered' = 1 .. k /\ \A i \in 1 .. k : Delivered'[i] = Carried(i)'
    BY <2>1 DEF Delivered
  <2>4. Delivered' = [i \in 1 .. k |-> IF i = k THEN msg ELSE Carried(i)]
    <3>1. Delivered' = [i \in 1 .. k |-> Delivered'[i]]
      BY <2>1 DEF Delivered
    <3>2. \A i \in 1 .. k : Delivered'[i] = IF i = k THEN msg ELSE Carried(i)
      <4>1. \A i \in 1 .. k : i # k => i \in DOMAIN received
        BY <2>1
      <4> QED
        BY <1>4, <1>6, <2>3, <4>1
    <3> QED
      BY <3>1, <3>2
  <2> DEFINE old == [i \in 1 .. k - 1 |-> Carried(i)]
  <2>5. Append(old, msg) = [i \in 1 .. k |-> IF i = k THEN msg ELSE old[i]]
    BY <1>5
  <2> QED
    BY <1>5, <2>2, <2>4, <2>5
<1>8. Current = msg /\ Current' = Current /\ msg # 0
  BY <1>1 DEF Current, Sending
<1>9. \A i \in DOMAIN Delivered : Delivered[i] # Current
  BY <1>3, <1>8 DEF Delivered
<1> QED
  BY <1>8, <1>9, <1>7 DEF T!Deliver, Current, Delivered

LEMMA DeliveredStays ==
  ASSUME received' = received
  PROVE  Delivered' = Delivered
<1>1. \A i \in DOMAIN received : Carried(i)' = Carried(i)
  BY DEF Carried
<1> QED
  BY <1>1 DEF Delivered

\* A message of which the sender is told that it was sent has been received.
LEMMA PopReports ==
  ASSUME FragInv, Pop
  PROVE  \/ UNCHANGED <<Current, results>>
         \/ \E r \in {"sent", "failed"} : T!Report(r)
<1>1. /\ step = "pop" /\ msg' = msg /\ received' = received /\ Delivered' = Delivered
      /\ back' = back /\ data' = data /\ rxFrag' = rxFrag
  BY DeliveredStays DEF Pop, rxVars
<1>2. Current = msg /\ Current # 0 /\ msg \in Msgs
  BY <1>1 DEF Current, FragInv, FragTypes, Sending
<1>3. CASE UNCHANGED results /\ step' # "idle"
  BY <1>1, <1>2, <1>3 DEF Current
<1>4. ASSUME NEW r \in {"sent", "failed"}, acks # <<>>, ~Head(acks).freed,
             Head(acks).block = block, acks' = RestOfAcks, Finish(r),
             Accepted(Head(acks)) => block + 1 = Count, r = "sent" => Accepted(Head(acks))
      PROVE  T!Report(r)
  <2>1. block' = block /\ step' = "idle" /\ acks' = <<>> /\ results' = Append(results, r)
    BY <1>4 DEF Finish, RestOfAcks
  <2>2. r = "sent" => Got
    BY <1>1, <1>4, <2>1, FinishKeeps
  <2>3. Got => \E i \in DOMAIN Delivered : Delivered[i] = Current
    BY <1>2, WholeIsCarried DEF Got, Delivered
  <2>4. Current' = 0
    BY <2>1 DEF Current
  <2> QED
    BY <1>1, <1>2, <2>1, <2>2, <2>3, <2>4 DEF T!Report, Current, Delivered
<1>5. CASE /\ acks # <<>> /\ ~Head(acks).freed /\ Head(acks).block = block
           /\ IF Accepted(Head(acks)) THEN Advance ELSE Finish("failed")
           /\ acks' = RestOfAcks
  BY <1>3, <1>4, <1>5 DEF Advance
<1> QED
  BY <1>1, <1>3, <1>5 DEF Pop, Again

LEMMA FragInvariant ==
  ASSUME SeveralBlocks
  PROVE  FragSpec => []FragInv
<1>1. FragInv /\ [FragNext]_fragVars => FragInv'
  BY NextFragInv
<1> QED
  BY <1>1, InitFragInv, PTL DEF FragSpec

\* Whatever the numbers of blocks, of retries, and of frames that are lost or late: each
\* message is received once at most, whole and with no other's blocks, and only while it
\* is being sent; and none is reported as sent that was not received.
THEOREM EachIsDelivered ==
  ASSUME SeveralBlocks
  PROVE  FragSpec => ImplementsTransfer
<1>1. FragInit => T!Init
  BY DEF FragInit, T!Init
<1>2. FragInv /\ FragInv' /\ [FragNext]_fragVars
        => [T!Next]_<<Current, msg, Delivered, results>>
  <2> SUFFICES ASSUME FragInv, FragInv', [FragNext]_fragVars
               PROVE  [T!Next]_<<Current, msg, Delivered, results>>
    OBVIOUS
  <2>1. CASE Start
    <3>1. /\ step = "idle" /\ step' = "send" /\ msg' = msg + 1 /\ Delivered' = Delivered
          /\ results' = results
      BY <2>1, DeliveredStays DEF Start, rxVars
    <3>2. T!Start
      BY <3>1 DEF T!Start, Current, Delivered
    <3> QED
      BY <3>2 DEF T!Next
  <2>2. CASE Pop
    <3>1. msg' = msg /\ Delivered' = Delivered
      BY <2>2, DeliveredStays DEF Pop, rxVars
    <3> QED
      BY <2>2, <3>1, PopReports DEF T!Next
  <2>3. CASE DataIn
    <3>1. step' = step /\ msg' = msg /\ results' = results
      BY <2>3 DEF DataIn, txVars
    <3>2. CASE received' = received
      BY <3>1, <3>2, DeliveredStays DEF Current
    <3>3. CASE received' = Append(received, WholeOf(msg)) /\ ~Got /\ Sending
      BY <3>1, <3>3, NewIsDelivered DEF T!Next
    <3> QED
      BY <2>3, <3>2, <3>3, DataInKeeps
  <2>4. CASE Send \/ AckWoken \/ AckTimedOut \/ AckIn \/ AckPut \/ LoseData \/ LoseAck
             \/ UNCHANGED fragVars
    <3>1. /\ msg' = msg /\ received' = received /\ results' = results
          /\ step' = step \/ (step \in {"send", "wait"} /\ step' # "idle")
      BY <2>4 DEF Send, AckWoken, AckTimedOut, AckIn, AckPut, LoseData, LoseAck, fragVars,
         rxVars, txVars
    <3> QED
      BY <3>1, DeliveredStays DEF Current
  <2> QED
    BY <2>1, <2>2, <2>3, <2>4 DEF FragNext, FragSenderStep, LineStep
<1> QED
  BY <1>1, <1>2, FragInvariant, PTL DEF FragSpec, ImplementsTransfer, T!Spec, T!vars, Current,
     Delivered


-----------------------------------------------------------------------------
(* The lock and the pending request.                                       *)

Locked == {"post", "tx", "wait", "clear", "check"}
Pended == {"tx", "wait", "clear"}

SenderTypes ==
    /\ pc \in [Senders -> SenderSteps]
    /\ req \in [Senders -> Requests \cup {None}]
    /\ cmd \in Seq(Cmds) /\ Len(cmd) <= MaxReqs
    /\ holder \in Senders \cup {None}
    /\ cur \in Requests \cup {None}

\* Whoever has the lock is where MT_MSG_txrx has it.
HolderIsInside == \A s \in Senders : holder = s <=> pc[s] \in Locked

\* A request is of one thread only, and of those that were called.
RequestsAreOwn ==
    /\ \A s \in Senders : IF pc[s] \in Locked \cup {"lock"}
                          THEN req[s] \in 1..Len(cmd) ELSE req[s] = None
    /\ \A s, t \in Senders : req[s] = req[t] /\ s # t => req[s] = None

\* The pending request is that of whoever has the lock, and only while it is
\* being sent or waited for.
PendingIsOfHolder ==
    cur # None =>
        \E s \in Senders : pc[s] \in Pended /\ cur = req[s]

SInv == SenderTypes /\ HolderIsInside /\ RequestsAreOwn /\ PendingIsOfHolder

\* At the start nobody has the lock and nothing is pending.
LEMMA InitSInv == Init => SInv
  BY MtMsgAssumption
  DEF Init, SInv, SenderTypes, HolderIsInside, RequestsAreOwn, PendingIsOfHolder,
      SenderSteps, Requests, None, Locked, Pended, Cmds

\* The steps of the receive thread and of the co-processor leave the senders
\* alone, and the pending request as it is or cleared.
LEMMA OthersKeepSInv ==
  ASSUME SInv, UNCHANGED senderVars, cur' \in {cur, None}
  PROVE  SInv'
  BY DEF SInv, SenderTypes, HolderIsInside, RequestsAreOwn, PendingIsOfHolder,
         senderVars

\* No step breaks the invariant of the senders.
LEMMA NextSInv == SInv /\ [Next]_vars => SInv'
<1> SUFFICES ASSUME SInv, [Next]_vars PROVE SInv'
  OBVIOUS
<1> USE MtMsgAssumption
<1>1. CASE UNCHANGED vars
  BY <1>1, OthersKeepSInv DEF vars, senderVars
<1>2. ASSUME RxStep \/ RxDies PROVE SInv'
  BY <1>2, OthersKeepSInv
  DEF RxStep, RxDies, RxMessage, RxTest, RxMatch, RxAttach, RxClear, RxPut,
      RxInsert, RxCount
<1>3. ASSUME CopAnswer \/ CopAreq PROVE SInv'
  BY <1>3, OthersKeepSInv DEF CopAnswer, CopAreq
<1> USE DEF SInv, SenderTypes, HolderIsInside, RequestsAreOwn, PendingIsOfHolder,
            SenderSteps, Requests, None, Locked, Pended, Goto
<1>4. ASSUME ListWait \/ ListPop PROVE SInv'
  <2>1. /\ \E p \in {"idle", "pop"} : pc' = [pc EXCEPT ![Main] = p]
        /\ pc[Main] \in {"idle", "pop"} /\ UNCHANGED <<req, cmd, holder, cur>>
    BY <1>4 DEF ListWait, ListPop
  <2> QED
    BY SMTT(30), <2>1
<1>5. ASSUME NEW s \in Senders, NEW c \in Cmds, Call(s, c) PROVE SInv'
  BY <1>5 DEF Call
<1>6. ASSUME NEW s \in Senders, Lock(s) PROVE SInv'
  BY <1>6 DEF Lock
<1>7. ASSUME NEW s \in Senders, LockTimeout(s) PROVE SInv'
  BY <1>7 DEF LockTimeout, Return
<1>8. ASSUME NEW s \in Senders, Post(s) PROVE SInv'
  BY <1>8 DEF Post
<1>9. ASSUME NEW s \in Senders, Tx(s) PROVE SInv'
  BY <1>9 DEF Tx
<1>10. ASSUME NEW s \in Senders, Woken(s) PROVE SInv'
  BY <1>10 DEF Woken
<1>11. ASSUME NEW s \in Senders, TimedOut(s) PROVE SInv'
  BY <1>11 DEF TimedOut
<1>12. ASSUME NEW s \in Senders, ClearCur(s) PROVE SInv'
  BY <1>12 DEF ClearCur
<1>13. ASSUME NEW s \in Senders, Check(s) PROVE SInv'
  BY <1>13 DEF Check, Return
<1> QED
  BY <1>1, <1>2, <1>3, <1>4, <1>5, <1>6, <1>7, <1>8, <1>9, <1>10, <1>11, <1>12, <1>13
  DEF Next, SenderStep

\* The invariant of the senders holds throughout.
LEMMA SendersInvariant == Spec => []SInv
  BY InitSInv, NextSInv, PTL DEF Spec

\* The fatal check of MT_MSG_txrx never fails: two threads clear pCurSreq, and
\* whatever becomes of a request, it is cleared when the lock is given back.
THEOREM NoRequestIsLeftPending == Spec => []NoneIsPending
<1>1. SInv => NoneIsPending
  BY DEF SInv, SenderTypes, HolderIsInside, PendingIsOfHolder, NoneIsPending,
         Locked, Pended
<1> QED
  BY <1>1, SendersInvariant, PTL

-----------------------------------------------------------------------------
(* The list of the main thread.                                            *)

LInv ==
    /\ list \in Seq(Messages)
    /\ listSem \in Nat
    /\ rx \in [step : RxSteps, msg : Messages, ptr : Requests \cup {None}]
    /\ fromCop \in Seq(Messages)
    /\ toCop \in Seq(Requests)
    /\ NothingIsStranded

\* A sequence that has got one more element, or not.
LEMMA AppendOrNot ==
  ASSUME NEW S, NEW q \in Seq(S), NEW e \in S, NEW p \in {Append(q, e), q}
  PROVE  p \in Seq(S)
  OBVIOUS

\* The list is empty at the start.
LEMMA InitLInv == Init => LInv
  BY MtMsgAssumption
  DEF Init, MT_MSG_LIST_create, LInv, NothingIsStranded, RxIdle, RxSteps, Messages, Areq, None, Requests

\* Whoever adds a message to the list counts it next, and whoever takes one off
\* has taken a count, or found none.
LEMMA NextLInv == SInv /\ LInv /\ [Next]_vars => LInv'
<1> SUFFICES ASSUME SInv, LInv, [Next]_vars PROVE LInv'
  OBVIOUS
<1> USE MtMsgAssumption DEF SInv, SenderTypes, LInv, NothingIsStranded, Goto, None,
      SenderSteps
<1>1. CASE UNCHANGED vars
  BY <1>1 DEF vars
<1>2. ASSUME RxMessage PROVE LInv'
  <2>1. Head(fromCop) \in Messages /\ Tail(fromCop) \in Seq(Messages)
    BY <1>2 DEF RxMessage
  <2> QED
    BY <1>2, <2>1 DEF RxMessage, RxSteps, senderVars, listVars
<1>3. ASSUME RxDies \/ RxTest PROVE LInv'
  <2>1. UNCHANGED <<list, listSem, toCop, fromCop, pc>>
    BY <1>3 DEF RxDies, RxTest, senderVars, listVars, copVars
  <2>2. CASE RxDies
    BY <2>1, <2>2 DEF RxDies, RxSteps
  <2>3. CASE RxTest
    <3>1. \E next \in {"insert", "match"} : rx' = [rx EXCEPT !.ptr = cur, !.step = next]
      BY <2>3 DEF RxTest
    <3>2. rx.step = "test"
      BY <2>3 DEF RxTest
    <3> QED
      BY <2>1, <3>1, <3>2 DEF RxSteps
  <2> QED
    BY <1>3, <2>2, <2>3
<1>4. ASSUME RxMatch PROVE LInv'
  <2>1. \/ rx' = [rx EXCEPT !.step = "dead"]
        \/ \E p \in {rx.ptr, cur}, next \in {"attach", "insert"} :
              rx' = [rx EXCEPT !.ptr = p, !.step = next]
    BY <1>4, Zenon DEF RxMatch, Crash
  <2>2. rx.step = "match"
    BY <1>4 DEF RxMatch
  <2>3. /\ rx' \in [step : RxSteps, msg : Messages, ptr : Requests \cup {None}]
        /\ rx'.step # "count"
    <3>1. CASE rx' = [rx EXCEPT !.step = "dead"]
      BY <3>1 DEF RxSteps
    <3>2. ASSUME NEW p \in {rx.ptr, cur}, NEW next \in {"attach", "insert"},
                 rx' = [rx EXCEPT !.ptr = p, !.step = next]
          PROVE  /\ rx' \in [step : RxSteps, msg : Messages, ptr : Requests \cup {None}]
                 /\ rx'.step # "count"
      BY <3>2 DEF RxSteps
    <3> QED
      BY <2>1, <3>1, <3>2
  <2>4. UNCHANGED <<list, listSem, toCop, fromCop, pc>>
    BY <1>4 DEF RxMatch, senderVars, listVars, copVars
  <2> QED
    BY <2>2, <2>3, <2>4
<1>5. ASSUME RxAttach PROVE LInv'
  BY <1>5 DEF RxAttach, Crash, RxSteps, senderVars, listVars, copVars
<1>6. ASSUME RxClear PROVE LInv'
  BY <1>6 DEF RxClear, RxSteps, senderVars, listVars, copVars
<1>7. ASSUME RxPut PROVE LInv'
  BY <1>7 DEF RxPut, RxSteps, RxIdle, Areq, Messages, senderVars, listVars, copVars
<1>8. ASSUME RxInsert PROVE LInv'
  <2>1. /\ rx.step = "insert" /\ list' = Append(list, rx.msg)
        /\ rx' = [rx EXCEPT !.step = "count"]
        /\ UNCHANGED <<listSem, toCop, fromCop, pc>>
    BY <1>8 DEF RxInsert, senderVars, copVars
  <2>2. rx' \in [step : RxSteps, msg : Messages, ptr : Requests \cup {None}]
        /\ rx'.step = "count" /\ rx.msg \in Messages
    BY <2>1 DEF RxSteps
  <2>3. list' \in Seq(Messages) /\ Len(list') = Len(list) + 1 /\ Len(list) \in Nat
    BY <2>1, <2>2
  <2> QED
    BY <2>1, <2>2, <2>3
<1>9. ASSUME RxCount PROVE LInv'
  BY <1>9 DEF RxCount, RxSteps, RxIdle, Areq, Messages, senderVars, listVars, copVars
<1>10. ASSUME ListWait PROVE LInv'
  BY <1>10 DEF ListWait, copVars
<1>11. ASSUME ListPop PROVE LInv'
  <2>1. list # <<>> => Tail(list) \in Seq(Messages) /\ Len(Tail(list)) = Len(list) - 1
    OBVIOUS
  <2>2. Len(<<>>) = 0
    OBVIOUS
  <2> QED
    BY <1>11, <2>1, <2>2 DEF ListPop, copVars
<1>12. ASSUME CopAnswer PROVE LInv'
  <2>1. Head(toCop) \in Requests /\ Tail(toCop) \in Seq(Requests)
    BY <1>12 DEF CopAnswer
  <2>2. Srsp(Head(toCop)) \in Messages
    BY <2>1 DEF Messages
  <2>3. fromCop' \in Seq(Messages) /\ toCop' \in Seq(Requests)
    <3>1. /\ fromCop' \in {Append(fromCop, Srsp(Head(toCop))), fromCop}
          /\ toCop' = Tail(toCop)
      BY <1>12, Zenon DEF CopAnswer
    <3>2. fromCop' \in Seq(Messages)
      BY <2>2, <3>1, AppendOrNot, Zenon
    <3> QED
      BY <2>1, <3>1, <3>2
  <2>4. UNCHANGED <<list, listSem, rx, pc>>
    BY <1>12 DEF CopAnswer, senderVars, listVars
  <2> QED
    BY <2>3, <2>4
<1>13. ASSUME CopAreq PROVE LInv'
  BY <1>13 DEF CopAreq, Areq, Messages, senderVars, listVars
<1>14. ASSUME NEW s \in Senders, NEW c \in Cmds, Call(s, c) PROVE LInv'
  BY <1>14 DEF Call, listVars, copVars
<1>15. ASSUME NEW s \in Senders, Lock(s) \/ LockTimeout(s) \/ Post(s) PROVE LInv'
  BY <1>15 DEF Lock, LockTimeout, Post, Return, listVars, copVars
<1>16. ASSUME NEW s \in Senders, Tx(s) PROVE LInv'
  <2>1. req[s] \in Requests
    BY <1>16 DEF Tx, RequestsAreOwn, Locked, Requests
  <2>2. toCop' \in Seq(Requests)
    <3>1. toCop' \in {Append(toCop, req[s]), toCop}
      BY <1>16, Zenon DEF Tx
    <3> QED
      BY <2>1, <3>1, AppendOrNot, Zenon
  <2>3. pc[s] = "tx" /\ pc' \in {[pc EXCEPT ![s] = "wait"], [pc EXCEPT ![s] = "check"]}
    BY <1>16 DEF Tx
  <2>4. UNCHANGED <<list, listSem, rx, fromCop>>
    BY <1>16 DEF Tx, listVars
  <2> QED
    BY <2>2, <2>3, <2>4
<1>17. ASSUME NEW s \in Senders, Woken(s) \/ TimedOut(s) PROVE LInv'
  BY <1>17 DEF Woken, TimedOut, listVars, copVars
<1>18. ASSUME NEW s \in Senders, ClearCur(s) \/ Check(s) PROVE LInv'
  BY <1>18 DEF ClearCur, Check, Return, listVars, copVars
<1> QED
  BY <1>1, <1>2, <1>3, <1>4, <1>5, <1>6, <1>7, <1>8, <1>9, <1>10, <1>11, <1>12, <1>13,
     <1>14, <1>15, <1>16, <1>17, <1>18
  DEF Next, SenderStep, RxStep

\* The invariant of the list holds throughout.
LEMMA ListInvariant == Spec => []LInv
  BY InitLInv, NextLInv, SendersInvariant, InitSInv, PTL DEF Spec

\* MT_MSG_LIST_insert posts the semaphore after it has released the list, and
\* a wait that ends by its timeout looks at the list all the same: the count may
\* be too high, but never too low.
THEOREM NoMessageIsStranded == Spec => []NothingIsStranded
<1>1. LInv => NothingIsStranded
  BY DEF LInv
<1> QED
  BY <1>1, ListInvariant, PTL

-----------------------------------------------------------------------------
(* Answers.                                                                *)

\* The requests that were sent: each is waited for, or no longer, but will not
\* be waited for anew.
Sent ==
    {q \in 1..Len(cmd) :
        \A s \in Senders : req[s] = q => pc[s] \in {"wait", "clear", "check"}}

Waited == {req[s] : s \in {t \in Senders : pc[t] = "wait"}}

\* What the co-processor and the receive thread say is about those.
SentMessages == {Srsp(q) : q \in Sent} \cup {Areq}

AInv ==
    /\ pSrsp \in [Requests -> Sent \cup {None}]
    /\ toCop \in Seq(Sent)
    /\ fromCop \in Seq(SentMessages)
    /\ rx.msg \in SentMessages
    /\ rx.step \in {"test", "match", "attach"} => rx.msg.re \in Sent
    /\ rx.step \in {"match", "attach"} =>
          rx.ptr # None /\ (rx.msg.re \in Waited => rx.ptr = rx.msg.re)
    /\ \A r \in Requests :
          pSrsp[r] \notin {None, r} => pSrsp[r] \notin Waited

\* A request that was sent stays so, and is not waited for later.
LEMMA SentStays ==
  ASSUME SInv, [Next]_vars
  PROVE  Sent \subseteq Sent' /\ Sent \cap Waited' \subseteq Waited
<1> SUFFICES ASSUME NEW q \in Sent
             PROVE  q \in Sent' /\ (q \in Waited' => q \in Waited)
  OBVIOUS
<1> USE MtMsgAssumption DEF SInv, SenderTypes, HolderIsInside, RequestsAreOwn,
      Sent, Waited, SenderSteps, None, Locked, Goto
<1>1. CASE UNCHANGED senderVars
  BY <1>1 DEF senderVars
<1>2. ASSUME ListWait \/ ListPop PROVE q \in Sent' /\ (q \in Waited' => q \in Waited)
  BY <1>2 DEF ListWait, ListPop
<1>3. ASSUME NEW s \in Senders, NEW c \in Cmds, Call(s, c)
      PROVE  q \in Sent' /\ (q \in Waited' => q \in Waited)
  BY <1>3 DEF Call
<1>4. ASSUME NEW s \in Senders, Lock(s) \/ Post(s)
      PROVE  q \in Sent' /\ (q \in Waited' => q \in Waited)
  <2>1. CASE Lock(s)
    BY SMTT(30), <2>1 DEF Lock
  <2>2. CASE Post(s)
    BY SMTT(30), <2>2 DEF Post
  <2> QED
    BY <1>4, <2>1, <2>2
<1>5. ASSUME NEW s \in Senders, LockTimeout(s) \/ Check(s)
      PROVE  q \in Sent' /\ (q \in Waited' => q \in Waited)
  <2>1. CASE LockTimeout(s)
    BY SMTT(30), <2>1 DEF LockTimeout, Return
  <2>2. CASE Check(s)
    BY SMTT(30), <2>2 DEF Check, Return
  <2> QED
    BY <1>5, <2>1, <2>2
<1>6. ASSUME NEW s \in Senders, Tx(s)
      PROVE  q \in Sent' /\ (q \in Waited' => q \in Waited)
  BY <1>6 DEF Tx
<1>7. ASSUME NEW s \in Senders, Woken(s) \/ TimedOut(s) \/ ClearCur(s)
      PROVE  q \in Sent' /\ (q \in Waited' => q \in Waited)
  BY <1>7 DEF Woken, TimedOut, ClearCur
<1>8. ASSUME RxStep \/ RxDies \/ CopAnswer \/ CopAreq \/ UNCHANGED vars
      PROVE  UNCHANGED senderVars
  BY <1>8 DEF RxStep, RxDies, RxMessage, RxTest, RxMatch, RxAttach, RxClear, RxPut,
              RxInsert, RxCount, CopAnswer, CopAreq, vars, senderVars
<1> QED
  BY <1>1, <1>2, <1>3, <1>4, <1>5, <1>6, <1>7, <1>8 DEF Next, SenderStep

\* With more requests sent there is more to be said about them.
LEMMA SentMessagesStay ==
  ASSUME Sent \subseteq Sent'
  PROVE  SentMessages \subseteq SentMessages'
  BY DEF SentMessages, Srsp, Areq, None

LEMMA SeqMonotonic ==
  ASSUME NEW S, NEW R, S \subseteq R
  PROVE  Seq(S) \subseteq Seq(R)
  OBVIOUS

\* While a request is waited for, pCurSreq is that one or NULL.
LEMMA OnlyWaitedIsPending ==
  ASSUME SInv, NEW q \in Waited, cur # None
  PROVE  cur = q
  BY MtMsgAssumption
  DEF SInv, SenderTypes, HolderIsInside, PendingIsOfHolder, Waited, Locked, Pended, None

\* Nothing was sent at the start.
LEMMA InitAInv == Init => AInv
  BY MtMsgAssumption
  DEF Init, MT_MSG_LIST_create, AInv, RxIdle, SentMessages, Areq, None, Requests

\* Whatever is sent later, what is known stays true while nothing is received.
LEMMA QuietKeepsAInv ==
  ASSUME AInv, Sent \subseteq Sent', Sent \cap Waited' \subseteq Waited,
         UNCHANGED <<pSrsp, rx, fromCop>>, toCop' \in Seq(Sent')
  PROVE  AInv'
<1>1. SentMessages \subseteq SentMessages'
  BY SentMessagesStay
<1>2. fromCop' \in Seq(SentMessages')
  BY <1>1, SeqMonotonic DEF AInv
<1>3. pSrsp' \in [Requests -> Sent' \cup {None}]
  BY DEF AInv
<1>4. \A r \in Requests : pSrsp'[r] \notin {None, r} => pSrsp'[r] \notin Waited'
  BY DEF AInv
<1> QED
  BY <1>1, <1>2, <1>3, <1>4 DEF AInv

\* Only the receive thread attaches answers, and it does so to the request that
\* is waited for if its answer is at hand, whichever read of pCurSreq it uses.
LEMMA NextAInv == SInv /\ LInv /\ AInv /\ [Next]_vars => AInv'
<1> SUFFICES ASSUME SInv, LInv, AInv, [Next]_vars PROVE AInv'
  OBVIOUS
<1>0. /\ Sent \subseteq Sent'
      /\ Sent \cap Waited' \subseteq Waited
      /\ SentMessages \subseteq SentMessages'
  BY SentStays, SentMessagesStay
<1>s. Seq(Sent) \subseteq Seq(Sent') /\ Seq(SentMessages) \subseteq Seq(SentMessages')
  BY <1>0, SeqMonotonic
<1>r. rx \in [step : RxSteps, msg : Messages, ptr : Requests \cup {None}]
  BY DEF LInv
<1>t. toCop \in Seq(Sent') /\ fromCop \in Seq(SentMessages')
      /\ rx.msg \in SentMessages'
  BY <1>0, <1>s DEF AInv
<1>p. /\ pSrsp \in [Requests -> Sent' \cup {None}]
      /\ \A r \in Requests : pSrsp[r] \notin {None, r} => pSrsp[r] \notin Waited'
  BY <1>0 DEF AInv
<1>1. ASSUME NEW s \in Senders,
             \/ \E c \in Cmds : Call(s, c)
             \/ Lock(s) \/ LockTimeout(s) \/ Post(s) \/ Woken(s) \/ TimedOut(s)
             \/ ClearCur(s) \/ Check(s)
      PROVE  AInv'
  <2>1. UNCHANGED <<pSrsp, rx, fromCop, toCop>>
    BY <1>1 DEF Call, Lock, LockTimeout, Post, Woken, TimedOut, ClearCur, Check, copVars
  <2> QED
    BY <1>0, <1>t, <2>1, QuietKeepsAInv
<1>2. ASSUME ListWait \/ ListPop \/ UNCHANGED vars PROVE AInv'
  <2>1. UNCHANGED <<pSrsp, rx, fromCop, toCop>>
    BY <1>2 DEF ListWait, ListPop, copVars, vars
  <2> QED
    BY <1>0, <1>t, <2>1, QuietKeepsAInv
<1>3. ASSUME NEW s \in Senders, Tx(s) PROVE AInv'
  <2>1. UNCHANGED <<pSrsp, rx, fromCop>>
    BY <1>3 DEF Tx
  <2>2. toCop' \in Seq(Sent')
    <3>1. CASE toCop' = toCop
      BY <1>t, <3>1
    <3>2. CASE toCop' # toCop
      <4>1. toCop' = Append(toCop, req[s]) /\ pc[s] = "tx"
        BY <1>3, <3>2, Zenon DEF Tx
      <4>2. UNCHANGED <<cmd, req>> /\ pc' \in {[pc EXCEPT ![s] = "wait"], [pc EXCEPT ![s] = "check"]}
        BY <1>3 DEF Tx, Goto
      <4>3. req[s] \in Sent'
        BY <4>1, <4>2, MtMsgAssumption
        DEF Sent, SInv, SenderTypes, RequestsAreOwn, Locked, None
      <4> QED
        BY <1>t, <4>1, <4>3, AppendOrNot
    <3> QED
      BY <3>1, <3>2
  <2> QED
    BY <1>0, <2>1, <2>2, QuietKeepsAInv
<1>4. ASSUME CopAnswer PROVE AInv'
  <2>1. toCop # <<>> /\ toCop' = Tail(toCop)
        /\ fromCop' \in {Append(fromCop, Srsp(Head(toCop))), fromCop}
        /\ UNCHANGED <<pSrsp, rx>>
    BY <1>4, Zenon DEF CopAnswer
  <2>2. Head(toCop) \in Sent' /\ Tail(toCop) \in Seq(Sent')
    BY <1>t, <2>1
  <2>3. Srsp(Head(toCop)) \in SentMessages'
    BY <2>2 DEF SentMessages
  <2>4. fromCop' \in Seq(SentMessages')
    BY <1>t, <2>1, <2>3, AppendOrNot
  <2> QED
    BY <1>0, <1>t, <1>p, <2>1, <2>2, <2>4 DEF AInv
<1>5. ASSUME CopAreq PROVE AInv'
  <2>1. fromCop' = Append(fromCop, Areq) /\ UNCHANGED <<pSrsp, rx, toCop>>
    BY <1>5 DEF CopAreq
  <2>2. Areq \in SentMessages'
    BY DEF SentMessages
  <2>3. fromCop' \in Seq(SentMessages')
    BY <1>t, <2>1, <2>2, AppendOrNot
  <2> QED
    BY <1>0, <1>t, <1>p, <2>1, <2>3 DEF AInv
<1>6. ASSUME RxMessage PROVE AInv'
  <2>1. /\ fromCop # <<>> /\ fromCop' = Tail(fromCop)
        /\ rx' = [rx EXCEPT !.msg = Head(fromCop),
                            !.step = IF Head(fromCop).kind = "srsp" THEN "test"
                                     ELSE "insert"]
        /\ UNCHANGED <<pSrsp, toCop>>
    BY <1>6 DEF RxMessage
  <2>2. Head(fromCop) \in SentMessages' /\ Tail(fromCop) \in Seq(SentMessages')
    BY <1>t, <2>1
  <2>3. Head(fromCop).kind = "srsp" => Head(fromCop).re \in Sent'
    BY <2>2 DEF SentMessages, Srsp, Areq
  <2>4. rx'.msg = Head(fromCop) /\ rx'.step = IF Head(fromCop).kind = "srsp" THEN "test" ELSE "insert"
    BY <1>r, <2>1
  <2> QED
    BY <1>t, <1>p, <2>1, <2>2, <2>3, <2>4 DEF AInv
<1>7. ASSUME RxTest PROVE AInv'
  <2>1. /\ rx'.msg = rx.msg /\ rx'.ptr = cur
        /\ rx'.step = IF cur = None THEN "insert" ELSE "match"
        /\ rx.step = "test"
        /\ UNCHANGED <<pSrsp, toCop, fromCop>>
    BY <1>7, <1>r DEF RxTest, copVars
  <2>2. rx.msg.re \in Sent
    BY <2>1 DEF AInv
  <2>3. cur # None /\ rx.msg.re \in Waited' => cur = rx.msg.re
    BY <1>0, <2>2, OnlyWaitedIsPending
  <2> QED
    BY <1>0, <1>t, <1>p, <2>1, <2>2, <2>3 DEF AInv
<1>8. ASSUME RxMatch PROVE AInv'
  <2>1. rx.step = "match" /\ UNCHANGED <<pSrsp, toCop, fromCop>>
    BY <1>8 DEF RxMatch, copVars
  <2>2. rx.msg.re \in Sent /\ (rx.msg.re \in Waited => rx.ptr = rx.msg.re)
    BY <2>1 DEF AInv
  <2>3. CASE rx' = [rx EXCEPT !.step = "dead"]
    <3>1. rx'.msg = rx.msg /\ rx'.step = "dead"
      BY <1>r, <2>3
    <3> QED
      BY <1>t, <1>p, <2>1, <3>1 DEF AInv
  <2>4. ASSUME NEW p \in {rx.ptr, cur}, NEW next \in {"attach", "insert"}, p # None,
               rx' = [rx EXCEPT !.ptr = p, !.step = next]
        PROVE  AInv'
    <3>1. rx'.msg = rx.msg /\ rx'.ptr = p /\ rx'.step = next
      BY <1>r, <2>4
    <3>2. rx.msg.re \in Waited' => p = rx.msg.re
      BY <1>0, <2>2, <2>4, OnlyWaitedIsPending
    <3> QED
      BY <1>0, <1>t, <1>p, <2>1, <2>2, <2>4, <3>1, <3>2 DEF AInv
  <2>5. \/ rx' = [rx EXCEPT !.step = "dead"]
        \/ \E p \in {rx.ptr, cur}, next \in {"attach", "insert"} :
              p # None /\ rx' = [rx EXCEPT !.ptr = p, !.step = next]
    BY <1>8, Zenon DEF RxMatch, Crash
  <2> QED
    BY <2>3, <2>4, <2>5
<1>9. ASSUME RxAttach PROVE AInv'
  <2>1. rx.step = "attach" /\ UNCHANGED <<toCop, fromCop>>
    BY <1>9 DEF RxAttach, copVars
  <2>2. rx.msg.re \in Sent /\ (rx.msg.re \in Waited => rx.ptr = rx.msg.re)
    BY <2>1 DEF AInv
  <2>3. rx'.msg = rx.msg /\ rx'.step \in {"dead", "clear"}
    BY <1>9, <1>r DEF RxAttach, Crash
  <2>4. CASE pSrsp' = pSrsp
    BY <1>t, <1>p, <2>1, <2>3, <2>4 DEF AInv
  <2>5. ASSUME NEW p \in {rx.ptr, cur}, p # None,
               pSrsp' = [pSrsp EXCEPT ![p] = rx.msg.re]
        PROVE  AInv'
    <3>1. rx.msg.re \in Waited' => p = rx.msg.re
      BY <1>0, <2>2, <2>5, OnlyWaitedIsPending
    <3>2. pSrsp' \in [Requests -> Sent' \cup {None}]
      BY <1>0, <1>p, <2>2, <2>5
    <3>3. \A r \in Requests : pSrsp'[r] \notin {None, r} => pSrsp'[r] \notin Waited'
      BY <1>p, <2>5, <3>1
    <3> QED
      BY <1>t, <2>1, <2>3, <3>2, <3>3 DEF AInv
  <2>6. \/ pSrsp' = pSrsp
        \/ \E p \in {rx.ptr, cur} :
              p # None /\ pSrsp' = [pSrsp EXCEPT ![p] = rx.msg.re]
    BY <1>9, Zenon DEF RxAttach
  <2> QED
    BY <2>4, <2>5, <2>6
<1>10. ASSUME RxDies \/ RxClear \/ RxInsert PROVE AInv'
  <2>1. rx'.msg = rx.msg /\ rx'.step \in {"dead", "put", "count"}
        /\ UNCHANGED <<pSrsp, toCop, fromCop>>
    BY <1>10, <1>r DEF RxDies, RxClear, RxInsert, copVars
  <2> QED
    BY <1>t, <1>p, <2>1 DEF AInv
<1>11. ASSUME RxPut \/ RxCount PROVE AInv'
  <2>1. rx' = RxIdle /\ UNCHANGED <<pSrsp, toCop, fromCop>>
    BY <1>11 DEF RxPut, RxCount, copVars
  <2>2. rx'.msg \in SentMessages' /\ rx'.step = "read"
    BY <2>1 DEF RxIdle, SentMessages
  <2> QED
    BY <1>t, <1>p, <2>1, <2>2 DEF AInv
<1> QED
  BY <1>1, <1>2, <1>3, <1>4, <1>5, <1>6, <1>7, <1>8, <1>9, <1>10, <1>11
  DEF Next, SenderStep, RxStep

\* The invariant of the answers holds throughout.
LEMMA AnswersInvariant == Spec => []AInv
  BY InitAInv, NextAInv, SendersInvariant, ListInvariant, PTL DEF Spec

\* Whatever the receive thread reads of pCurSreq and when, and however late an
\* answer comes, it is never attached to another request while the one it
\* answers is waited for.
THEOREM NoAnswerIsStolen == Spec => []AnswersAreNotStolen
<1>1. AInv => AnswersAreNotStolen
  BY DEF AInv, Waited, AnswersAreNotStolen
<1> QED
  BY <1>1, AnswersInvariant, PTL

-----------------------------------------------------------------------------
(* Errors.                                                                 *)

Answering == {"test", "match", "attach"}

\* The answer to a request is due while its thread waits and nothing has come.
Due(q) ==
    /\ cur = q /\ pSrsp[q] = None
    /\ sem = 0 /\ rx.step \notin {"clear", "put"}
    /\ \E s \in Senders : pc[s] = "wait" /\ req[s] = q

\* Where an answer is on its way: with the co-processor, on the line, with the
\* receive thread.
AtCop == {i \in DOMAIN toCop : cmd[toCop[i]] \in Sreqs}
Coming == {i \in DOMAIN fromCop : fromCop[i].kind = "srsp"}

\* There is one such place at most, and what is there is due.
OneAnswerIsDue ==
    /\ \A i \in AtCop : /\ Due(toCop[i]) /\ rx.step \notin Answering
                        /\ Coming = {} /\ \A j \in AtCop : j = i
    /\ \A i \in Coming : /\ Due(fromCop[i].re) /\ rx.step \notin Answering
                         /\ AtCop = {} /\ \A j \in Coming : j = i
    /\ rx.step \in Answering => Due(rx.msg.re)
    /\ rx.step \in {"match", "attach"} => rx.ptr = rx.msg.re

\* An answer that was attached is told to the thread that waits for it.
OneIsTold ==
    sem > 0 \/ rx.step \in {"clear", "put"} =>
        /\ sem = IF rx.step \in {"clear", "put"} THEN 0 ELSE 1
        /\ \E s \in Senders : pc[s] = "wait" /\ pSrsp[req[s]] = req[s]

\* A request that is being sent is pending.
SentArePending == \A s \in Senders : pc[s] = "tx" => cur = req[s]

FreedAreReturned == freed \subseteq 1..Len(cmd) /\ \A s \in Senders : req[s] \notin freed

EInv ==
    /\ sem \in Nat
    /\ pSrsp \in [Requests -> Requests \cup {None}]
    /\ FreedAreReturned
    /\ expired = {} =>
          /\ ~fault
          /\ \A r \in Requests : pSrsp[r] \in {None, r}
          /\ OneAnswerIsDue /\ OneIsTold /\ SentArePending

\* At the start nothing is asked and nobody is answered.
LEMMA InitEInv == Init => EInv
  BY MtMsgAssumption
  DEF Init, MT_MSG_LIST_create, EInv, FreedAreReturned, OneAnswerIsDue, OneIsTold,
      SentArePending, Due, AtCop, Coming, Answering, RxIdle, Areq, None, Requests

\* One thread at most is past the lock.
LEMMA OneIsPastTheLock ==
  ASSUME SInv, NEW s \in Senders, NEW t \in Senders, pc[s] \in Locked, pc[t] \in Locked
  PROVE  s = t
  BY DEF SInv, HolderIsInside

\* What a thread frees as it returns is its own.
LEMMA ReturnFrees ==
  ASSUME SInv, FreedAreReturned, NEW s \in Senders, pc[s] \in {"lock", "check"},
         req' = [req EXCEPT ![s] = None], freed' = freed \cup {req[s]}, cmd' = cmd
  PROVE  FreedAreReturned'
<1> USE MtMsgAssumption DEF SInv, SenderTypes, RequestsAreOwn, Locked, None, FreedAreReturned
<1>1. req[s] \in 1..Len(cmd) /\ req'[s] = None /\ None \notin 1..Len(cmd)
  OBVIOUS
<1>2. ASSUME NEW t \in Senders PROVE req'[t] \notin freed'
  <2>1. CASE t = s
    BY <1>1, <2>1
  <2>2. CASE t # s
    BY <1>1, <2>2
  <2> QED
    BY <2>1, <2>2
<1> QED
  BY <1>1, <1>2

\* While every request has had its answer, no step lets another go astray.
LEMMA NextEInv == SInv /\ LInv /\ AInv /\ EInv /\ [Next]_vars => EInv'
<1> SUFFICES ASSUME SInv, LInv, AInv, EInv, [Next]_vars PROVE EInv'
  OBVIOUS
<1> USE MtMsgAssumption
<1>r. /\ rx \in [step : RxSteps, msg : Messages, ptr : Requests \cup {None}]
      /\ toCop \in Seq(Requests) /\ fromCop \in Seq(Messages)
  BY DEF LInv
<1> DEFINE Hidden == UNCHANGED <<pc, req, cmd, cur, pSrsp, sem, rx, toCop, fromCop, freed, fault>>
<1>0. ASSUME Hidden, expired' = expired PROVE EInv'
  BY <1>0 DEF EInv, FreedAreReturned, OneAnswerIsDue, OneIsTold, SentArePending, Due, AtCop, Coming
<1>1. ASSUME RxCount \/ UNCHANGED vars PROVE EInv'
  <2>1. CASE UNCHANGED vars
    BY <1>0, <2>1 DEF vars
  <2>2. CASE RxCount
    BY <2>2, <1>r DEF RxCount, senderVars, copVars, RxIdle, EInv, FreedAreReturned,
      OneAnswerIsDue, OneIsTold, SentArePending, Due, AtCop, Coming, Answering
  <2> QED BY <1>1, <2>1, <2>2
<1> USE DEF EInv, FreedAreReturned, OneAnswerIsDue, OneIsTold, SentArePending, Due, AtCop, Coming, Answering
<1>2. ASSUME ListWait \/ ListPop PROVE EInv'
  <2>1. pc[Main] # "wait" /\ \E p \in {"idle", "pop"} : pc' = [pc EXCEPT ![Main] = p]
    BY <1>2 DEF ListWait, ListPop, Goto
  <2>2. UNCHANGED <<req, cmd, cur, pSrsp, sem, rx, toCop, fromCop, freed, fault, expired>>
    BY <1>2 DEF ListWait, ListPop, copVars
  <2> QED
    BY <2>1, <2>2 DEF SInv, SenderTypes
<1>3. ASSUME RxDies \/ RxInsert PROVE EInv'
  <2>1. rx.step \notin Answering \cup {"clear", "put"}
        /\ rx'.step \notin Answering \cup {"clear", "put"}
    BY <1>3, <1>r DEF RxDies, RxInsert
  <2>2. UNCHANGED <<pc, req, cmd, cur, pSrsp, sem, toCop, fromCop, freed, fault, expired>>
    BY <1>3 DEF RxDies, RxInsert, senderVars, copVars
  <2> QED
    BY <2>1, <2>2
<1>19. ASSUME RxClear PROVE EInv'
  <2>1. /\ rx.step = "clear" /\ cur' = None /\ rx' = [rx EXCEPT !.step = "put"]
        /\ UNCHANGED <<pc, req, cmd, pSrsp, sem, toCop, fromCop, freed, fault, expired>>
    BY <1>19 DEF RxClear, senderVars, copVars
  <2> SUFFICES ASSUME expired = {} PROVE EInv'
    BY <2>1
  <2>2. PICK s \in Senders : pc[s] = "wait" /\ pSrsp[req[s]] = req[s]
    BY <2>1
  <2>3. \A t \in Senders : pc[t] # "tx"
    BY <2>2, OneIsPastTheLock DEF Locked
  <2> QED
    BY <2>1, <2>2, <2>3, <1>r
<1>20. ASSUME RxPut PROVE EInv'
  BY <1>20, <1>r DEF RxPut, RxIdle, senderVars, copVars, listVars
<1>4. ASSUME RxTest PROVE EInv'
  BY <1>4, <1>r DEF RxTest, senderVars, copVars, listVars
<1>5. ASSUME RxMatch PROVE EInv'
  <2>1. rx.step = "match"
        /\ UNCHANGED <<pc, req, cmd, cur, pSrsp, sem, toCop, fromCop, freed, expired>>
    BY <1>5 DEF RxMatch, senderVars, copVars
  <2> SUFFICES ASSUME expired = {} PROVE EInv'
    BY <2>1
  <2>2. Due(rx.msg.re) /\ rx.ptr = rx.msg.re /\ rx.ptr # None
    BY <2>1 DEF AInv
  <2>3. fault' = fault /\ rx' = [rx EXCEPT !.ptr = rx.msg.re, !.step = "attach"]
    BY <1>5, <2>2 DEF RxMatch
  <2> HIDE DEF Due
  <2>4. \A q \in Requests : Due(q)' <=> Due(q)
    BY <2>1, <2>3, <1>r DEF Due
  <2> QED
    BY <2>1, <2>2, <2>3, <2>4, <1>r
<1>6. ASSUME RxAttach PROVE EInv'
  <2>1. rx.step = "attach"
        /\ UNCHANGED <<pc, req, cmd, cur, sem, toCop, fromCop, freed, expired>>
    BY <1>6 DEF RxAttach, senderVars, copVars
  <2>2. pSrsp' \in [Requests -> Requests \cup {None}] /\ sem \in Nat
    <3>1. /\ rx.msg \in Messages /\ sem \in Nat
          /\ pSrsp \in [Requests -> Requests \cup {None}]
          /\ \/ pSrsp' = pSrsp
             \/ \E p : pSrsp' = [pSrsp EXCEPT ![p] = rx.msg.re]
      BY <1>6, <1>r DEF RxAttach
    <3>2. rx.msg.re \in Requests \cup {None}
      BY <3>1 DEF Messages, Srsp, Areq
    <3> QED
      BY <3>1, <3>2
  <2> SUFFICES ASSUME expired = {} PROVE EInv'
    BY <2>1, <2>2
  <2>3. Due(rx.msg.re) /\ rx.ptr = rx.msg.re /\ rx.ptr # None
    BY <2>1 DEF AInv
  <2>4. rx.msg.re \notin freed
    BY <2>3
  <2>5. /\ pSrsp' = [pSrsp EXCEPT ![rx.msg.re] = rx.msg.re]
        /\ rx' = [rx EXCEPT !.step = "clear"] /\ fault' = fault
    BY <1>6, <2>3, <2>4 DEF RxAttach, Crash
  <2> QED
    BY <2>1, <2>2, <2>3, <2>5, <1>r
<1>7. ASSUME RxMessage PROVE EInv'
  <2>1. /\ rx.step = "read" /\ fromCop # <<>> /\ fromCop' = Tail(fromCop)
        /\ rx' = [rx EXCEPT !.msg = Head(fromCop),
                            !.step = IF Head(fromCop).kind = "srsp" THEN "test"
                                     ELSE "insert"]
        /\ UNCHANGED <<pc, req, cmd, cur, pSrsp, sem, toCop, freed, expired, fault>>
    BY <1>7 DEF RxMessage, senderVars
  <2> HIDE <1>7
  <2> QED
    BY SMTT(60), <2>1, <1>r
<1>8. ASSUME CopAnswer PROVE EInv'
  <2>1. /\ toCop # <<>> /\ toCop' = Tail(toCop)
        /\ UNCHANGED <<pc, req, cmd, cur, pSrsp, sem, rx, freed, fault, expired>>
    BY <1>8 DEF CopAnswer, senderVars
  <2>4. ASSUME NEW i \in AtCop'
        PROVE  i + 1 \in AtCop /\ i + 1 # 1 /\ toCop'[i] = toCop[i + 1]
    <3>1. i \in 1..Len(Tail(toCop)) /\ cmd[Tail(toCop)[i]] \in Sreqs
      BY <2>1, <1>r
    <3>2. i + 1 \in 1..Len(toCop) /\ toCop[i + 1] = Tail(toCop)[i] /\ i + 1 # 1
      BY <2>1, <3>1, <1>r
    <3> QED
      BY <2>1, <3>1, <3>2, <1>r
  <2>5. \A q : Due(q) => Due(q)'
    BY <2>1
  <2>6. (OneIsTold => OneIsTold') /\ (SentArePending => SentArePending')
        /\ FreedAreReturned'
    BY <2>1
  <2>2. CASE fromCop' = fromCop
    <3> SUFFICES ASSUME expired = {} PROVE EInv'
      BY <2>1
    <3>1. Coming' = Coming
      BY <2>2
    <3>2. ASSUME NEW i \in AtCop', NEW j \in AtCop' PROVE j = i
      <4>1. i + 1 \in AtCop /\ j + 1 \in AtCop
        BY <2>4
      <4>2. i + 1 = j + 1 /\ i \in Int /\ j \in Int
        BY <4>1, <2>1, <1>r
      <4> QED
        BY <4>2
    <3> HIDE DEF Due, OneIsTold, SentArePending, FreedAreReturned, AtCop, Coming
    <3>3. AtCop = {} => AtCop' = {}
      BY <2>4
    <3>4. OneAnswerIsDue'
      BY <2>1, <2>2, <2>4, <2>5, <3>1, <3>2, <3>3
    <3> QED
      BY <2>1, <2>6, <3>4
  <2>3. CASE /\ cmd[Head(toCop)] \in Sreqs
             /\ fromCop' = Append(fromCop, Srsp(Head(toCop)))
    <3>1. 1 \in AtCop
      BY <2>1, <2>3, <1>r
    <3> SUFFICES ASSUME expired = {} PROVE EInv'
      BY <2>1
    <3>2. Due(toCop[1]) /\ rx.step \notin Answering /\ Coming = {}
          /\ \A j \in AtCop : j = 1
      BY <3>1
    <3>3. toCop[1] \in Requests /\ Head(toCop) = toCop[1]
      BY <2>1, <1>r
    <3>4. AtCop' = {}
      BY <2>4, <3>2
    <3>5. Coming' = {Len(fromCop) + 1}
      BY <2>3, <3>2, <3>3, <1>r DEF Srsp
    <3>6. fromCop'[Len(fromCop) + 1].re = toCop[1]
      BY <2>3, <3>3, <1>r DEF Srsp
    <3> HIDE DEF Due, OneIsTold, SentArePending, FreedAreReturned, AtCop, Coming
    <3>7. Due(fromCop'[Len(fromCop) + 1].re)
      BY <3>2, <3>6
    <3>8. OneAnswerIsDue'
      BY <2>1, <2>5, <3>2, <3>4, <3>5, <3>7
    <3> QED
      BY <2>1, <2>6, <3>8
  <2> QED
    BY <1>8, <2>2, <2>3 DEF CopAnswer
<1>9. ASSUME CopAreq PROVE EInv'
  BY SMTT(30), <1>9, <1>r DEF CopAreq, Areq, senderVars, copVars, listVars
<1> USE DEF SInv, SenderTypes, HolderIsInside, RequestsAreOwn, SenderSteps, Locked, Goto, None
<1>10. ASSUME NEW s \in Senders, NEW c \in Cmds, Call(s, c) PROVE EInv'
  <2>1. /\ pc[s] = "idle" /\ pc' = [pc EXCEPT ![s] = "lock"] /\ cmd' = Append(cmd, c)
        /\ req' = [req EXCEPT ![s] = Len(cmd) + 1] /\ Len(cmd) + 1 \in Requests
        /\ UNCHANGED <<cur, pSrsp, sem, rx, toCop, fromCop, freed, fault, expired>>
    BY <1>10 DEF Call, copVars, Requests
  <2>2. \A i \in DOMAIN toCop : toCop[i] \in 1..Len(cmd)
    BY DEF AInv, Sent
  <2>3. AtCop' = AtCop /\ Coming' = Coming
    BY <2>1, <2>2, <1>r
  <2>4. FreedAreReturned'
    BY <2>1
  <2>t. \A t \in Senders : pc[t] \in {"wait", "tx"} <=> pc'[t] \in {"wait", "tx"}
    BY <2>1
  <2>q. \A t \in Senders : pc[t] \in {"wait", "tx"} => pc'[t] = pc[t] /\ req'[t] = req[t]
    BY <2>1
  <2>5. \A q \in 1..Len(cmd) : Due(q) => Due(q)'
    BY <2>1
  <2>6. \A i \in Coming : fromCop[i].re \in 1..Len(cmd)
    BY DEF AInv, SentMessages, Sent, Srsp, Areq
  <2>7. rx.step \in Answering => rx.msg.re \in 1..Len(cmd)
    BY DEF AInv, Sent
  <2>8. (OneIsTold => OneIsTold') /\ (SentArePending => SentArePending')
    <3>1. OneIsTold => OneIsTold'
      BY <2>1, <2>q
    <3>2. SentArePending => SentArePending'
      BY <2>1, <2>t, <2>q
    <3> QED
      BY <3>1, <3>2
  <2> HIDE DEF Due, OneIsTold, SentArePending, FreedAreReturned, AtCop, Coming
  <2>9. OneAnswerIsDue => OneAnswerIsDue'
    <3>1. \A i \in AtCop : toCop[i] \in 1..Len(cmd)
      BY <2>2 DEF AtCop
    <3> QED
      BY <2>1, <2>3, <2>5, <2>6, <2>7, <3>1
  <2> QED
    BY <2>1, <2>4, <2>8, <2>9
<1>11. ASSUME NEW s \in Senders, Lock(s) PROVE EInv'
  <2>1. /\ pc[s] = "lock" /\ pc' = [pc EXCEPT ![s] = "post"]
        /\ UNCHANGED <<req, cmd, cur, pSrsp, sem, rx, toCop, fromCop, freed, fault, expired>>
    BY <1>11 DEF Lock, copVars
  <2>2. \A t \in Senders : pc[t] \in {"wait", "tx"} <=> pc'[t] \in {"wait", "tx"}
    BY <2>1
  <2>3. \A t \in Senders : pc[t] \in {"wait", "tx"} => pc'[t] = pc[t]
    BY <2>1
  <2> QED
    BY <2>1, <2>2, <2>3
<1>12. ASSUME NEW s \in Senders, LockTimeout(s) PROVE EInv'
  <2>1. /\ pc[s] = "lock" /\ pc' = [pc EXCEPT ![s] = "idle"]
        /\ req' = [req EXCEPT ![s] = None] /\ freed' = freed \cup {req[s]}
        /\ UNCHANGED <<cmd, cur, pSrsp, sem, rx, toCop, fromCop, fault, expired>>
    BY <1>12 DEF LockTimeout, Return, copVars
  <2>2. FreedAreReturned'
    BY <2>1, ReturnFrees
  <2>3. \A t \in Senders : pc[t] \in {"wait", "tx"} <=> pc'[t] \in {"wait", "tx"}
    BY <2>1
  <2>4. \A t \in Senders : pc[t] \in {"wait", "tx"} => pc'[t] = pc[t] /\ req'[t] = req[t]
    BY <2>1
  <2>5. \A q : Due(q) => Due(q)'
    BY <2>1, <2>4
  <2>6. OneIsTold => OneIsTold'
    BY <2>1, <2>4
  <2>7. SentArePending => SentArePending'
    BY <2>1, <2>3, <2>4
  <2>8. AtCop' = AtCop /\ Coming' = Coming
    BY <2>1
  <2> HIDE DEF Due, OneIsTold, SentArePending, FreedAreReturned, AtCop, Coming
  <2>9. OneAnswerIsDue => OneAnswerIsDue'
    BY <2>1, <2>5, <2>8
  <2> QED
    BY <2>1, <2>2, <2>6, <2>7, <2>9
<1>13. ASSUME NEW s \in Senders, Post(s) PROVE EInv'
  BY <1>13, <1>r DEF Post, copVars, listVars
<1>14. ASSUME NEW s \in Senders, Tx(s) PROVE EInv'
  <2>1. /\ pc[s] = "tx" /\ req[s] \in Requests
        /\ pc' \in {[pc EXCEPT ![s] = "wait"], [pc EXCEPT ![s] = "check"]}
        /\ UNCHANGED <<req, cmd, pSrsp, sem, rx, fromCop, freed, fault, expired>>
    BY <1>14 DEF Tx, Requests
  <2> SUFFICES ASSUME expired = {} PROVE EInv'
    BY <2>1
  <2>2. \A t \in Senders : pc[t] # "wait"
    BY <2>1
  <2>3. AtCop = {} /\ Coming = {} /\ rx.step \notin Answering
        /\ sem = 0 /\ rx.step \notin {"clear", "put"}
    BY <2>2
  <2>4. CASE toCop' = toCop \/ cmd[req[s]] \notin Sreqs
    <3>1. toCop' \in {toCop, Append(toCop, req[s])}
      BY <1>14 DEF Tx
    <3>2. AtCop' = {}
      <4>1. CASE toCop' = toCop
        BY <2>1, <2>3, <4>1
      <4>2. CASE cmd[req[s]] \notin Sreqs /\ toCop' = Append(toCop, req[s])
        <5>1. ASSUME NEW i \in AtCop' PROVE FALSE
          <6>1. i \in 1..Len(toCop) + 1 /\ cmd[toCop'[i]] \in Sreqs
            BY <2>1, <4>2, <1>r
          <6>2. toCop'[Len(toCop) + 1] = req[s]
            BY <2>1, <4>2, <1>r
          <6>3. i \in 1..Len(toCop) /\ toCop'[i] = toCop[i]
            BY <2>1, <4>2, <6>1, <6>2, <1>r
          <6>4. i \in AtCop
            BY <6>1, <6>3, <1>r
          <6> QED
            BY <2>3, <6>4
        <5> QED
          BY <5>1
      <4> QED
        BY <2>4, <3>1, <4>1, <4>2
    <3>3. \A t \in Senders : pc'[t] # "tx"
      BY <2>1, OneIsPastTheLock
    <3>4. OneIsTold' /\ SentArePending' /\ FreedAreReturned' /\ Coming' = {}
      BY <2>1, <2>3, <3>3
    <3> HIDE DEF Due, OneIsTold, SentArePending, FreedAreReturned, AtCop, Coming
    <3> QED
      BY <2>1, <2>3, <3>2, <3>4
  <2>5. CASE /\ cmd[req[s]] \in Sreqs /\ toCop' = Append(toCop, req[s])
             /\ pc' = [pc EXCEPT ![s] = "wait"] /\ cur' = cur
    <3>1. AtCop' = {Len(toCop) + 1} /\ toCop'[Len(toCop) + 1] = req[s]
      BY <2>1, <2>3, <2>5, <1>r
    <3>2. req[s] \notin Sent
      BY <2>1 DEF Sent
    <3>3. cur = req[s] /\ pSrsp[req[s]] = None
      BY <2>1, <3>2 DEF AInv
    <3>4. Due(req[s])' /\ Coming' = {}
      BY <2>1, <2>3, <2>5, <3>3
    <3>5. \A t \in Senders : pc'[t] # "tx"
      BY <2>1, <2>5, OneIsPastTheLock
    <3>6. OneIsTold' /\ SentArePending' /\ FreedAreReturned'
      BY <2>1, <2>3, <2>5, <3>5
    <3> HIDE DEF Due, OneIsTold, SentArePending, FreedAreReturned, AtCop, Coming
    <3> QED
      BY <2>1, <2>3, <3>1, <3>4, <3>6
  <2> QED
    BY <1>14, <2>4, <2>5 DEF Tx
<1>15. ASSUME NEW s \in Senders, Woken(s) PROVE EInv'
  <2>1. /\ sem > 0 /\ sem' = sem - 1
        /\ pc' = [pc EXCEPT ![s] = "clear"]
        /\ UNCHANGED <<req, cmd, cur, pSrsp, rx, toCop, fromCop, freed, expired, fault>>
    BY <1>15 DEF Woken, copVars, Goto
  <2>2. sem' \in Nat /\ FreedAreReturned' /\ pSrsp' \in [Requests -> Requests \cup {None}]
    BY <2>1
  <2> SUFFICES ASSUME expired = {}
               PROVE  OneAnswerIsDue' /\ OneIsTold' /\ SentArePending'
    BY <2>1, <2>2
  <2>3. sem' = 0 /\ rx.step \notin {"clear", "put"}
    BY <2>1
  <2>4. OneIsTold'
    BY <2>1, <2>3
  <2>5. AtCop' = {} /\ Coming' = {} /\ rx.step \notin Answering
    <3>1. \A q : ~Due(q)
      BY <2>1
    <3>2. AtCop = {} /\ Coming = {} /\ rx.step \notin Answering
      <4> HIDE DEF Due
      <4> QED
        BY <3>1
    <3> QED
      BY <2>1, <3>2
  <2>6. OneAnswerIsDue'
    BY <2>1, <2>5
  <2>7. SentArePending'
    <3>1. pc \in [Senders -> SenderSteps]
      BY DEF SInv, SenderTypes
    <3> QED
      BY <2>1, <3>1
  <2> QED
    BY <2>4, <2>6, <2>7
<1>16. ASSUME NEW s \in Senders, TimedOut(s) PROVE EInv'
  BY <1>16, <1>r DEF TimedOut, copVars, listVars
<1>17. ASSUME NEW s \in Senders, ClearCur(s) PROVE EInv'
  BY <1>17, <1>r DEF ClearCur, copVars, listVars
<1>18. ASSUME NEW s \in Senders, Check(s) PROVE EInv'
  <2>1. /\ pc[s] = "check" /\ pc' = [pc EXCEPT ![s] = "idle"]
        /\ req' = [req EXCEPT ![s] = None] /\ freed' = freed \cup {req[s]}
        /\ expired \subseteq expired'
        /\ UNCHANGED <<cmd, cur, pSrsp, sem, rx, toCop, fromCop, fault>>
    BY <1>18 DEF Check, Return, copVars
  <2>2. FreedAreReturned'
    BY <2>1, ReturnFrees
  <2>3. \A t \in Senders : pc[t] \in {"wait", "tx"} <=> pc'[t] \in {"wait", "tx"}
    BY <2>1
  <2>4. \A t \in Senders : pc[t] \in {"wait", "tx"} => pc'[t] = pc[t] /\ req'[t] = req[t]
    BY <2>1
  <2>5. \A q : Due(q) => Due(q)'
    BY <2>1, <2>4
  <2>6. OneIsTold => OneIsTold'
    BY <2>1, <2>4
  <2>7. SentArePending => SentArePending'
    BY <2>1, <2>3, <2>4
  <2>8. AtCop' = AtCop /\ Coming' = Coming
    BY <2>1
  <2> HIDE DEF Due, OneIsTold, SentArePending, FreedAreReturned, AtCop, Coming
  <2>9. OneAnswerIsDue => OneAnswerIsDue'
    BY <2>1, <2>5, <2>8
  <2> QED
    BY <2>1, <2>2, <2>6, <2>7, <2>9
<1> QED
  BY <1>1, <1>2, <1>3, <1>4, <1>5, <1>6, <1>7, <1>8, <1>9, <1>10, <1>11, <1>12, <1>13,
     <1>14, <1>15, <1>16, <1>17, <1>18, <1>19, <1>20
  DEF Next, SenderStep, RxStep

\* The invariant of the errors holds throughout.
LEMMA ErrorsInvariant == Spec => []EInv
  BY InitEInv, NextEInv, SendersInvariant, ListInvariant, AnswersInvariant, PTL DEF Spec

\* A wrong answer, or a use of memory that was freed, needs a request that has
\* ended without its answer before.
THEOREM NoErrorWithoutTimeout == Spec => []ErrorsNeedTimeouts
<1>1. EInv => ErrorsNeedTimeouts
  BY DEF EInv, ErrorsNeedTimeouts
<1> QED
  BY <1>1, ErrorsInvariant, PTL

=============================================================================
