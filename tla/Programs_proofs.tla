--------------------------- MODULE Programs_proofs ---------------------------
(***************************************************************************)
(* The programs at the ends of the library, for any numbers of publishers, *)
(* connections, runs, launches, clicks and credits: the ingesters (every   *)
(* socket has one holder, a file has no gap but where it loops), the       *)
(* application (runs do not overlap, a restart finds what was last saved), *)
(* and the publish page (credits are conserved, a stop leaves nothing).    *)
(***************************************************************************)
EXTENDS Ingest, GatewayApp, PublishPage, FiniteSetTheorems, FunctionTheorems,
        WellFoundedInduction, TLAPS

-----------------------------------------------------------------------------
(* The ingesters.                                                           *)
(* The queue has the connections that are queued, each once.                *)
QueueOK ==
  /\ queue \in Seq(Conn)
  /\ \A i, j \in DOMAIN queue : queue[i] = queue[j] => i = j
  /\ \A c \in Conn : sock[c].at = "queued" <=> \E i \in DOMAIN queue : queue[i] = c

(* A socket that is let go is as new.                                       *)
FreeIsNew == \A c \in Conn : sock[c].at = "free" => sock[c] = Free

(* The acceptor knows the connection whose handshake it awaits.             *)
AcceptorOK ==
  /\ \A c \in Conn : sock[c].at = "handshake" <=> acceptor = [at |-> "accepting", conn |-> c]
  /\ mode = "multi" => acceptor.at \in {"waiting", "accepting"}

(* Many publishers: a stream reads the socket that gave it its name.        *)
ManyOK ==
  mode = "multi" =>
    /\ \A c \in Conn : sock[c].at \in {"handshake", "open", "closing"} => sock[c].id # NoId
    /\ \A n \in Name : stream[n] # None => sock[stream[n]].id = n /\ sock[stream[n]].at \in {"open", "closing"}
    /\ \A c \in Conn : sock[c].at \in {"open", "closing"} => stream[sock[c].id] = c

(* One ingester: it is busy with the one socket that is open.               *)
OneOK ==
  mode # "multi" =>
    /\ \A n \in Name : n # Default => stream[n] = None
    /\ \A c \in Conn :
         sock[c].at \in {"open", "closing"} =>
           stream[Default] = c /\ acceptor = [at |-> "busy", conn |-> c]

SocketsOK == QueueOK /\ FreeIsNew /\ AcceptorOK /\ ManyOK /\ OneOK

Cc == {NoCc} \cup 0..(CcModulus - 1)

(* Where the counters of a pass start: at none, or at those of the end.     *)
EndCc(f, pid) == CcAfter(f, pid, 0, Played(f), NoCc)
StartCc(f, pid, loops) == IF loops = 0 THEN NoCc ELSE EndCc(f, pid)

(* The counters of the check, and its gaps, are those of the packets of this*)
(* pass; a PID of which none has come yet in it has a gap to its credit.    *)
PidOK(pid) ==
  /\ feed.last[pid] = CcAfter(feed.file, pid, 0, feed.cursor, StartCc(feed.file, pid, feed.loops))
  /\ feed.gaps[pid] <= feed.loops
  /\ (feed.loops # 0 /\ PacketsOf(feed.file, pid, 0, feed.cursor) = {}) => feed.gaps[pid] < feed.loops
  /\ Seamless(feed.file, pid) => feed.gaps[pid] = 0
FeedOK ==
  /\ feed \in [file : Files \cup {<<>>}, cursor : Nat, loops : Nat,
               last : [Pid -> Cc], gaps : [Pid -> Nat]]
  /\ mode = "file" => feed.file \in Files
  /\ feed.cursor <= Len(feed.file) /\ \E k \in Nat : feed.cursor = ChunkPackets * k
  /\ \A pid \in Pid : PidOK(pid)

IInv == TypeOK /\ mode \in Mode /\ SocketsOK /\ FeedOK

-----------------------------------------------------------------------------
(* The remainder is what its equation says.                                 *)
LEMMA RemainderIs ==
  ASSUME NEW M \in Nat \ {0}, NEW q \in Int, NEW r \in 0..(M - 1)
  PROVE  (M * q + r) % M = r
<1> DEFINE n == M * q + r
           p == n \div M
           s == n % M
<1>1. n \in Int /\ p \in Int /\ s \in 0..(M - 1) /\ n = M * p + s
  OBVIOUS
<1>2. ASSUME NEW a \in Int, NEW b \in Int, a > b PROVE M * a >= M * b + M
  <2>1. a - b >= 1
    BY <1>2
  <2>2. M * (a - b) >= M
    BY <2>1
  <2>3. M * (a - b) = M * a - M * b
    OBVIOUS
  <2>4. QED
    BY <2>2, <2>3
<1>3. M * q + r = M * p + s
  BY <1>1
<1>4. M * q \in Int /\ M * p \in Int
  BY <1>1
<1> HIDE DEF n, p, s
<1>5. CASE q > p
  <2>1. M * q >= M * p + M
    BY <1>1, <1>2, <1>5
  <2>2. QED
    BY <1>1, <1>3, <1>4, <2>1
<1>6. CASE p > q
  <2>1. M * p >= M * q + M
    BY <1>1, <1>2, <1>6
  <2>2. QED
    BY <1>1, <1>3, <1>4, <2>1
<1>7. CASE p = q
  BY <1>1, <1>3, <1>4, <1>7 DEF n, s
<1>8. QED
  BY <1>1, <1>5, <1>6, <1>7

(* What is played is the last whole number of messages.                     *)
LEMMA PlayedIs ==
  ASSUME NEW f, Len(f) \in Nat, NEW k \in Nat, ChunkPackets * k <= Len(f)
  PROVE  /\ Played(f) \in Nat /\ ChunkPackets * k <= Played(f) /\ Played(f) <= Len(f)
         /\ Len(f) < ChunkPackets * k + ChunkPackets => Played(f) = ChunkPackets * k
<1> DEFINE M == ChunkPackets
           L == Len(f)
           q == L \div M
           r == L % M
           n == M * k
<1>1. /\ M \in Nat \ {0} /\ L \in Nat /\ q \in Nat /\ r \in 0..(M - 1) /\ L = M * q + r
      /\ n \in Nat /\ n <= L
  BY IngestAssumption
<1>2. M * q = L - r /\ Played(f) = L - r
  BY <1>1 DEF Played
<1>3. n <= M * q
  <2>1. CASE k <= q
    <3>1. q - k \in Nat /\ M * (q - k) \in Nat
      BY <1>1, <2>1
    <3>2. M * (q - k) = M * q - M * k
      BY <1>1
    <3>3. QED
      BY <1>1, <3>1, <3>2
  <2>2. CASE k > q
    <3>1. k - (q + 1) \in Nat /\ M * (k - (q + 1)) \in Nat
      BY <1>1, <2>2
    <3>2. M * (k - (q + 1)) = M * k - M * q - M
      BY <1>1
    <3>3. QED
      BY <1>1, <3>1, <3>2
  <2>3. QED
    BY <1>1, <2>1, <2>2
<1>4. ASSUME L < n + M PROVE r = L - n
  <2>1. PICK s \in 0..(M - 1) : s = L - n /\ L = M * k + s
    BY <1>1, <1>4
  <2>2. (M * k + s) % M = s
    <3>1. M \in Nat \ {0} /\ k \in Int /\ s \in 0..(M - 1)
      BY <1>1
    <3>2. QED
      BY <3>1, RemainderIs, Zenon
  <2>3. QED
    BY <2>1, <2>2
<1> HIDE DEF q, r, n, L
<1>5. Played(f) \in Nat /\ n <= Played(f) /\ Played(f) <= L
  BY <1>1, <1>2, <1>3
<1>6. L < n + M => Played(f) = n
  BY <1>1, <1>2, <1>4
<1>7. QED
  BY <1>5, <1>6 DEF n, L

(* A set of positions that is not empty has a latest one.                   *)
LEMMA LatestIs ==
  ASSUME NEW a \in Nat, NEW b \in Nat, NEW S \in SUBSET ((a + 1)..b), S # {}
  PROVE  Latest(S) \in S /\ \A i \in S : i <= Latest(S)
<1> DEFINE Above == {i..b : i \in S}
           R == StrictSubsetOrdering(Nat)
<1>1. Above \subseteq FiniteSubsetsOf(Nat) /\ Above # {}
  <2>1. \A i \in Nat : i..b \subseteq Nat /\ IsFiniteSet(i..b)
    BY FS_Interval
  <2>2. \A i \in S : i..b \in FiniteSubsetsOf(Nat)
    BY <2>1 DEF FiniteSubsetsOf
  <2>3. QED
    BY <2>2
<1>2. PICK B \in Above : \A C \in Above : <<C, B>> \notin R
  BY <1>1, FS_StrictSubsetOrderingWellFounded, WFMin
<1>3. PICK i \in S : B = i..b
  OBVIOUS
<1>4. ASSUME NEW j \in S, i < j PROVE FALSE
  <2>1. j..b \subseteq i..b /\ i \notin j..b /\ i \in i..b
    BY <1>4
  <2>2. <<j..b, B>> \in R
    BY <1>1, <1>3, <2>1 DEF StrictSubsetOrdering, FiniteSubsetsOf
  <2>3. QED
    BY <1>2, <2>2
<1>5. \A j \in S : j <= i
  BY <1>4
<1>6. QED
  BY <1>5 DEF Latest

LEMMA LatestUnique ==
  ASSUME NEW S \in SUBSET Nat, NEW i \in S, \A j \in S : j <= i
  PROVE  Latest(S) = i
<1>1. Latest(S) \in S /\ \A j \in S : j <= Latest(S)
  BY DEF Latest
<1>2. Latest(S) \in Nat /\ i \in Nat /\ Latest(S) <= i /\ i <= Latest(S)
  BY <1>1
<1>3. QED
  BY <1>2

(* The counter after two parts of a file is that after the whole.           *)
LEMMA CcOfParts ==
  ASSUME NEW f, NEW pid, NEW last, NEW a \in Nat, NEW b \in Nat, NEW c \in Nat, a <= b, b <= c
  PROVE  CcAfter(f, pid, b, c, CcAfter(f, pid, a, b, last)) = CcAfter(f, pid, a, c, last)
<1> DEFINE S1 == PacketsOf(f, pid, a, b)
           S2 == PacketsOf(f, pid, b, c)
           S == PacketsOf(f, pid, a, c)
<1>1. S = S1 \cup S2 /\ S1 \subseteq (a + 1)..b /\ S2 \subseteq (b + 1)..c
  BY DEF PacketsOf
<1>2. /\ CcAfter(f, pid, a, b, last) = IF S1 = {} THEN last ELSE f[Latest(S1)].cc
      /\ CcAfter(f, pid, a, c, last) = IF S = {} THEN last ELSE f[Latest(S)].cc
      /\ \A l : CcAfter(f, pid, b, c, l) = IF S2 = {} THEN l ELSE f[Latest(S2)].cc
  BY DEF CcAfter
<1> HIDE DEF S1, S2, S
<1>3. CASE S2 = {}
  BY <1>1, <1>2, <1>3
<1>4. CASE S2 # {}
  <2>1. Latest(S2) \in S2 /\ \A i \in S2 : i <= Latest(S2)
    BY <1>1, <1>4, LatestIs
  <2>2. (\A i \in (a + 1)..b : i \in Nat /\ i <= b) /\ \A i \in (b + 1)..c : i \in Nat /\ b < i
    OBVIOUS
  <2>3. S1 \subseteq Nat /\ S2 \subseteq Nat /\ \A i \in S1 : i <= Latest(S2)
    <3>1. (\A i \in S1 : i \in Nat /\ i <= b) /\ \A i \in S2 : i \in Nat /\ b < i
      BY <1>1, <2>2, Zenon
    <3>2. Latest(S2) \in Nat /\ b < Latest(S2)
      BY <2>1, <3>1
    <3>3. ASSUME NEW i \in S1 PROVE i <= Latest(S2)
      <4>1. i \in Nat /\ i <= b
        BY <3>1
      <4>2. QED
        BY <3>2, <4>1
    <3>4. QED
      BY <3>1, <3>3
  <2>4. S \subseteq Nat /\ Latest(S2) \in S /\ \A i \in S : i <= Latest(S2)
    BY <1>1, <2>1, <2>3
  <2>5. Latest(S) = Latest(S2)
    BY <2>4, LatestUnique
  <2>6. QED
    BY <1>1, <1>2, <1>4, <2>5
<1>5. QED
  BY <1>3, <1>4

LEMMA CcType ==
  ASSUME NEW f \in Seq(Packet), NEW pid, NEW last \in Cc, NEW a \in Nat, NEW b \in Nat, b <= Len(f)
  PROVE  CcAfter(f, pid, a, b, last) \in Cc
<1> DEFINE S == PacketsOf(f, pid, a, b)
<1>1. CASE S = {}
  BY <1>1 DEF CcAfter
<1>2. CASE S # {}
  <2>1. S \subseteq (a + 1)..b /\ CcAfter(f, pid, a, b, last) = f[Latest(S)].cc
    BY <1>2 DEF PacketsOf, CcAfter
  <2> HIDE DEF S
  <2>2. Latest(S) \in S
    BY <1>2, <2>1, LatestIs
  <2>3. Latest(S) \in 1..Len(f)
    <3>1. (a + 1)..b \subseteq 1..Len(f)
      OBVIOUS
    <3>2. QED
      BY <2>1, <2>2, <3>1, Zenon
  <2>4. f[Latest(S)] \in Packet
    BY <2>3
  <2>5. QED
    BY <2>1, <2>4 DEF Packet, Cc
<1>3. QED
  BY <1>1, <1>2

(* The gaps of a part, checked with the counters that the packets before it *)
(* left, are gaps of the whole.                                             *)
LEMMA GapsOfPart ==
  ASSUME NEW f, NEW pid, NEW last, NEW b \in Nat, NEW c \in Nat, NEW n \in Nat, b <= c, c <= n
  PROVE  GapsIn(f, pid, b, c, CcAfter(f, pid, 0, b, last))
           = GapsIn(f, pid, 0, n, last) \cap (b + 1)..c
<1>1. ASSUME NEW i \in (b + 1)..c
      PROVE  CcAfter(f, pid, b, i - 1, CcAfter(f, pid, 0, b, last)) = CcAfter(f, pid, 0, i - 1, last)
  BY CcOfParts
<1>2. PacketsOf(f, pid, b, c) = PacketsOf(f, pid, 0, n) \cap (b + 1)..c
  BY DEF PacketsOf
<1>3. PacketsOf(f, pid, b, c) \subseteq (b + 1)..c
  BY DEF PacketsOf
<1>4. QED
  BY <1>1, <1>2, <1>3 DEF GapsIn

(* In a gapless file, whatever counter it starts with, the only gap there   *)
(* can be is at the first packet of the PID.                                *)
LEMMA GapAtFirst ==
  ASSUME NEW f, NEW pid, NEW last, NEW n \in Nat, GapsIn(f, pid, 0, n, NoCc) = {},
         NEW i \in GapsIn(f, pid, 0, n, last)
  PROVE  PacketsOf(f, pid, 0, i - 1) = {}
<1>1. i \in PacketsOf(f, pid, 0, n) /\ Jumps(CcAfter(f, pid, 0, i - 1, last), f[i].cc)
  BY DEF GapsIn
<1>2. ~Jumps(CcAfter(f, pid, 0, i - 1, NoCc), f[i].cc)
  BY <1>1 DEF GapsIn
<1>3. QED
  BY <1>1, <1>2 DEF CcAfter

LEMMA OneGap ==
  ASSUME NEW f, NEW pid, NEW last, NEW n \in Nat, GapsIn(f, pid, 0, n, NoCc) = {},
         NEW G \in SUBSET GapsIn(f, pid, 0, n, last)
  PROVE  \/ G = {} /\ Cardinality(G) = 0
         \/ \E i : G = {i} /\ Cardinality(G) = 1
<1>1. CASE G = {}
  BY <1>1, FS_EmptySet
<1>2. CASE G # {}
  <2>1. PICK i : i \in G
    BY <1>2
  <2>2. \A j \in G : j \in 1..n /\ f[j].pid = pid
    BY DEF GapsIn, PacketsOf
  <2>3. \A j \in G : PacketsOf(f, pid, 0, j - 1) = {}
    BY GapAtFirst
  <2>4. ASSUME NEW j \in G, NEW k \in G, j < k PROVE FALSE
    <3>1. j \in PacketsOf(f, pid, 0, k - 1)
      BY <2>2, <2>4 DEF PacketsOf
    <3>2. QED
      BY <2>3, <3>1
  <2>5. \A j \in G : j = i
    <3>1. ASSUME NEW j \in G PROVE j = i
      <4>1. ~(j < i) /\ ~(i < j)
        BY <2>1, <2>4
      <4>2. j \in Int /\ i \in Int
        BY <2>1, <2>2
      <4>3. QED
        BY <4>1, <4>2
    <3>2. QED
      BY <3>1
  <2>6. G = {i}
    BY <2>1, <2>5
  <2>7. QED
    BY <2>6, FS_Singleton
<1>3. QED
  BY <1>1, <1>2

(* One message: the counters it starts with, the counters and the gaps after*)
(* it, for one PID.                                                         *)
LEMMA ChunkOfPid ==
  ASSUME NEW f \in Files, NEW pid \in Pid, NEW from \in Nat, NEW to \in Nat, NEW loops \in Nat,
         from <= to, to <= Len(f), to <= Played(f), Played(f) \in Nat, Played(f) <= Len(f),
         NEW last, last = CcAfter(f, pid, 0, from, StartCc(f, pid, loops))
  PROVE  /\ CcAfter(f, pid, from, to, last) = CcAfter(f, pid, 0, to, StartCc(f, pid, loops))
         /\ CcAfter(f, pid, from, to, last) \in Cc
         /\ Cardinality(GapsIn(f, pid, from, to, last)) \in {0, 1}
         /\ Cardinality(GapsIn(f, pid, from, to, last)) = 1 =>
              /\ loops # 0 /\ PacketsOf(f, pid, 0, from) = {} /\ PacketsOf(f, pid, 0, to) # {}
              /\ ~Seamless(f, pid)
<1> DEFINE start == StartCc(f, pid, loops)
           G == GapsIn(f, pid, from, to, last)
<1>1. f \in Seq(Packet) /\ Len(f) \in Nat /\ GapsIn(f, pid, 0, Len(f), NoCc) = {}
  BY IngestAssumption
<1>2. EndCc(f, pid) \in Cc /\ start \in Cc
  BY <1>1, CcType DEF EndCc, StartCc, Cc
<1>3. CcAfter(f, pid, from, to, last) = CcAfter(f, pid, 0, to, start)
  BY CcOfParts
<1>4. CcAfter(f, pid, 0, to, start) \in Cc
  BY <1>1, <1>2, CcType
<1>5. G = GapsIn(f, pid, 0, Len(f), start) \cap (from + 1)..to
  BY <1>1, GapsOfPart
<1>6. G = GapsIn(f, pid, 0, Played(f), start) \cap (from + 1)..to
  BY <1>1, GapsOfPart
<1> HIDE DEF G
<1>7. \/ G = {} /\ Cardinality(G) = 0
      \/ \E i : G = {i} /\ Cardinality(G) = 1
  <2>1. G \in SUBSET GapsIn(f, pid, 0, Len(f), start)
    BY <1>5
  <2>2. QED
    BY <1>1, <2>1, OneGap
<1>8. ASSUME NEW i, i \in G
      PROVE  /\ loops # 0 /\ PacketsOf(f, pid, 0, from) = {} /\ PacketsOf(f, pid, 0, to) # {}
             /\ ~Seamless(f, pid)
  <2>1. i \in GapsIn(f, pid, 0, Len(f), start) /\ i \in GapsIn(f, pid, 0, Played(f), start)
        /\ i \in (from + 1)..to
    BY <1>5, <1>6, <1>8
  <2>2. loops # 0 /\ start = EndCc(f, pid)
    BY <1>1, <2>1 DEF StartCc
  <2>3. ~Seamless(f, pid)
    BY <2>1, <2>2 DEF Seamless, EndCc
  <2>4. PacketsOf(f, pid, 0, i - 1) = {}
    BY <1>1, <2>1, GapAtFirst
  <2>5. PacketsOf(f, pid, 0, from) = {}
    BY <2>1, <2>4 DEF PacketsOf
  <2>6. i \in PacketsOf(f, pid, 0, to)
    BY <2>1 DEF GapsIn, PacketsOf
  <2>7. QED
    BY <2>2, <2>3, <2>5, <2>6
<1>9. Cardinality(G) \in {0, 1} /\ (Cardinality(G) = 1 => \E i : i \in G)
  <2>1. Cardinality(G) = 0 \/ (Cardinality(G) = 1 /\ \E i : i \in G)
    BY <1>7, Zenon
  <2>2. QED
    BY <2>1
<1>10. QED
  BY <1>3, <1>4, <1>8, <1>9 DEF G

-----------------------------------------------------------------------------
LEMMA InitEstablishes == Init => IInv
<1> SUFFICES ASSUME Init PROVE IInv
  OBVIOUS
<1>1. TypeOK /\ mode \in Mode
  BY IngestAssumption DEF Init, TypeOK, Free, Idle
<1>2. SocketsOK
  BY IngestAssumption DEF Init, SocketsOK, QueueOK, FreeIsNew, AcceptorOK, ManyOK, OneOK, Free, Idle, Mode
<1>3. FeedOK
  <2>1. PICK f \in Files \cup {<<>>} :
          /\ feed = [file |-> f, cursor |-> 0, loops |-> 0,
                     last |-> [pid \in Pid |-> NoCc], gaps |-> [pid \in Pid |-> 0]]
          /\ mode = "file" => f \in Files
    BY DEF Init
  <2>2. Len(f) \in Nat
    BY IngestAssumption
  <2>3. 0 = ChunkPackets * 0
    BY IngestAssumption
  <2>4. \A pid \in Pid : PidOK(pid)
    <3>1. \A pid \in Pid : PacketsOf(f, pid, 0, 0) = {}
      BY DEF PacketsOf
    <3>2. QED
      BY <2>1, <3>1 DEF PidOK, StartCc, CcAfter
  <2>5. QED
    BY <2>1, <2>2, <2>3, <2>4 DEF FeedOK, Cc
<1>4. QED
  BY <1>1, <1>2, <1>3 DEF IInv

SockType ==
  [by : Publisher \cup {None}, id : Name \cup {NoId}, peer : BOOLEAN, data : BOOLEAN,
   eof : BOOLEAN, at : {"free", "queued", "handshake", "open", "closing"}]
Attached == {"open", "closing"}

LEMMA FeedStays == ASSUME FeedOK, UNCHANGED <<mode, feed>> PROVE FeedOK'
BY DEF FeedOK, PidOK

(* One step on the file.                                                    *)
LEMMA ChunkKeepsFeed == ASSUME IInv, FileChunk PROVE FeedOK'
<1> DEFINE f == feed.file
           from == IF Looped(feed) THEN 0 ELSE feed.cursor
           to == from + ChunkPackets
           loops == feed.loops + (IF Looped(feed) THEN 1 ELSE 0)
<1>1. /\ mode = "file" /\ mode' = mode
      /\ feed' = [file |-> f, cursor |-> to, loops |-> loops,
                  last |-> [pid \in Pid |-> CcAfter(f, pid, from, to, feed.last[pid])],
                  gaps |-> [pid \in Pid |-> feed.gaps[pid] +
                              Cardinality(GapsIn(f, pid, from, to, feed.last[pid]))]]
  BY DEF FileChunk, CursorAfter
<1>2. /\ feed \in [file : Files \cup {<<>>}, cursor : Nat, loops : Nat,
                   last : [Pid -> Cc], gaps : [Pid -> Nat]]
      /\ f \in Files /\ f \in Seq(Packet) /\ Len(f) \in Nat /\ ChunkPackets <= Len(f)
      /\ ChunkPackets \in Nat \ {0} /\ feed.cursor <= Len(f)
  BY <1>1, IngestAssumption DEF IInv, FeedOK
<1>3. PICK k \in Nat : feed.cursor = ChunkPackets * k
  BY DEF IInv, FeedOK
<1>4. /\ from \in Nat /\ to \in Nat /\ loops \in Nat /\ from <= to /\ to <= Len(f)
      /\ (from = 0 \/ from = ChunkPackets * k) /\ to = from + ChunkPackets
  <2>1. ~Looped(feed) => feed.cursor + ChunkPackets <= Len(f)
    BY <1>2 DEF Looped
  <2>2. QED
    BY <1>2, <1>3, <2>1
<1>5. (\E j \in Nat : to = ChunkPackets * j) /\ Played(f) \in Nat /\ to <= Played(f) /\ Played(f) <= Len(f)
  <2>1. PICK j \in Nat : to = ChunkPackets * j
    <3>1. CASE from = 0
      <4>1. to = ChunkPackets * 1 /\ 1 \in Nat
        BY <1>2, <3>1
      <4>2. QED
        BY <4>1
    <3>2. CASE from = ChunkPackets * k
      <4>1. to = ChunkPackets * (k + 1) /\ k + 1 \in Nat
        BY <1>2, <1>4, <3>2
      <4>2. QED
        BY ONLY <4>1, Zenon
    <3>3. QED
      BY <1>4, <3>1, <3>2
  <2> HIDE DEF to, f
  <2>2. ChunkPackets * j <= Len(f) /\ Len(f) \in Nat
    BY <1>2, <1>4, <2>1
  <2>3. Played(f) \in Nat /\ ChunkPackets * j <= Played(f) /\ Played(f) <= Len(f)
    BY <2>2, PlayedIs
  <2>4. QED
    BY <2>1, <2>3
<1>6. Looped(feed) => feed.cursor = Played(f)
  <2>1. Looped(feed) => Len(f) < ChunkPackets * k + ChunkPackets
    BY <1>2, <1>3 DEF Looped
  <2>2. QED
    BY <1>2, <1>3, <2>1, PlayedIs
<1>7. ASSUME NEW pid \in Pid
      PROVE  /\ PidOK(pid) /\ feed.last[pid] \in Cc /\ feed.gaps[pid] \in Nat
             /\ feed.last[pid] = CcAfter(f, pid, 0, from, StartCc(f, pid, loops))
  <2>1. PidOK(pid) /\ feed.last[pid] \in Cc /\ feed.gaps[pid] \in Nat
    BY <1>2 DEF IInv, FeedOK
  <2>2. CASE ~Looped(feed)
    BY <1>2, <2>1, <2>2 DEF PidOK
  <2>3. CASE Looped(feed)
    <3>1. from = 0 /\ loops # 0
      BY <1>2, <2>3
    <3>2. feed.last[pid] = CcAfter(f, pid, 0, Played(f), StartCc(f, pid, feed.loops))
      BY <1>6, <2>1, <2>3 DEF PidOK
    <3>3. feed.last[pid] = EndCc(f, pid)
      BY <3>2 DEF StartCc, EndCc, CcAfter
    <3>4. PacketsOf(f, pid, 0, 0) = {}
      BY DEF PacketsOf
    <3>5. QED
      BY <2>1, <3>1, <3>3, <3>4 DEF StartCc, CcAfter
  <2>4. QED
    BY <2>1, <2>2, <2>3
<1> HIDE DEF f, from, to, loops
<1>8. ASSUME NEW pid \in Pid
      PROVE  /\ CcAfter(f, pid, from, to, feed.last[pid]) = CcAfter(f, pid, 0, to, StartCc(f, pid, loops))
             /\ CcAfter(f, pid, from, to, feed.last[pid]) \in Cc
             /\ Cardinality(GapsIn(f, pid, from, to, feed.last[pid])) \in {0, 1}
             /\ Cardinality(GapsIn(f, pid, from, to, feed.last[pid])) = 1 =>
                  /\ loops # 0 /\ PacketsOf(f, pid, 0, from) = {}
                  /\ PacketsOf(f, pid, 0, to) # {} /\ ~Seamless(f, pid)
  <2>1. feed.last[pid] = CcAfter(f, pid, 0, from, StartCc(f, pid, loops))
    BY <1>7
  <2>2. /\ f \in Files /\ from \in Nat /\ to \in Nat /\ loops \in Nat /\ from <= to /\ to <= Len(f)
        /\ to <= Played(f) /\ Played(f) \in Nat /\ Played(f) <= Len(f)
    BY <1>2, <1>4, <1>5
  <2> DEFINE last == feed.last[pid]
  <2>3. last = CcAfter(f, pid, 0, from, StartCc(f, pid, loops))
    BY <2>1
  <2> HIDE DEF last
  <2>4. /\ CcAfter(f, pid, from, to, last) = CcAfter(f, pid, 0, to, StartCc(f, pid, loops))
        /\ CcAfter(f, pid, from, to, last) \in Cc
        /\ Cardinality(GapsIn(f, pid, from, to, last)) \in {0, 1}
        /\ Cardinality(GapsIn(f, pid, from, to, last)) = 1 =>
             /\ loops # 0 /\ PacketsOf(f, pid, 0, from) = {} /\ PacketsOf(f, pid, 0, to) # {}
             /\ ~Seamless(f, pid)
    BY <2>2, <2>3, ChunkOfPid
  <2>5. QED
    BY <2>4 DEF last
<1>9. /\ feed' \in [file : Files \cup {<<>>}, cursor : Nat, loops : Nat,
                    last : [Pid -> Cc], gaps : [Pid -> Nat]]
      /\ feed'.file = f /\ feed'.cursor = to /\ feed'.loops = loops
      /\ \A pid \in Pid :
           /\ feed'.last[pid] = CcAfter(f, pid, from, to, feed.last[pid])
           /\ feed'.gaps[pid] = feed.gaps[pid] + Cardinality(GapsIn(f, pid, from, to, feed.last[pid]))
  <2>1. \A pid \in Pid : feed.gaps[pid] + Cardinality(GapsIn(f, pid, from, to, feed.last[pid])) \in Nat
    BY <1>7, <1>8
  <2>2. \A pid \in Pid : CcAfter(f, pid, from, to, feed.last[pid]) \in Cc
    BY <1>8
  <2>3. QED
    BY <1>1, <1>2, <1>4, <2>1, <2>2
<1>10. ASSUME NEW pid \in Pid PROVE PidOK(pid)'
  <2> DEFINE more == Cardinality(GapsIn(f, pid, from, to, feed.last[pid]))
  <2>1. /\ more \in {0, 1} /\ feed'.gaps[pid] = feed.gaps[pid] + more
        /\ feed'.last[pid] = CcAfter(f, pid, 0, to, StartCc(f, pid, loops))
        /\ more = 1 => /\ loops # 0 /\ PacketsOf(f, pid, 0, from) = {}
                       /\ PacketsOf(f, pid, 0, to) # {} /\ ~Seamless(f, pid)
    BY <1>8, <1>9
  <2> HIDE DEF more
  <2>2. /\ feed.gaps[pid] \in Nat /\ feed.gaps[pid] <= feed.loops /\ feed.loops \in Nat
        /\ Seamless(f, pid) => feed.gaps[pid] = 0
    BY <1>2, <1>7 DEF PidOK, f
  <2>3. \/ Looped(feed) /\ loops = feed.loops + 1
        \/ ~Looped(feed) /\ loops = feed.loops /\ from = feed.cursor
    BY <1>2 DEF loops, from
  <2>4. ~Looped(feed) /\ loops # 0 /\ PacketsOf(f, pid, 0, from) = {} => feed.gaps[pid] < feed.loops
    BY <1>7, <2>3 DEF PidOK, f
  <2>5. PacketsOf(f, pid, 0, to) = {} => PacketsOf(f, pid, 0, from) = {}
    BY <1>4 DEF PacketsOf
  <2>6. feed'.gaps[pid] <= loops
    BY <2>1, <2>2, <2>3, <2>4
  <2>7. (loops # 0 /\ PacketsOf(f, pid, 0, to) = {}) => feed'.gaps[pid] < loops
    BY <2>1, <2>2, <2>3, <2>4, <2>5
  <2>8. Seamless(f, pid) => feed'.gaps[pid] = 0
    BY <2>1, <2>2
  <2>9. QED
    BY <1>9, <2>1, <2>6, <2>7, <2>8 DEF PidOK
<1>11. QED
  BY <1>1, <1>2, <1>4, <1>5, <1>9, <1>10 DEF FeedOK

(* What is left of IInv when neither the file nor the sockets of others are *)
(* touched.                                                                 *)
Others(c) ==
  /\ UNCHANGED <<mode, feed>> /\ wants' \in [Publisher -> BOOLEAN]
  /\ sock' \in [Conn -> SockType] /\ stats' \in [Name -> Conn \cup {None}]
  /\ \A d \in Conn \ {c} : sock'[d] = sock[d]

LEMMA FreeSocket ==
  Free \in SockType /\ Free.at = "free" /\ Free.peer = FALSE /\ Free.by = None /\ Free.id = NoId
BY DEF Free, SockType

(* A step that moves no socket from one holder to another.                  *)
LEMMA StaysWithHolder ==
  ASSUME IInv, UNCHANGED <<mode, queue, acceptor, stream, stats, feed>>,
         wants' \in [Publisher -> BOOLEAN], sock' \in [Conn -> SockType],
         \A d \in Conn : /\ sock'[d].id = sock[d].id
                         /\ sock'[d].at = sock[d].at \/ {sock[d].at, sock'[d].at} \subseteq Attached
                         /\ sock[d].at = "free" => sock'[d] = sock[d]
  PROVE  IInv'
<1> USE DEF Attached
<1>1. TypeOK' /\ mode' \in Mode /\ FeedOK'
  BY FeedStays DEF IInv, TypeOK, SockType
<1>2. QueueOK' /\ FreeIsNew' /\ AcceptorOK'
  BY DEF IInv, SocketsOK, QueueOK, FreeIsNew, AcceptorOK
<1>3. ManyOK'
  BY DEF IInv, SocketsOK, ManyOK, TypeOK
<1>4. OneOK'
  BY DEF IInv, SocketsOK, OneOK
<1>5. QED
  BY <1>1, <1>2, <1>3, <1>4 DEF IInv, SocketsOK

(* A step that moves one socket, and not into or out of the queue.          *)
LEMMA OneMoves ==
  ASSUME IInv, NEW c \in Conn, Others(c), sock'[c].at = "free" => sock'[c] = Free
  PROVE  /\ FeedOK' /\ FreeIsNew' /\ mode' \in Mode
         /\ UNCHANGED queue /\ sock[c].at # "queued" /\ sock'[c].at # "queued" => QueueOK'
<1>1. FeedOK' /\ mode' \in Mode
  BY FeedStays DEF Others, IInv
<1>2. FreeIsNew'
  BY DEF Others, IInv, SocketsOK, FreeIsNew
<1>3. ASSUME UNCHANGED queue, sock[c].at # "queued", sock'[c].at # "queued" PROVE QueueOK'
  BY <1>3 DEF Others, IInv, SocketsOK, QueueOK
<1>4. QED
  BY <1>1, <1>2, <1>3

LEMMA PublishersKeep == ASSUME IInv, PublisherNext PROVE IInv'
<1>0. sock \in [Conn -> SockType] /\ wants \in [Publisher -> BOOLEAN]
  BY DEF IInv, TypeOK, SockType
<1>1. ASSUME NEW p \in Publisher, ComesUp(p) PROVE IInv'
  BY <1>0, <1>1, StaysWithHolder DEF ComesUp
<1>2. ASSUME NEW p \in Publisher, Vanishes(p) PROVE IInv'
  <2>1. \A d \in Conn : sock[d].at = "free" => d \notin On(p)
    BY FreeSocket DEF On, IInv, SocketsOK, FreeIsNew
  <2>2. wants' \in [Publisher -> BOOLEAN]
    BY <1>0, <1>2 DEF Vanishes
  <2>3. \A d \in Conn : sock'[d] = IF d \in On(p) THEN [sock[d] EXCEPT !.peer = FALSE] ELSE sock[d]
    BY <1>2 DEF Vanishes
  <2>4. \A d \in Conn : [sock[d] EXCEPT !.peer = FALSE] \in SockType
    BY <1>0 DEF SockType
  <2>5. sock' \in [Conn -> SockType]
    BY <1>0, <1>2, <2>4 DEF Vanishes
  <2>6. \A d \in Conn : [sock[d] EXCEPT !.peer = FALSE].at = sock[d].at
                        /\ [sock[d] EXCEPT !.peer = FALSE].id = sock[d].id
    BY <1>0 DEF SockType
  <2>7. QED
    BY <1>2, <2>1, <2>2, <2>3, <2>5, <2>6, StaysWithHolder DEF Vanishes
<1>3. ASSUME NEW p \in Publisher, NEW c \in Conn, NEW id \in StreamIdsOf[p], Calls(p, c, id) PROVE IInv'
  <2> DEFINE new == [Free EXCEPT !.by = p, !.id = id, !.at = "queued", !.peer = TRUE]
  <2>1. id \in Name \cup {NoId}
    <3>1. StreamIdsOf[p] \in {StreamIdsOf[q] : q \in Publisher}
      OBVIOUS
    <3>2. id \in UNION {StreamIdsOf[q] : q \in Publisher}
      BY <3>1
    <3>3. QED
      BY <3>2 DEF Name
  <2>2. new \in SockType /\ new.at = "queued" /\ new.id = id
    BY <2>1 DEF SockType, Free
  <2>3. sock' = [sock EXCEPT ![c] = new] /\ sock[c].at = "free"
    BY <1>3, FreeSocket DEF Calls
  <2> HIDE DEF new
  <2>4. Others(c) /\ sock'[c].at = "queued" /\ sock'[c].id = id
    BY <1>0, <1>3, <2>2, <2>3 DEF Calls, Others, IInv, TypeOK
  <2>5. /\ queue' = Append(queue, c) /\ UNCHANGED <<acceptor, stream>> /\ mode # "file"
    BY <1>3 DEF Calls
  <2>6. QueueOK'
    <3>1. queue \in Seq(Conn) /\ queue' \in Seq(Conn) /\ Len(queue') = Len(queue) + 1
          /\ queue'[Len(queue) + 1] = c /\ \A i \in DOMAIN queue : queue'[i] = queue[i]
      BY <2>5 DEF IInv, SocketsOK, QueueOK
    <3>2. \A i \in DOMAIN queue : queue[i] # c
      BY <2>3 DEF IInv, SocketsOK, QueueOK
    <3>3. /\ \A i \in DOMAIN queue' : i \in DOMAIN queue \/ i = Len(queue) + 1
          /\ Len(queue) + 1 \in DOMAIN queue' /\ DOMAIN queue \subseteq DOMAIN queue'
      BY <3>1
    <3>4. \A i, j \in DOMAIN queue' : queue'[i] = queue'[j] => i = j
      BY <3>1, <3>2, <3>3 DEF IInv, SocketsOK, QueueOK
    <3>5. \A d \in Conn : sock'[d].at = "queued" <=> \E i \in DOMAIN queue' : queue'[i] = d
      BY <2>4, <3>1, <3>3 DEF Others, IInv, SocketsOK, QueueOK
    <3>6. QED
      BY <3>1, <3>4, <3>5 DEF QueueOK
  <2>7. TypeOK'
    BY <2>4, <2>5 DEF Others, IInv, TypeOK, SockType
  <2>8. FeedOK' /\ FreeIsNew' /\ mode' \in Mode
    BY <2>4, OneMoves
  <2>9. AcceptorOK'
    BY <2>3, <2>4, <2>5 DEF Others, IInv, SocketsOK, AcceptorOK
  <2>10. ManyOK'
    BY <2>3, <2>4, <2>5 DEF Others, IInv, SocketsOK, ManyOK, TypeOK
  <2>11. OneOK'
    BY <2>3, <2>4, <2>5 DEF Others, IInv, SocketsOK, OneOK
  <2>12. QED
    BY <2>6, <2>7, <2>8, <2>9, <2>10, <2>11 DEF IInv, SocketsOK
<1>4. ASSUME NEW p \in Publisher, NEW c \in Conn, GivesUp(p, c) PROVE IInv'
  <2> DEFINE new == [sock[c] EXCEPT !.peer = FALSE, !.eof = TRUE]
  <2>1. new \in SockType /\ new.at = sock[c].at /\ new.id = sock[c].id
    BY <1>0 DEF SockType
  <2>2. sock' = [sock EXCEPT ![c] = new] /\ sock[c].at = "queued"
    BY <1>4 DEF GivesUp
  <2> HIDE DEF new
  <2>3. QED
    BY <1>0, <1>4, <2>1, <2>2, StaysWithHolder DEF GivesUp
<1>5. ASSUME NEW c \in Conn, Sends(c) PROVE IInv'
  <2> DEFINE new == [sock[c] EXCEPT !.data = TRUE]
  <2>1. new \in SockType /\ new.at = sock[c].at /\ new.id = sock[c].id
    BY <1>0 DEF SockType
  <2>2. sock' = [sock EXCEPT ![c] = new] /\ sock[c].at = "open"
    BY <1>5 DEF Sends
  <2> HIDE DEF new
  <2>3. QED
    BY <1>0, <1>5, <2>1, <2>2, StaysWithHolder DEF Sends
<1>6. ASSUME NEW c \in Conn, Breaks(c) PROVE IInv'
  <2> DEFINE new == [sock[c] EXCEPT !.eof = TRUE, !.peer = FALSE]
  <2>1. new \in SockType /\ new.at = sock[c].at /\ new.id = sock[c].id
    BY <1>0 DEF SockType
  <2>2. sock' = [sock EXCEPT ![c] = new] /\ sock[c].at = "open"
    BY <1>6 DEF Breaks
  <2> HIDE DEF new
  <2>3. QED
    BY <1>0, <1>6, <2>1, <2>2, StaysWithHolder DEF Breaks
<1>7. QED
  BY <1>1, <1>2, <1>3, <1>4, <1>5, <1>6 DEF PublisherNext

(* The request at the head leaves the queue.                                *)
LEMMA HeadLeaves ==
  ASSUME IInv, NEW c \in Conn, Others(c), queue # <<>>, c = Head(queue), queue' = Tail(queue),
         sock'[c].at # "queued"
  PROVE  QueueOK' /\ sock[c].at = "queued"
<1>1. queue \in Seq(Conn) /\ c = queue[1] /\ 1 \in DOMAIN queue
  BY DEF IInv, SocketsOK, QueueOK
<1>2. queue' \in Seq(Conn) /\ \A i \in DOMAIN queue' : i + 1 \in DOMAIN queue /\ queue'[i] = queue[i + 1]
  BY <1>1
<1>3. \A i \in DOMAIN queue : i = 1 \/ (i - 1 \in DOMAIN queue' /\ queue'[i - 1] = queue[i])
  BY <1>1
<1>4. \A i \in DOMAIN queue' : queue'[i] # c
  <2>1. ASSUME NEW i \in DOMAIN queue', queue'[i] = c PROVE FALSE
    <3>1. i + 1 \in DOMAIN queue /\ queue[i + 1] = queue[1] /\ i \in Nat
      BY <1>1, <1>2, <2>1
    <3>2. i + 1 = 1
      BY <1>1, <3>1 DEF IInv, SocketsOK, QueueOK
    <3>3. QED
      BY <1>1, <1>2, <2>1, <3>2
  <2>2. QED
    BY <2>1
<1>5. \A i, j \in DOMAIN queue' : queue'[i] = queue'[j] => i = j
  <2>1. ASSUME NEW i \in DOMAIN queue', NEW j \in DOMAIN queue', queue'[i] = queue'[j] PROVE i = j
    <3>1. i + 1 = j + 1
      BY <1>2, <2>1 DEF IInv, SocketsOK, QueueOK
    <3>2. QED
      BY <1>2, <3>1
  <2>2. QED
    BY <2>1
<1>6. \A d \in Conn : sock'[d].at = "queued" <=> \E i \in DOMAIN queue' : queue'[i] = d
  <2>1. sock[c].at = "queued" /\ ~(sock'[c].at = "queued")
    BY <1>1 DEF IInv, SocketsOK, QueueOK
  <2>2. ASSUME NEW d \in Conn, d # c
        PROVE  (\E i \in DOMAIN queue : queue[i] = d) <=> \E i \in DOMAIN queue' : queue'[i] = d
    <3>1. ASSUME NEW i \in DOMAIN queue, queue[i] = d PROVE \E j \in DOMAIN queue' : queue'[j] = d
      BY <1>1, <1>3, <2>2, <3>1
    <3>2. ASSUME NEW j \in DOMAIN queue', queue'[j] = d PROVE \E i \in DOMAIN queue : queue[i] = d
      BY <1>2, <3>2
    <3>3. QED
      BY <3>1, <3>2
  <2>3. ASSUME NEW d \in Conn, d # c
        PROVE  sock'[d].at = "queued" <=> \E i \in DOMAIN queue' : queue'[i] = d
    <3>1. sock'[d].at = sock[d].at
      BY <2>3 DEF Others
    <3>2. sock[d].at = "queued" <=> \E i \in DOMAIN queue : queue[i] = d
      BY DEF IInv, SocketsOK, QueueOK
    <3>3. QED
      BY <2>2, <2>3, <3>1, <3>2
  <2>4. QED
    BY <1>4, <2>1, <2>3
<1>7. QED
  BY <1>1, <1>2, <1>5, <1>6 DEF IInv, SocketsOK, QueueOK

(* The steps of who accepts or dials.                                       *)
LEMMA AcceptorKeeps == ASSUME IInv, AcceptorNext PROVE IInv'
<1>0. sock \in [Conn -> SockType] /\ stats \in [Name -> Conn \cup {None}] /\ wants \in [Publisher -> BOOLEAN]
      /\ stream \in [Name -> Conn \cup {None}] /\ Default \in Name
  BY DEF IInv, TypeOK, SockType, Name
<1>1. ASSUME NEW c \in Conn, LooksAt(c) PROVE IInv'
  <2> DEFINE new == IF Wanted(c) THEN [sock[c] EXCEPT !.at = "handshake"] ELSE Free
  <2>1. /\ new \in SockType /\ new.at = IF Wanted(c) THEN "handshake" ELSE "free"
        /\ Wanted(c) => new.id = sock[c].id
        /\ ~Wanted(c) => new = Free
    BY <1>0, FreeSocket DEF SockType
  <2>2. sock' = [sock EXCEPT ![c] = new]
    BY <1>1 DEF LooksAt
  <2> HIDE DEF new
  <2>3. /\ Others(c) /\ sock'[c] = new /\ UNCHANGED stream /\ acceptor.at = "waiting"
        /\ acceptor' = IF Wanted(c) THEN [at |-> "accepting", conn |-> c] ELSE acceptor
    BY <1>0, <1>1, <2>1, <2>2 DEF LooksAt, Others
  <2>4. mode = "multi" /\ Wanted(c) => sock[c].id # NoId
    BY DEF Wanted
  <2>5. QueueOK' /\ sock[c].at = "queued"
    BY <1>1, <2>1, <2>3, HeadLeaves DEF LooksAt
  <2>6. TypeOK'
    BY <2>1, <2>3, <2>4, <2>5 DEF Others, IInv, TypeOK, SockType
  <2>7. FeedOK' /\ FreeIsNew' /\ mode' \in Mode
    BY <2>1, <2>3, OneMoves
  <2>8. AcceptorOK'
    BY <2>1, <2>3, <2>4, <2>5 DEF Others, IInv, SocketsOK, AcceptorOK
  <2>9. ManyOK'
    <3>1. sock'[c].at \in {"handshake", "free"} /\ (sock'[c].at = "handshake" /\ mode = "multi" => sock'[c].id # NoId)
      BY <2>1, <2>3, <2>4
    <3>2. \A n \in Name : stream[n] # None /\ mode = "multi" => stream[n] # c
      BY <2>5 DEF IInv, SocketsOK, ManyOK
    <3>3. QED
      BY SMTT(40), <2>3, <3>1, <3>2 DEF Others, IInv, SocketsOK, ManyOK, TypeOK
  <2>10. OneOK'
    BY <2>1, <2>3, <2>4, <2>5 DEF Others, IInv, SocketsOK, OneOK
  <2>11. QED
    BY <2>5, <2>6, <2>7, <2>8, <2>9, <2>10 DEF IInv, SocketsOK
<1>2. ASSUME NEW c \in Conn, HandshakeFails(c) PROVE IInv'
  <2>1. sock' = [sock EXCEPT ![c] = Free] /\ UNCHANGED <<stream, queue>>
    BY <1>2 DEF HandshakeFails
  <2>2. /\ Others(c) /\ sock'[c] = Free /\ Free.at = "free"
        /\ acceptor = [at |-> "accepting", conn |-> c] /\ sock[c].at = "handshake"
    BY <1>0, <1>2, <2>1, FreeSocket DEF HandshakeFails, Others, IInv, SocketsOK, AcceptorOK
  <2>3. acceptor' = [at |-> IF mode = "multi" THEN "waiting" ELSE "backoff", conn |-> None]
    BY <1>2 DEF HandshakeFails, Idle
  <2>4. TypeOK'
    BY <2>1, <2>2, <2>3 DEF Others, IInv, TypeOK, SockType
  <2>5. FeedOK' /\ FreeIsNew' /\ mode' \in Mode /\ QueueOK'
    BY <2>1, <2>2, <2>3, OneMoves
  <2>6. AcceptorOK'
    BY <2>1, <2>2, <2>3 DEF Others, IInv, SocketsOK, AcceptorOK
  <2>7. ManyOK'
    BY <2>1, <2>2, <2>3 DEF Others, IInv, SocketsOK, ManyOK, TypeOK
  <2>8. OneOK'
    BY <2>1, <2>2, <2>3 DEF Others, IInv, SocketsOK, OneOK
  <2>9. QED
    BY <2>4, <2>5, <2>6, <2>7, <2>8 DEF IInv, SocketsOK
<1>3. ASSUME NEW c \in Conn, AcceptedMulti(c) PROVE IInv'
  <2>1. /\ mode = "multi" /\ acceptor = [at |-> "accepting", conn |-> c] /\ sock[c].at = "handshake"
        /\ acceptor' = [at |-> "waiting", conn |-> None] /\ UNCHANGED <<queue, mode, wants, feed>>
        /\ sock[c].id \in Name
    BY <1>0, <1>3 DEF AcceptedMulti, Idle, IInv, SocketsOK, AcceptorOK, ManyOK, SockType
  <2>2. stats' \in [Name -> Conn \cup {None}]
    BY <1>0, <1>3, <2>1 DEF AcceptedMulti, NameOf
  <2>3. CASE stream[sock[c].id] = None
    <3> DEFINE new == [sock[c] EXCEPT !.at = "open"]
    <3>1. new \in SockType /\ new.at = "open" /\ new.id = sock[c].id
      BY <1>0 DEF SockType
    <3>2. sock' = [sock EXCEPT ![c] = new] /\ stream' = [stream EXCEPT ![sock[c].id] = c]
      BY <1>3, <2>1, <2>3 DEF AcceptedMulti, NameOf, Opened
    <3> HIDE DEF new
    <3>3. Others(c) /\ sock'[c].at = "open" /\ sock'[c].id = sock[c].id
      BY <1>0, <2>1, <2>2, <3>1, <3>2 DEF Others
    <3>4. /\ stream' \in [Name -> Conn \cup {None}] /\ stream'[sock[c].id] = c
          /\ \A n \in Name : n # sock[c].id => stream'[n] = stream[n]
      BY <1>0, <2>1, <3>2
    <3>5. TypeOK'
      BY <2>1, <3>3, <3>4, IngestAssumption DEF Others, IInv, TypeOK, SockType
    <3>6. FeedOK' /\ FreeIsNew' /\ mode' \in Mode /\ QueueOK'
      BY <2>1, <3>3, <3>4, IngestAssumption, OneMoves
    <3>7. AcceptorOK'
      BY <2>1, <3>3, <3>4, IngestAssumption DEF Others, IInv, SocketsOK, AcceptorOK
    <3>8. ManyOK'
      <4>1. ASSUME NEW n \in Name, stream'[n] # None
            PROVE  sock'[stream'[n]].id = n /\ sock'[stream'[n]].at \in {"open", "closing"}
        <5>1. CASE n = sock[c].id
          BY <3>3, <3>4, <5>1
        <5>2. CASE n # sock[c].id
          <6>1. stream'[n] = stream[n] /\ stream[n] \in Conn
            BY <1>0, <3>4, <4>1, <5>2
          <6>2. /\ sock[stream[n]].id = n /\ sock[stream[n]].at \in {"open", "closing"}
            BY <2>1, <4>1, <6>1 DEF IInv, SocketsOK, ManyOK
          <6>3. QED
            BY <2>1, <3>3, <6>1, <6>2 DEF Others
        <5>3. QED
          BY <5>1, <5>2
      <4>2. ASSUME NEW d \in Conn, sock'[d].at \in {"open", "closing"}
            PROVE  stream'[sock'[d].id] = d
        <5>1. CASE d = c
          BY <3>3, <3>4, <5>1
        <5>2. CASE d # c
          <6>1. sock'[d] = sock[d] /\ stream[sock[d].id] = d
            BY <2>1, <3>3, <4>2, <5>2 DEF Others, IInv, SocketsOK, ManyOK
          <6>2. sock[d].id # NoId /\ sock[d].id \in Name
            BY <1>0, <2>1, <4>2, <6>1 DEF IInv, SocketsOK, ManyOK, SockType
          <6>3. QED
            BY <2>3, <3>4, <6>1, <6>2, IngestAssumption
        <5>3. QED
          BY <5>1, <5>2
      <4>3. \A d \in Conn : sock'[d].at \in {"handshake", "open", "closing"} => sock'[d].id # NoId
        BY <1>0, <2>1, <3>3 DEF Others, IInv, SocketsOK, ManyOK
      <4>4. QED
        BY <4>1, <4>2, <4>3 DEF ManyOK
    <3>9. OneOK'
      BY <2>1, <3>3, <3>4, IngestAssumption DEF Others, IInv, SocketsOK, OneOK
    <3>10. QED
      BY <3>5, <3>6, <3>7, <3>8, <3>9 DEF IInv, SocketsOK
  <2>4. CASE stream[sock[c].id] # None
    <3>1. sock' = [sock EXCEPT ![c] = Free] /\ UNCHANGED stream
      BY <1>3, <2>1, <2>4 DEF AcceptedMulti, NameOf
    <3>2. Others(c) /\ sock'[c] = Free /\ Free.at = "free"
      BY <1>0, <2>1, <2>2, <3>1, FreeSocket DEF Others
    <3>3. TypeOK'
      BY <2>1, <3>1, <3>2 DEF Others, IInv, TypeOK, SockType
    <3>4. FeedOK' /\ FreeIsNew' /\ mode' \in Mode /\ QueueOK'
      BY <2>1, <3>1, <3>2, OneMoves
    <3>5. AcceptorOK'
      BY <2>1, <3>1, <3>2 DEF Others, IInv, SocketsOK, AcceptorOK
    <3>6. ManyOK'
      BY <2>1, <3>1, <3>2 DEF Others, IInv, SocketsOK, ManyOK, TypeOK
    <3>7. OneOK'
      BY <2>1, <3>1, <3>2 DEF Others, IInv, SocketsOK, OneOK
    <3>8. QED
      BY <3>3, <3>4, <3>5, <3>6, <3>7 DEF IInv, SocketsOK
  <2>5. QED
    BY <2>3, <2>4
<1>4. ASSUME NEW c \in Conn, AcceptedSingle(c) PROVE IInv'
  <2> DEFINE new == [sock[c] EXCEPT !.at = "open"]
  <2>1. /\ mode = "single" /\ acceptor = [at |-> "accepting", conn |-> c] /\ sock[c].at = "handshake"
        /\ acceptor' = [at |-> "busy", conn |-> c] /\ UNCHANGED <<queue, mode, wants, feed>>
    BY <1>4 DEF AcceptedSingle, IInv, SocketsOK, AcceptorOK
  <2>2. new \in SockType /\ new.at = "open"
    BY <1>0 DEF SockType
  <2>3. /\ sock' = [sock EXCEPT ![c] = new] /\ stats' = [stats EXCEPT ![Default] = c]
        /\ stream' = [stream EXCEPT ![Default] = c]
    BY <1>4 DEF AcceptedSingle, Opened, Claimed
  <2> HIDE DEF new
  <2>4. Others(c) /\ sock'[c].at = "open"
    BY <1>0, <2>1, <2>2, <2>3 DEF Others
  <2>5. /\ stream' \in [Name -> Conn \cup {None}] /\ stream'[Default] = c
        /\ \A n \in Name : n # Default => stream'[n] = stream[n]
    BY <1>0, <2>3
  <2>6. TypeOK'
    BY <2>1, <2>4, <2>5 DEF Others, IInv, TypeOK, SockType
  <2>7. FeedOK' /\ FreeIsNew' /\ mode' \in Mode /\ QueueOK'
    BY <2>1, <2>4, <2>5, OneMoves
  <2>8. AcceptorOK'
    BY <2>1, <2>4, <2>5 DEF Others, IInv, SocketsOK, AcceptorOK
  <2>9. ManyOK'
    BY <2>1, <2>4, <2>5 DEF Others, IInv, SocketsOK, ManyOK, TypeOK
  <2>10. OneOK'
    BY <2>1, <2>4, <2>5 DEF Others, IInv, SocketsOK, OneOK
  <2>11. QED
    BY <2>6, <2>7, <2>8, <2>9, <2>10 DEF IInv, SocketsOK
<1>5. ASSUME NEW p \in Publisher, NEW c \in Conn, Dials(p, c) PROVE IInv'
  <2> DEFINE new == [Free EXCEPT !.by = p, !.at = "open", !.peer = TRUE]
  <2>1. /\ mode = "caller" /\ acceptor.at = "waiting" /\ sock[c].at = "free"
        /\ acceptor' = [at |-> "busy", conn |-> c] /\ UNCHANGED <<queue, mode, wants, feed>>
    BY <1>5, FreeSocket DEF Dials
  <2>2. new \in SockType /\ new.at = "open"
    BY DEF SockType, Free
  <2>3. /\ sock' = [sock EXCEPT ![c] = new] /\ stats' = [stats EXCEPT ![Default] = c]
        /\ stream' = [stream EXCEPT ![Default] = c]
    BY <1>5 DEF Dials, Claimed
  <2> HIDE DEF new
  <2>4. Others(c) /\ sock'[c].at = "open"
    BY <1>0, <2>1, <2>2, <2>3 DEF Others
  <2>5. /\ stream' \in [Name -> Conn \cup {None}] /\ stream'[Default] = c
        /\ \A n \in Name : n # Default => stream'[n] = stream[n]
    BY <1>0, <2>3
  <2>6. TypeOK'
    BY <2>1, <2>4, <2>5 DEF Others, IInv, TypeOK, SockType
  <2>7. FeedOK' /\ FreeIsNew' /\ mode' \in Mode /\ QueueOK'
    BY <2>1, <2>4, <2>5, OneMoves
  <2>8. AcceptorOK'
    BY <2>1, <2>4, <2>5 DEF Others, IInv, SocketsOK, AcceptorOK
  <2>9. ManyOK'
    BY <2>1, <2>4, <2>5 DEF Others, IInv, SocketsOK, ManyOK, TypeOK
  <2>10. OneOK'
    BY <2>1, <2>4, <2>5 DEF Others, IInv, SocketsOK, OneOK
  <2>11. QED
    BY <2>6, <2>7, <2>8, <2>9, <2>10 DEF IInv, SocketsOK
<1>6. CASE DialFails \/ BackoffOver
  <2>1. /\ acceptor'.at \in {"waiting", "failed", "backoff"} /\ acceptor'.conn = None
        /\ acceptor' = [at |-> acceptor'.at, conn |-> None]
        /\ acceptor.at \in {"waiting", "backoff"} /\ (mode = "multi" => acceptor'.at = "waiting")
        /\ UNCHANGED <<mode, netVars, stream, stats, feed>>
    BY <1>6 DEF DialFails, BackoffOver, Idle
  <2>2. TypeOK' /\ FeedOK' /\ mode' \in Mode
    BY <2>1, FeedStays DEF IInv, TypeOK, netVars
  <2>3. QueueOK' /\ FreeIsNew'
    BY <2>1 DEF IInv, SocketsOK, QueueOK, FreeIsNew, netVars
  <2>4. AcceptorOK'
    BY <2>1 DEF IInv, SocketsOK, AcceptorOK, netVars
  <2>5. ManyOK' /\ OneOK'
    BY <2>1 DEF IInv, SocketsOK, ManyOK, OneOK, netVars
  <2>6. QED
    BY <2>2, <2>3, <2>4, <2>5 DEF IInv, SocketsOK
<1>7. QED
  BY <1>1, <1>2, <1>3, <1>4, <1>5, <1>6 DEF AcceptorNext

(* The steps of who reads a socket.                                         *)
LEMMA ReadersKeep == ASSUME IInv, ReaderNext PROVE IInv'
<1>0. sock \in [Conn -> SockType] /\ stats \in [Name -> Conn \cup {None}] /\ wants \in [Publisher -> BOOLEAN]
      /\ stream \in [Name -> Conn \cup {None}] /\ Default \in Name
  BY DEF IInv, TypeOK, SockType, Name
<1>1. ASSUME NEW c \in Conn, Relays(c) PROVE IInv'
  <2> DEFINE new == [sock[c] EXCEPT !.data = FALSE]
  <2>1. new \in SockType /\ new.at = sock[c].at /\ new.id = sock[c].id
    BY <1>0 DEF SockType
  <2>2. sock' = [sock EXCEPT ![c] = new] /\ sock[c].at = "open"
    BY <1>1 DEF Relays, Read
  <2> HIDE DEF new
  <2>3. QED
    BY <1>0, <1>1, <2>1, <2>2, StaysWithHolder DEF Relays
<1>2. ASSUME NEW c \in Conn, WaitEnds(c) PROVE IInv'
  <2> DEFINE new == [sock[c] EXCEPT !.at = "closing"]
  <2>1. new \in SockType /\ new.at = "closing" /\ new.id = sock[c].id
    BY <1>0 DEF SockType
  <2>2. sock' = [sock EXCEPT ![c] = new] /\ sock[c].at = "open"
    BY <1>2 DEF WaitEnds, Read
  <2> HIDE DEF new
  <2>3. QED
    BY <1>0, <1>2, <2>1, <2>2, StaysWithHolder DEF WaitEnds, Attached
<1>3. ASSUME NEW c \in Conn, Closed(c) PROVE IInv'
  <2>1. /\ sock[c].at = "closing" /\ sock' = [sock EXCEPT ![c] = Free]
        /\ UNCHANGED <<mode, wants, queue, stats, feed>>
    BY <1>3 DEF Closed
  <2>2. Others(c) /\ sock'[c] = Free /\ Free.at = "free"
    BY <1>0, <2>1, FreeSocket DEF Others
  <2>3. CASE mode = "multi"
    <3>1. /\ stream' = [n \in Name |-> IF stream[n] = c THEN None ELSE stream[n]]
          /\ UNCHANGED acceptor
      BY <1>3, <2>3 DEF Closed
    <3>2. stream' \in [Name -> Conn \cup {None}]
      BY <1>0, <3>1
    <3>3. \A n \in Name : stream'[n] # None => stream[n] = stream'[n] /\ stream[n] # c
      BY <1>0, <3>1
    <3>4. TypeOK'
      BY <2>1, <2>2, <2>3, <3>1, <3>2, <3>3, IngestAssumption DEF Others, IInv, TypeOK, SockType
    <3>5. FeedOK' /\ FreeIsNew' /\ mode' \in Mode /\ QueueOK'
      BY <2>1, <2>2, <2>3, <3>1, <3>2, <3>3, IngestAssumption, OneMoves
    <3>6. AcceptorOK'
      BY <2>1, <2>2, <2>3, <3>1, <3>2, <3>3, IngestAssumption DEF Others, IInv, SocketsOK, AcceptorOK
    <3>7. ManyOK'
      BY <2>1, <2>2, <2>3, <3>1, <3>2, <3>3, IngestAssumption DEF Others, IInv, SocketsOK, ManyOK, TypeOK
    <3>8. OneOK'
      BY <2>1, <2>2, <2>3, <3>1, <3>2, <3>3, IngestAssumption DEF Others, IInv, SocketsOK, OneOK
    <3>9. QED
      BY <3>4, <3>5, <3>6, <3>7, <3>8 DEF IInv, SocketsOK
  <2>4. CASE mode # "multi"
    <3>1. acceptor' = [at |-> "waiting", conn |-> None] /\ UNCHANGED stream
      BY <1>3, <2>4 DEF Closed, Idle
    <3>2. acceptor = [at |-> "busy", conn |-> c]
      BY <2>1, <2>4 DEF IInv, SocketsOK, OneOK
    <3>3. TypeOK'
      BY <2>1, <2>2, <2>4, <3>1, <3>2 DEF Others, IInv, TypeOK, SockType
    <3>4. FeedOK' /\ FreeIsNew' /\ mode' \in Mode /\ QueueOK'
      BY <2>1, <2>2, <2>4, <3>1, <3>2, OneMoves
    <3>5. AcceptorOK'
      BY <2>1, <2>2, <2>4, <3>1, <3>2 DEF Others, IInv, SocketsOK, AcceptorOK
    <3>6. ManyOK'
      BY <2>1, <2>2, <2>4, <3>1, <3>2 DEF Others, IInv, SocketsOK, ManyOK, TypeOK
    <3>7. OneOK'
      BY <2>1, <2>2, <2>4, <3>1, <3>2 DEF Others, IInv, SocketsOK, OneOK
    <3>8. QED
      BY <3>3, <3>4, <3>5, <3>6, <3>7 DEF IInv, SocketsOK
  <2>5. QED
    BY <2>3, <2>4
<1>4. QED
  BY <1>1, <1>2, <1>3 DEF ReaderNext

(* IInv is an inductive invariant of the sources (srt_listener.rs:81-112,   *)
(* srt.rs:138-272, file.rs:90-124).                                         *)
THEOREM Inductive == Spec => []IInv
<1>1. IInv /\ UNCHANGED vars => IInv'
  BY FeedStays DEF vars, netVars, IInv, TypeOK, SocketsOK, QueueOK, FreeIsNew, AcceptorOK, ManyOK, OneOK
<1>2. IInv /\ FileChunk => IInv'
  <2>1. FileChunk => UNCHANGED <<mode, netVars, acceptor, stream, stats>>
    BY DEF FileChunk
  <2>2. IInv /\ FileChunk => TypeOK' /\ mode' \in Mode /\ SocketsOK'
    BY <2>1 DEF netVars, IInv, TypeOK, SocketsOK, QueueOK, FreeIsNew, AcceptorOK, ManyOK, OneOK
  <2>3. QED
    BY <2>2, ChunkKeepsFeed DEF IInv
<1>3. IInv /\ [Next]_vars => IInv'
  BY <1>1, <1>2, PublishersKeep, AcceptorKeeps, ReadersKeep DEF Next
<1>4. QED
  BY <1>3, InitEstablishes, PTL DEF Spec

(* Every variable keeps its type (srt_listener.rs:81-112, srt.rs:138-272).  *)
THEOREM TypeCorrect == Spec => []TypeOK
BY Inductive, PTL DEF IInv

(* No socket is left open without a reader, and none has two, whoever calls,*)
(* vanishes, is refused or takes a name at the same time                    *)
(* (srt_listener.rs:81-112, srt.rs:186-272).                                *)
THEOREM SocketsAreHeld == Spec => []EverySocketIsHeld
<1>1. ASSUME IInv PROVE EverySocketIsHeld
  <2>1. ASSUME NEW c \in Conn PROVE Cardinality(Holders(c)) = (IF sock[c] = Free THEN 0 ELSE 1)
    <3> DEFINE Q == {<<"queue", i>> : i \in {i \in DOMAIN queue : queue[i] = c}}
               H == IF acceptor = [at |-> "accepting", conn |-> c] THEN {<<"handshake", 0>>} ELSE {}
               S == {<<n, 0>> : n \in {n \in Name : stream[n] = c /\ sock[c].at \in {"open", "closing"}}}
    <3>0. Holders(c) = Q \cup H \cup S
      BY DEF Holders
    <3>1. sock[c].at # "queued" => Q = {}
      BY <1>1 DEF IInv, SocketsOK, QueueOK
    <3>2. sock[c].at # "handshake" => H = {}
      BY <1>1 DEF IInv, SocketsOK, AcceptorOK
    <3>3. sock[c].at \notin {"open", "closing"} => S = {}
      OBVIOUS
    <3>4. sock[c].at = "free" <=> sock[c] = Free
      BY <1>1, FreeSocket DEF IInv, SocketsOK, FreeIsNew
    <3>5. CASE sock[c].at = "free"
      <4>1. Holders(c) = {}
        BY <3>0, <3>1, <3>2, <3>3, <3>5
      <4>2. QED
        BY <3>4, <3>5, <4>1, FS_EmptySet
    <3>6. CASE sock[c].at # "free"
      <4>1. \E x : Holders(c) = {x}
        <5>1. CASE sock[c].at = "queued"
          <6>1. PICK i \in DOMAIN queue : queue[i] = c
            BY <1>1, <5>1 DEF IInv, SocketsOK, QueueOK
          <6>2. {j \in DOMAIN queue : queue[j] = c} = {i}
            BY <1>1, <6>1 DEF IInv, SocketsOK, QueueOK
          <6>3. Q = {<<"queue", i>>}
            BY <6>2
          <6>4. QED
            BY <3>0, <3>2, <3>3, <5>1, <6>3
        <5>2. CASE sock[c].at = "handshake"
          <6>1. H = {<<"handshake", 0>>}
            BY <1>1, <5>2 DEF IInv, SocketsOK, AcceptorOK
          <6>2. QED
            BY <3>0, <3>1, <3>3, <5>2, <6>1
        <5>3. CASE sock[c].at \in {"open", "closing"}
          <6> DEFINE name == IF mode = "multi" THEN sock[c].id ELSE Default
          <6>1. name \in Name /\ stream[name] = c
            BY <1>1, <5>3 DEF IInv, SocketsOK, ManyOK, OneOK, TypeOK, Name
          <6>2. \A n \in Name : stream[n] = c => n = name
            BY <1>1, <5>3, IngestAssumption DEF IInv, SocketsOK, ManyOK, OneOK
          <6> HIDE DEF name
          <6>3. {n \in Name : stream[n] = c /\ sock[c].at \in {"open", "closing"}} = {name}
            BY <5>3, <6>1, <6>2
          <6>4. S = {<<name, 0>>}
            BY <6>3
          <6>5. QED
            BY <3>0, <3>1, <3>2, <5>3, <6>4
        <5>4. sock[c].at \in {"free", "queued", "handshake", "open", "closing"}
          BY <1>1 DEF IInv, TypeOK
        <5>5. QED
          BY <3>6, <5>1, <5>2, <5>3, <5>4
      <4>2. QED
        BY <3>4, <3>6, <4>1, FS_Singleton
    <3>7. QED
      BY <3>5, <3>6
  <2>2. mode = "multi" => \A n \in Name : stream[n] # None => sock[stream[n]].at \in {"open", "closing"}
    BY <1>1 DEF IInv, SocketsOK, ManyOK
  <2>3. QED
    BY <2>1, <2>2 DEF EverySocketIsHeld
<1>2. QED
  BY <1>1, Inductive, PTL

(* The check never complains inside the file: about each PID once for every *)
(* loop at most, and never about one whose counters line up at the loop,    *)
(* whatever the files, the PIDs, the message and the modulus                *)
(* (file.rs:90-124, continuity.rs:95-131).                                  *)
THEOREM NoGapInsideTheFile == Spec => []GapsOnlyAtLoops
<1>1. IInv => GapsOnlyAtLoops
  BY DEF IInv, FeedOK, PidOK, GapsOnlyAtLoops
<1>2. QED
  BY <1>1, Inductive, PTL
-----------------------------------------------------------------------------
(* The application.  A run is live from the click on Start to its report;   *)
(* there is one live run at most, and a window holds the channel of it.  A  *)
(* whole file is that of the last run whose save was not refused.           *)
Ending == {"Stopped", "Error"}
Live(r) == starter[r] \notin {"idle", "done"}
AppInv ==
  /\ AppTypeOK /\ chan \in [Run -> Seq({"Started"} \cup Ending)]
  /\ gui.state = "Closed" => gui = NoWindow
  /\ gui.state \in {"Stopped", "Headless", "Interrupted"} => gui.rx = 0
  /\ gui.shutdown \in {0, gui.rx} /\ (gui.state = "Running" => gui.shutdown # 0)
  /\ \A r \in Run : Live(r) => gui.rx = r \/ Headless
  /\ \A r, s \in Run : Live(r) /\ Live(s) => r = s
  /\ \A r \in Run : ~Over(r, "run") => starter[r] = "awaiting"
  /\ \A r \in Run : \A i \in DOMAIN chan[r] : chan[r][i] \in Ending => starter[r] = "done"
  /\ kept.save = "whole" <=> file.state = "whole"
  /\ file.state = "whole" => file.form = kept.form

LEMMA InitApp == AppInit => AppInv
<1> SUFFICES ASSUME AppInit PROVE AppInv
  OBVIOUS
<1>1. AppTypeOK
  BY AppAssumption DEF AppInit, AppTypeOK, NoWindow, FromCli, Cli, NoTask, Config
<1>2. chan \in [Run -> Seq({"Started"} \cup Ending)] /\ \A r \in Run : DOMAIN chan[r] = {}
  BY DEF AppInit
<1>3. \A r \in Run : Over(r, "run") /\ ~Live(r)
  BY DEF AppInit, Over, NoTask, Live, Task
<1>4. QED
  BY <1>1, <1>2, <1>3 DEF AppInv, AppInit, NoWindow

(* The tasks of a run after a notify_waiters, seen from outside.            *)
LEMMA NotifyKeeps ==
  ASSUME AppInv, NEW r \in Run, task' = NotifyWaiters(r, task)
  PROVE  /\ task' \in [Run -> [Task -> [at : {"none", "spawned", "serving", "accepting", "ended", "failed"},
                                        waits : BOOLEAN, told : BOOLEAN]]]
         /\ \A s \in Run, k \in Task : task'[s][k].at = task[s][k].at
<1>1. task \in [Run -> [Task -> [at : {"none", "spawned", "serving", "accepting", "ended", "failed"},
                                 waits : BOOLEAN, told : BOOLEAN]]]
  BY DEF AppInv, AppTypeOK
<1> DEFINE row == [k \in Task |-> IF task[r][k].waits
                                  THEN [task[r][k] EXCEPT !.waits = FALSE, !.told = TRUE]
                                  ELSE task[r][k]]
<1>2. /\ row \in [Task -> [at : {"none", "spawned", "serving", "accepting", "ended", "failed"},
                           waits : BOOLEAN, told : BOOLEAN]]
      /\ \A k \in Task : row[k].at = task[r][k].at
  <2>1. ASSUME NEW k \in Task
        PROVE  /\ row[k] \in [at : {"none", "spawned", "serving", "accepting", "ended", "failed"},
                              waits : BOOLEAN, told : BOOLEAN]
               /\ row[k].at = task[r][k].at
    <3> DEFINE t == task[r][k]
    <3>1. /\ t \in [at : {"none", "spawned", "serving", "accepting", "ended", "failed"},
                    waits : BOOLEAN, told : BOOLEAN]
          /\ row[k] = IF t.waits THEN [t EXCEPT !.waits = FALSE, !.told = TRUE] ELSE t
      BY <1>1
    <3> HIDE DEF t, row
    <3>2. row[k] \in [at : {"none", "spawned", "serving", "accepting", "ended", "failed"},
                      waits : BOOLEAN, told : BOOLEAN] /\ row[k].at = t.at
      BY <3>1
    <3>3. QED
      BY <3>2 DEF t
  <2>2. QED
    BY <2>1
<1>3. task' = [task EXCEPT ![r] = row]
  BY DEF NotifyWaiters
<1> HIDE DEF row
<1>4. QED
  BY <1>1, <1>2, <1>3

(* A window or a program without one starts the next run.                   *)
LEMMA StartKeeps ==
  ASSUME AppInv, NEW r \in Run,
         NextRun(r), starter' = [starter EXCEPT ![r] = "setup"], \A s \in Run : ~Live(s),
         UNCHANGED <<task, chan>>
  PROVE  /\ \A s \in Run : Live(s)' => s = r
         /\ \A s \in Run : ~Over(s, "run")' => starter'[s] = "awaiting"
         /\ \A s \in Run : \A i \in DOMAIN chan'[s] : chan'[s][i] \in Ending => starter'[s] = "done"
         /\ starter' \in [Run -> {"idle", "setup", "building", "awaiting", "stopping", "failing", "done"}]
<1>1. \A s \in Run : starter'[s] = IF s = r THEN "setup" ELSE starter[s]
  BY DEF AppInv, AppTypeOK
<1>2. starter[r] = "idle"
  BY DEF NextRun
<1>3. QED
  BY <1>1, <1>2 DEF AppInv, AppTypeOK, Live, Over

LEMMA Windows ==
  ASSUME AppInv, gui.state \in {"Closed", "Stopped"}
  PROVE  gui.rx = 0 /\ gui.shutdown = 0 /\ \A s \in Run : ~Live(s)
<1>1. gui.rx = 0 /\ ~Headless /\ 0 \notin Run
  BY DEF AppInv, NoWindow, Headless, Run
<1>2. QED
  BY <1>1 DEF AppInv

LEMMA StartsApp ==
  ASSUME AppInv, NEW r \in Run, Launch(r) \/ LaunchHeadless(r) \/ StartClicked(r)
  PROVE  AppInv'
<1>1. gui.state \in {"Closed", "Stopped"}
  BY DEF Launch, LaunchHeadless, StartClicked
<1>2. gui.rx = 0 /\ gui.shutdown = 0 /\ \A s \in Run : ~Live(s)
  BY <1>1, Windows
<1>3. NextRun(r) /\ starter' = [starter EXCEPT ![r] = "setup"] /\ UNCHANGED <<task, chan>>
  BY DEF Launch, LaunchHeadless, StartClicked, StartWith
<1>4. /\ \A s \in Run : Live(s)' => s = r
      /\ \A s \in Run : ~Over(s, "run")' => starter'[s] = "awaiting"
      /\ \A s \in Run : \A i \in DOMAIN chan'[s] : chan'[s][i] \in Ending => starter'[s] = "done"
      /\ starter' \in [Run -> {"idle", "setup", "building", "awaiting", "stopping", "failing", "done"}]
  BY <1>2, <1>3, StartKeeps
<1>5. ASSUME NEW cfg \in Config, StartWith(r, cfg), launches' \in 0..MaxLaunches
      PROVE  AppInv'
  <2>1. PICK how \in Outcome :
          /\ file' = Save(cfg, how)
          /\ kept' = IF how = "refused" THEN kept ELSE [form |-> cfg.form, save |-> how]
    BY <1>5 DEF StartWith
  <2>2. gui' = [state |-> "Starting", rx |-> r, shutdown |-> 0]
    BY <1>2, <1>5 DEF StartWith, AppInv, AppTypeOK
  <2>3. /\ file' \in [form : Form, state : {"absent", "whole", "corrupt"}]
        /\ kept' \in [form : Form, save : {"none", "whole", "torn"}]
        /\ kept'.save = "whole" <=> file'.state = "whole"
        /\ file'.state = "whole" => file'.form = kept'.form
    BY <2>1 DEF Save, Outcome, Config, AppInv, AppTypeOK
  <2>4. AppTypeOK'
    <3>1. config' \in Config
      BY <1>5 DEF StartWith
    <3>2. QED
      BY <1>3, <1>4, <1>5, <2>2, <2>3, <3>1 DEF AppInv, AppTypeOK
  <2>5. gui'.state = "Starting" /\ gui'.rx = r /\ gui'.shutdown = 0
    BY <2>2
  <2>6. \A s \in Run : Live(s)' => gui'.rx = s \/ Headless'
    BY <1>4, <2>5
  <2>7. \A s, u \in Run : Live(s)' /\ Live(u)' => s = u
    BY <1>4
  <2>8. QED
    BY <1>3, <1>4, <2>3, <2>4, <2>5, <2>6, <2>7 DEF AppInv
<1>6. CASE Launch(r)
  <2>1. Loaded \in Config
    BY AppAssumption DEF Loaded, FromCli, Cli, Config, AppInv, AppTypeOK
  <2>2. launches' \in 0..MaxLaunches
    BY <1>6, AppAssumption DEF Launch, AppInv, AppTypeOK
  <2>3. QED
    BY <1>5, <1>6, <2>1, <2>2 DEF Launch
<1>7. CASE StartClicked(r)
  BY <1>5, <1>7 DEF StartClicked, AppInv, AppTypeOK
<1>8. CASE LaunchHeadless(r)
  <2>1. gui' = [state |-> "Headless", rx |-> 0, shutdown |-> 0]
    BY <1>8, <1>2 DEF LaunchHeadless, AppInv, AppTypeOK
  <2>2. launches' \in 0..MaxLaunches
    BY <1>8, AppAssumption DEF LaunchHeadless, AppInv, AppTypeOK
  <2>3. AppTypeOK'
    BY ZenonT(40), <1>3, <1>4, <1>8, <2>1, <2>2 DEF AppInv, AppTypeOK, LaunchHeadless
  <2>4. QED
    BY <1>3, <1>4, <1>8, <2>1, <2>3 DEF AppInv, LaunchHeadless, Headless
<1>9. QED
  BY <1>6, <1>7, <1>8

LEMMA ExitApp ==
  ASSUME AppInv, Exit
  PROVE  AppInv'
<1>1. /\ gui' = [state |-> "Closed", rx |-> 0, shutdown |-> 0]
      /\ \A s \in Run : starter'[s] \in {"idle", "done"} /\ chan'[s] = <<>> /\ task'[s]["run"].at = "none"
      /\ UNCHANGED <<file, kept, launches>>
  BY DEF Exit, NoWindow, NoTask, Task
<1>2. AppTypeOK' /\ chan' \in [Run -> Seq({"Started"} \cup Ending)]
  BY <1>1, AppAssumption DEF Exit, AppInv, AppTypeOK, NoTask, FromCli, Cli, Config
<1>3. \A s \in Run : DOMAIN chan'[s] = {} /\ ~Live(s)' /\ Over(s, "run")'
  BY <1>1 DEF Live, Over
<1>4. QED
  BY <1>1, <1>2, <1>3 DEF AppInv, NoWindow

TaskTable ==
  [Run -> [Task -> [at : {"none", "spawned", "serving", "accepting", "ended", "failed"},
                    waits : BOOLEAN, told : BOOLEAN]]]
SettingsStay == UNCHANGED <<config, file, kept, launches>>

(* What the invariant needs of a step of the window, or of a task of a run, *)
(* that starts no run and ends no program.                                  *)
LEMMA GoesOn ==
  ASSUME AppInv, SettingsStay, task' \in TaskTable,
         chan' \in [Run -> Seq({"Started"} \cup Ending)],
         starter' \in [Run -> {"idle", "setup", "building", "awaiting", "stopping", "failing", "done"}],
         gui' \in [state : {"Closed", "Stopped", "Starting", "Running", "Stopping",
                             "Headless", "Interrupted"},
                   rx : {0} \cup Run, shutdown : {0} \cup Run],
         gui'.state # "Closed", gui'.state \in {"Stopped", "Headless", "Interrupted"} => gui'.rx = 0,
         gui'.shutdown \in {0, gui'.rx}, gui'.state = "Running" => gui'.shutdown # 0,
         \A s \in Run : Live(s)' => Live(s) /\ (gui'.rx = s \/ Headless'),
         \A s \in Run : ~Over(s, "run")' => starter'[s] = "awaiting",
         \A s \in Run : \A i \in DOMAIN chan'[s] : chan'[s][i] \in Ending => starter'[s] = "done"
  PROVE  AppInv'
<1>1. AppTypeOK'
  BY DEF AppInv, AppTypeOK, TaskTable, SettingsStay
<1>2. \A s, u \in Run : Live(s)' /\ Live(u)' => s = u
  BY DEF AppInv
<1>3. /\ kept'.save = "whole" <=> file'.state = "whole"
      /\ file'.state = "whole" => file'.form = kept'.form
  BY DEF AppInv, SettingsStay
<1>4. QED
  BY <1>1, <1>2, <1>3 DEF AppInv

(* The window.                                                              *)
LEMMA WindowApp ==
  ASSUME AppInv, StopClicked \/ \E r \in Run : CtrlC(r) \/ PollStarted(r) \/ PollOver(r)
  PROVE  AppInv'
<1>1. SettingsStay /\ UNCHANGED starter /\ 0 \notin Run
  <2>1. 0 \notin Run
    BY DEF Run
  <2>2. CASE StopClicked
    BY <2>1, <2>2 DEF SettingsStay, StopClicked
  <2>3. ASSUME NEW r \in Run, CtrlC(r) \/ PollStarted(r) \/ PollOver(r)
        PROVE  SettingsStay /\ UNCHANGED starter
    BY <2>3 DEF SettingsStay, CtrlC, PollStarted, PollOver
  <2>4. QED
    BY <2>1, <2>2, <2>3
<1>2. gui \in [state : {"Closed", "Stopped", "Starting", "Running", "Stopping",
                         "Headless", "Interrupted"},
               rx : {0} \cup Run, shutdown : {0} \cup Run]
  BY DEF AppInv, AppTypeOK
<1>3. /\ task \in TaskTable /\ chan \in [Run -> Seq({"Started"} \cup Ending)]
      /\ starter' \in [Run -> {"idle", "setup", "building", "awaiting", "stopping", "failing", "done"}]
  BY <1>1 DEF AppInv, AppTypeOK, TaskTable
<1>4. ASSUME task' = task \/ \E r \in Run : task' = NotifyWaiters(r, task)
      PROVE  task' \in TaskTable /\ \A s \in Run : ~Over(s, "run")' => starter'[s] = "awaiting"
  <2>1. task' \in TaskTable /\ \A s \in Run : task'[s]["run"].at = task[s]["run"].at
    BY <1>3, <1>4, NotifyKeeps DEF TaskTable, Task
  <2>2. QED
    BY <1>1, <2>1 DEF AppInv, Over
<1>5. ASSUME chan' = chan \/ \E r \in Run : chan[r] # <<>> /\ chan' = [chan EXCEPT ![r] = Tail(@)]
      PROVE  /\ chan' \in [Run -> Seq({"Started"} \cup Ending)]
             /\ \A s \in Run : \A i \in DOMAIN chan'[s] : chan'[s][i] \in Ending => starter'[s] = "done"
  <2>1. CASE chan' = chan
    BY <1>1, <1>3, <2>1 DEF AppInv
  <2>2. ASSUME NEW r \in Run, chan[r] # <<>>, chan' = [chan EXCEPT ![r] = Tail(@)]
        PROVE  /\ chan' \in [Run -> Seq({"Started"} \cup Ending)]
               /\ \A s \in Run : \A i \in DOMAIN chan'[s] : chan'[s][i] \in Ending => starter'[s] = "done"
    <3>1. /\ Tail(chan[r]) \in Seq({"Started"} \cup Ending)
          /\ \A i \in DOMAIN Tail(chan[r]) : i + 1 \in DOMAIN chan[r] /\ Tail(chan[r])[i] = chan[r][i + 1]
      BY <1>3, <2>2
    <3>2. \A s \in Run : chan'[s] = IF s = r THEN Tail(chan[r]) ELSE chan[s]
      BY <1>3, <2>2
    <3>3. ASSUME NEW s \in Run, NEW i \in DOMAIN chan'[s], chan'[s][i] \in Ending
          PROVE  starter'[s] = "done"
      BY ZenonT(40), <1>1, <3>1, <3>2, <3>3 DEF AppInv
    <3>4. QED
      BY <1>3, <2>2, <3>1, <3>3
  <2>3. QED
    BY <1>5, <2>1, <2>2
<1>6. CASE StopClicked
  <2>1. gui' = [state |-> "Stopping", rx |-> gui.rx, shutdown |-> gui.shutdown]
    BY <1>2, <1>6 DEF StopClicked
  <2>2. task' = task \/ \E r \in Run : task' = NotifyWaiters(r, task)
    BY <1>2, <1>6 DEF StopClicked
  <2>3. chan' = chan /\ \A s \in Run : Live(s)' => Live(s) /\ gui'.rx = s
    BY <1>1, <1>6, <2>1 DEF StopClicked, AppInv, Live, Headless
  <2>4. QED
    BY <1>1, <1>2, <1>3, <1>4, <1>5, <2>1, <2>2, <2>3, GoesOn DEF AppInv
<1>7. ASSUME NEW r \in Run, CtrlC(r) PROVE AppInv'
  <2>1. gui' = [state |-> "Interrupted", rx |-> gui.rx, shutdown |-> gui.shutdown] /\ gui.state = "Headless"
    BY <1>2, <1>7 DEF CtrlC
  <2>2. chan' = chan /\ Headless' /\ \A s \in Run : Live(s)' => Live(s)
    BY <1>1, <1>7, <2>1 DEF CtrlC, Live, Headless
  <2>3. task' = NotifyWaiters(r, task)
    BY <1>7 DEF CtrlC
  <2>4. QED
    BY <1>1, <1>2, <1>3, <1>4, <1>5, <2>1, <2>2, <2>3, GoesOn DEF AppInv
<1>8. ASSUME NEW r \in Run, PollStarted(r) PROVE AppInv'
  <2>1. /\ gui.rx = r /\ ~Headless /\ gui.state \notin {"Closed", "Stopped"}
        /\ gui' = [state |-> IF gui.state = "Stopping" THEN "Stopping" ELSE "Running",
                   rx |-> r, shutdown |-> r]
    <3>1. gui.rx = r /\ r # 0
      BY <1>1, <1>8 DEF PollStarted
    <3>2. ~Headless /\ gui.state \notin {"Closed", "Stopped"}
      BY <3>1 DEF AppInv, NoWindow, Headless
    <3>3. gui' = IF gui.state = "Stopping" THEN [gui EXCEPT !.shutdown = r]
                 ELSE [gui EXCEPT !.shutdown = r, !.state = "Running"]
      BY <1>8 DEF PollStarted
    <3>4. QED
      BY <1>2, <3>1, <3>2, <3>3
  <2>2. \A s \in Run : Live(s)' => Live(s) /\ gui'.rx = s
    BY <1>1, <2>1 DEF Live, AppInv
  <2>3. task' = task \/ task' = NotifyWaiters(r, task)
    BY <1>8 DEF PollStarted
  <2>4. chan[r] # <<>> /\ chan' = [chan EXCEPT ![r] = Tail(@)]
    BY <1>8 DEF PollStarted
  <2>5. QED
    BY <1>1, <1>2, <1>3, <1>4, <1>5, <2>1, <2>2, <2>3, <2>4, GoesOn DEF AppInv
<1>9. ASSUME NEW r \in Run, PollOver(r) PROVE AppInv'
  <2>1. /\ gui.rx = r /\ gui' = [state |-> "Stopped", rx |-> 0, shutdown |-> 0] /\ task' = task
        /\ chan[r] # <<>> /\ chan' = [chan EXCEPT ![r] = Tail(@)] /\ Head(chan[r]) \in Ending
    BY <1>9 DEF PollOver, Ending
  <2>2. 1 \in DOMAIN chan[r] /\ chan[r][1] \in Ending /\ ~Headless
    BY <1>1, <1>2, <1>3, <2>1 DEF AppInv, Headless
  <2>3. starter[r] = "done"
    BY <2>2 DEF AppInv
  <2>4. \A s \in Run : ~Live(s)'
    BY <1>1, <2>1, <2>2, <2>3 DEF AppInv, Live
  <2>5. QED
    BY <1>1, <1>2, <1>3, <1>4, <1>5, <2>1, <2>4, GoesOn DEF AppInv
<1>10. QED
  BY <1>6, <1>7, <1>8, <1>9

(* The window may show the form only; or the program ends.                  *)
LEMMA FormApp ==
  ASSUME AppInv, (\E cfg \in Config : Edit(cfg)) \/ Exit \/ \E r \in Run : HeadlessOver(r)
  PROVE  AppInv'
<1>1. ASSUME NEW cfg \in Config, Edit(cfg) PROVE AppInv'
  <2>1. config' = cfg /\ UNCHANGED <<gui, file, starter, task, chan, kept, launches>>
    BY <1>1 DEF Edit, runVars
  <2>2. AppTypeOK'
    BY <2>1 DEF AppInv, AppTypeOK
  <2>3. Headless' <=> Headless
    BY <2>1 DEF Headless
  <2>4. (\A s \in Run : Live(s)' <=> Live(s)) /\ \A s \in Run : Over(s, "run")' <=> Over(s, "run")
    BY <2>1 DEF Live, Over
  <2>5. QED
    BY <2>1, <2>2, <2>3, <2>4 DEF AppInv, NoWindow
<1>2. CASE Exit \/ \E r \in Run : HeadlessOver(r)
  BY <1>2, ExitApp DEF HeadlessOver
<1>3. QED
  BY <1>1, <1>2

(* The run: starter and tasks.                                              *)
LEMMA Reporting ==
  ASSUME AppInv, NEW r \in Run, NEW msg \in {"Started"} \cup Ending, Send(r, msg),
         msg \in Ending => starter'[r] = "done",
         \A s \in Run : starter[s] = "done" => starter'[s] = "done"
  PROVE  /\ chan' \in [Run -> Seq({"Started"} \cup Ending)]
         /\ \A s \in Run : \A i \in DOMAIN chan'[s] : chan'[s][i] \in Ending => starter'[s] = "done"
<1>1. chan \in [Run -> Seq({"Started"} \cup Ending)]
  BY DEF AppInv
<1>2. CASE chan' = chan
  BY <1>1, <1>2 DEF AppInv
<1>3. CASE chan' = [chan EXCEPT ![r] = Append(@, msg)]
  <2>1. \A s \in Run : chan'[s] = IF s = r THEN Append(chan[r], msg) ELSE chan[s]
    BY <1>1, <1>3
  <2>2. Append(chan[r], msg) \in Seq({"Started"} \cup Ending)
    BY <1>1
  <2>3. ASSUME NEW s \in Run, NEW i \in DOMAIN chan'[s], chan'[s][i] \in Ending
        PROVE  starter'[s] = "done"
    <3>1. CASE s = r
      <4>1. chan'[s] = Append(chan[r], msg)
        BY <2>1, <3>1
      <4>2. (i \in DOMAIN chan[r] /\ chan'[s][i] = chan[r][i]) \/ chan'[s][i] = msg
        BY <1>1, <4>1
      <4>3. QED
        BY <2>3, <3>1, <4>2 DEF AppInv
    <3>2. CASE s # r
      BY <2>1, <2>3, <3>2 DEF AppInv
    <3>3. QED
      BY <3>1, <3>2
  <2>4. QED
    BY <1>1, <1>3, <2>2, <2>3
<1>4. QED
  BY <1>2, <1>3 DEF Send

LEMMA SpawnKeeps ==
  ASSUME AppInv, NEW r \in Run, NEW kinds \in SUBSET Task, Spawned(r, kinds)
  PROVE  /\ task' \in TaskTable
         /\ \A s \in Run : s # r => task'[s] = task[s]
         /\ "run" \notin kinds => task'[r]["run"] = task[r]["run"]
<1>1. task \in TaskTable
  BY DEF AppInv, AppTypeOK, TaskTable
<1> DEFINE row == [k \in Task |-> IF k \in kinds THEN [NoTask EXCEPT !.at = "spawned"] ELSE task[r][k]]
<1>2. row \in [Task -> [at : {"none", "spawned", "serving", "accepting", "ended", "failed"},
                        waits : BOOLEAN, told : BOOLEAN]]
  BY <1>1 DEF TaskTable, NoTask
<1>3. "run" \notin kinds => row["run"] = task[r]["run"]
  BY DEF Task
<1>4. task' = [task EXCEPT ![r] = row]
  BY DEF Spawned
<1> HIDE DEF row
<1>5. QED
  BY <1>1, <1>2, <1>3, <1>4 DEF TaskTable

LEMMA StarterApp ==
  ASSUME AppInv, NEW r \in Run,
         CertReady(r) \/ GatewayReady(r) \/ SetupFails(r) \/ RunOver(r) \/ Report(r)
  PROVE  AppInv'
<1>1. /\ gui \in [state : {"Closed", "Stopped", "Starting", "Running", "Stopping",
                            "Headless", "Interrupted"},
                  rx : {0} \cup Run, shutdown : {0} \cup Run]
      /\ task \in TaskTable /\ chan \in [Run -> Seq({"Started"} \cup Ending)]
      /\ starter \in [Run -> {"idle", "setup", "building", "awaiting", "stopping", "failing", "done"}]
  BY DEF AppInv, AppTypeOK, TaskTable
<1>2. SettingsStay /\ UNCHANGED gui /\ Live(r)
  BY DEF SettingsStay, CertReady, GatewayReady, SetupFails, RunOver, Report, Live
<1>3. PICK pc \in {"building", "awaiting", "stopping", "failing", "done"} :
        starter' = [starter EXCEPT ![r] = pc]
  BY DEF CertReady, GatewayReady, SetupFails, RunOver, Report
<1>4. \A s \in Run : starter'[s] = IF s = r THEN pc ELSE starter[s]
  BY <1>1, <1>3
<1>5. (Headless' <=> Headless) /\ 0 \notin Run
  BY <1>2 DEF Headless, Run
<1>6. \A s \in Run : Live(s)' => Live(s) /\ (gui'.rx = s \/ Headless')
  BY <1>2, <1>4, <1>5 DEF Live, AppInv
<1>7. gui'.state # "Closed" /\ starter[r] # "done"
  BY <1>2, <1>5 DEF AppInv, NoWindow, Headless, Live
<1>8. starter' \in [Run -> {"idle", "setup", "building", "awaiting", "stopping", "failing", "done"}]
  BY <1>1, <1>3
<1>9. ASSUME task' \in TaskTable, \A s \in Run : ~Over(s, "run")' => starter'[s] = "awaiting",
             chan' \in [Run -> Seq({"Started"} \cup Ending)],
             \A s \in Run : \A i \in DOMAIN chan'[s] : chan'[s][i] \in Ending => starter'[s] = "done"
      PROVE  AppInv'
  BY <1>1, <1>2, <1>6, <1>7, <1>8, <1>9, GoesOn DEF AppInv
<1>10. ASSUME chan' = chan
       PROVE  /\ chan' \in [Run -> Seq({"Started"} \cup Ending)]
              /\ \A s \in Run : \A i \in DOMAIN chan'[s] : chan'[s][i] \in Ending => starter'[s] = "done"
  BY <1>4, <1>7, <1>10 DEF AppInv
<1>11. \A s \in Run : starter[s] = "done" => starter'[s] = "done"
  BY <1>4, <1>7
<1>12. ASSUME NEW s \in Run, s # r, task'[s]["run"].at = task[s]["run"].at, ~Over(s, "run")'
       PROVE  starter'[s] = "awaiting"
  BY <1>4, <1>12 DEF AppInv, Over
<1>13. Over(r, "run") \/ starter[r] = "awaiting"
  BY DEF AppInv
<1>14. CASE CertReady(r)
  <2>1. Spawned(r, Service \cap {"web"}) /\ starter[r] = "setup" /\ chan' = chan
    BY <1>14 DEF CertReady
  <2>2. /\ task' \in TaskTable /\ \A s \in Run : s # r => task'[s] = task[s]
        /\ task'[r]["run"] = task[r]["run"]
    BY <2>1, SpawnKeeps DEF Task
  <2>3. Over(r, "run")'
    BY <1>13, <2>1, <2>2 DEF Over
  <2>4. QED
    BY <1>9, <1>10, <1>12, <2>1, <2>2, <2>3
<1>15. CASE GatewayReady(r)
  <2>1. Spawned(r, Task \ {"web"}) /\ Send(r, "Started") /\ starter' = [starter EXCEPT ![r] = "awaiting"]
    BY <1>15 DEF GatewayReady
  <2>2. task' \in TaskTable /\ \A s \in Run : s # r => task'[s] = task[s]
    BY <2>1, SpawnKeeps
  <2>3. /\ chan' \in [Run -> Seq({"Started"} \cup Ending)]
        /\ \A s \in Run : \A i \in DOMAIN chan'[s] : chan'[s][i] \in Ending => starter'[s] = "done"
    BY <1>11, <2>1, Reporting DEF Ending
  <2>4. starter'[r] = "awaiting"
    BY <1>1, <2>1
  <2>5. QED
    BY <1>9, <1>12, <2>2, <2>3, <2>4
<1>16. CASE SetupFails(r) \/ Report(r)
  <2>1. task' = task /\ starter[r] # "awaiting" /\ starter' = [starter EXCEPT ![r] = "done"]
    BY <1>16 DEF SetupFails, Report
  <2>2. Send(r, "Error") \/ Send(r, "Stopped")
    BY <1>16 DEF SetupFails, Report
  <2>3. starter'[r] = "done"
    BY <1>1, <2>1
  <2>4. /\ chan' \in [Run -> Seq({"Started"} \cup Ending)]
        /\ \A s \in Run : \A i \in DOMAIN chan'[s] : chan'[s][i] \in Ending => starter'[s] = "done"
    BY <1>11, <2>2, <2>3, Reporting DEF Ending
  <2>5. Over(r, "run")'
    BY <1>13, <2>1 DEF Over
  <2>6. QED
    BY <1>1, <1>9, <1>12, <2>1, <2>4, <2>5
<1>17. CASE RunOver(r)
  <2>1. chan' = chan /\ Over(r, "run") /\ (task' = task \/ task' = NotifyWaiters(r, task))
    BY <1>17 DEF RunOver, Over
  <2>2. task' \in TaskTable /\ \A s \in Run : task'[s]["run"].at = task[s]["run"].at
    BY <1>1, <2>1, NotifyKeeps DEF TaskTable, Task
  <2>3. Over(r, "run")'
    BY <2>1, <2>2 DEF Over
  <2>4. QED
    BY <1>9, <1>10, <1>12, <2>1, <2>2, <2>3
<1>18. QED
  BY <1>14, <1>15, <1>16, <1>17

(* A task: only one that is not over takes a step.                          *)
LEMMA TaskApp ==
  ASSUME AppInv, NEW r \in Run, NEW k \in Task, TaskNext(r, k)
  PROVE  AppInv'
<1>1. task \in TaskTable
  BY DEF AppInv, AppTypeOK, TaskTable
<1>2. task[r][k] \in [at : {"none", "spawned", "serving", "accepting", "ended", "failed"},
                      waits : BOOLEAN, told : BOOLEAN]
  BY <1>1 DEF TaskTable
<1>3. PICK u \in {r}, j \in {k}, next \in [at : {"none", "spawned", "serving", "accepting", "ended", "failed"},
                                           waits : BOOLEAN, told : BOOLEAN] :
        Step(u, j, next) /\ (task[u][j].at \in {"none", "ended", "failed"} => next.at = task[u][j].at)
  <2>1. \A b \in {"serving", "accepting"} : [task[r][k] EXCEPT !.at = b] \in
            [at : {"none", "spawned", "serving", "accepting", "ended", "failed"},
             waits : BOOLEAN, told : BOOLEAN]
    BY <1>2
  <2>2. [task[r][k] EXCEPT !.waits = TRUE] \in
            [at : {"none", "spawned", "serving", "accepting", "ended", "failed"},
             waits : BOOLEAN, told : BOOLEAN]
        /\ [task[r][k] EXCEPT !.waits = TRUE].at = task[r][k].at
    BY <1>2
  <2>3. \A b \in {"ended", "failed"} : [NoTask EXCEPT !.at = b] \in
            [at : {"none", "spawned", "serving", "accepting", "ended", "failed"},
             waits : BOOLEAN, told : BOOLEAN]
    BY DEF NoTask
  <2>4. CASE TakesNotified(r, k)
    BY <2>2, <2>4 DEF TakesNotified
  <2>5. CASE Binds(r, k)
    BY <2>1, <2>5 DEF Binds, MayBind
  <2>6. CASE BindFails(r, k)
    BY <2>3, <2>6 DEF BindFails, MayBind
  <2>7. CASE Ends(r, k)
    BY <2>3, <2>7 DEF Ends, Serving
  <2>8. CASE k = "srt" /\ Accepting(r)
    <3>1. [task[r][k] EXCEPT !.at = "accepting", !.waits = FALSE] \in
            [at : {"none", "spawned", "serving", "accepting", "ended", "failed"},
             waits : BOOLEAN, told : BOOLEAN]
      BY <1>2
    <3>2. QED
      BY <2>8, <3>1 DEF Accepting
  <2>9. CASE k = "srt" /\ Accepted(r)
    BY <2>1, <2>9 DEF Accepted
  <2>10. QED
    BY <2>4, <2>5, <2>6, <2>7, <2>8, <2>9 DEF TaskNext
<1>4. /\ task' = [task EXCEPT ![r][k] = next]
      /\ SettingsStay /\ UNCHANGED <<gui, starter, chan>>
  BY <1>3 DEF Step, SettingsStay
<1>5. task' \in TaskTable
  BY <1>1, <1>4 DEF TaskTable
<1>6. \A s \in Run : task'[s]["run"].at = task[s]["run"].at \/ (s = r /\ ~Over(r, "run"))
  <2>1. "run" \in Task /\ (task[r][k].at \in {"none", "ended", "failed"} => next.at = task[r][k].at)
    BY <1>3 DEF Task
  <2>2. \A s \in Run : task'[s]["run"] = IF s = r /\ k = "run" THEN next ELSE task[s]["run"]
    BY <1>1, <1>4, <2>1 DEF TaskTable
  <2>3. QED
    BY <2>1, <2>2 DEF Over
<1>7. \A s \in Run : ~Over(s, "run")' => starter'[s] = "awaiting"
  BY <1>4, <1>6 DEF AppInv, Over
<1>8. (Headless' <=> Headless) /\ \A s \in Run : Live(s)' <=> Live(s)
  BY <1>4 DEF Headless, Live
<1>9. AppTypeOK'
  BY <1>4, <1>5 DEF AppInv, AppTypeOK, TaskTable, SettingsStay
<1>10. QED
  BY <1>4, <1>7, <1>8, <1>9 DEF AppInv, SettingsStay, NoWindow

LEMMA NextApp == AppInv /\ [AppNext]_appVars => AppInv'
<1> SUFFICES ASSUME AppInv, [AppNext]_appVars PROVE AppInv'
  OBVIOUS
<1>1. CASE UNCHANGED appVars
  <2>1. UNCHANGED <<gui, config, file, starter, task, chan, kept, launches>>
    BY <1>1 DEF appVars, runVars
  <2>2. QED
    BY <2>1 DEF AppInv, AppTypeOK, Headless, Live, Over, NoWindow
<1>2. CASE AppNext
  <2>1. CASE StopClicked \/ \E r \in Run : CtrlC(r) \/ PollStarted(r) \/ PollOver(r)
    BY <2>1, WindowApp
  <2>2. CASE (\E cfg \in Config : Edit(cfg)) \/ Exit \/ \E r \in Run : HeadlessOver(r)
    BY <2>2, FormApp
  <2>3. ASSUME NEW r \in Run, Launch(r) \/ LaunchHeadless(r) \/ StartClicked(r) PROVE AppInv'
    BY <2>3, StartsApp
  <2>4. ASSUME NEW r \in Run, CertReady(r) \/ GatewayReady(r) \/ SetupFails(r) \/ RunOver(r) \/ Report(r)
        PROVE  AppInv'
    BY <2>4, StarterApp
  <2>5. ASSUME NEW r \in Run, NEW k \in Task, TaskNext(r, k) PROVE AppInv'
    BY <2>5, TaskApp
  <2>6. QED
    BY <1>2, <2>1, <2>2, <2>3, <2>4, <2>5 DEF AppNext, StarterNext
<1>3. QED
  BY <1>1, <1>2

(* The application keeps its types: no command, failure, crash or restart   *)
(* takes window, file, tasks or channels out of theirs.                     *)
THEOREM AppTypeCorrect == AppSpec => []AppTypeOK
<1>1. AppInv => AppTypeOK
  BY DEF AppInv
<1>2. QED
  BY <1>1, InitApp, NextApp, PTL DEF AppSpec

(* However often the window is started and stopped: the run task of one run *)
(* is over before that of another is spawned, and the handle behind Stop is *)
(* that of the run the window shows.                                        *)
THEOREM RunsDoNotOverlap == AppSpec => []OneRunAtATime
<1>1. AppInv => OneRunAtATime
  <2> SUFFICES ASSUME AppInv PROVE OneRunAtATime
    OBVIOUS
  <2>1. \A r \in Run : ~Over(r, "run") => Live(r)
    BY DEF AppInv, Live
  <2>2. gui.state = "Stopped" => \A r \in Run : ~Live(r)
    BY Windows
  <2>3. QED
    BY <2>1, <2>2 DEF AppInv, OneRunAtATime
<1>2. QED
  BY <1>1, InitApp, NextApp, PTL DEF AppSpec

(* What a window starts with is what the last run whose save was not        *)
(* refused ran with, for any forms, secrets and numbers of runs and launches*)
(* and wherever saves fail: a file that is whole was written by that run,   *)
(* and no torn one is read (gui.rs:95-126, 242-254).                        *)
THEOREM FileIsTheLastStart == AppSpec => RestartKeepsConfig
<1>1. AppInv /\ [AppNext]_appVars =>
        [(gui.state = "Closed" /\ gui'.state = "Starting") =>
           config' = IF kept.save = "whole" THEN [form |-> kept.form, secret |-> NoSecret]
                     ELSE FromCli(Cli)]_appVars
  <2> SUFFICES ASSUME AppInv, AppNext, gui.state = "Closed", gui'.state = "Starting"
               PROVE  config' = IF kept.save = "whole" THEN [form |-> kept.form, secret |-> NoSecret]
                                ELSE FromCli(Cli)
    OBVIOUS
  <2>1. \E r \in Run : Launch(r)
    <3>1. gui \in [state : {"Closed", "Stopped", "Starting", "Running", "Stopping",
                             "Headless", "Interrupted"},
                   rx : {0} \cup Run, shutdown : {0} \cup Run]
      BY DEF AppInv, AppTypeOK
    <3>2. ~Exit /\ ~StopClicked /\ (\A cfg \in Config : ~Edit(cfg))
      BY DEF Exit, StopClicked, Edit
    <3>3. \A r \in Run : ~CtrlC(r) /\ ~StartClicked(r)
      BY DEF CtrlC, StartClicked
    <3>4. \A r \in Run : ~LaunchHeadless(r)
      BY <3>1 DEF LaunchHeadless
    <3>5. \A r \in Run : ~PollStarted(r) /\ ~PollOver(r)
      BY DEF PollStarted, PollOver, AppInv, NoWindow, Run
    <3>6. \A r \in Run : ~StarterNext(r)
      BY DEF StarterNext, CertReady, GatewayReady, SetupFails, RunOver, Report, HeadlessOver, Exit
    <3>7. \A r \in Run, k \in Task : ~TaskNext(r, k)
      BY DEF TaskNext, TakesNotified, Binds, BindFails, Ends, Accepting, Accepted, Step
    <3>8. QED
      BY <3>2, <3>3, <3>4, <3>5, <3>6, <3>7 DEF AppNext
  <2>2. config' = Loaded
    BY <2>1 DEF Launch, StartWith
  <2>3. /\ kept.save = "whole" <=> file.state = "whole"
        /\ file.state = "whole" => file.form = kept.form
    BY DEF AppInv
  <2>4. QED
    BY <2>2, <2>3 DEF Loaded
<1>2. QED
  BY <1>1, InitApp, NextApp, PTL DEF AppSpec, RestartKeepsConfig
-----------------------------------------------------------------------------
(* The publish page.  How often a message is in an inbox.                   *)
Message == {"credit", "handshakeComplete", "close", "wtClosed"}
Places(s, msg) == {i \in DOMAIN s : s[i] = msg}
Count(s, msg) == Cardinality(Places(s, msg))

LEMMA CountIsNat ==
  ASSUME NEW s \in Seq(Message), NEW msg
  PROVE  /\ IsFiniteSet(Places(s, msg)) /\ Count(s, msg) \in Nat
         /\ Contains(s, msg) <=> Count(s, msg) # 0
<1>1. IsFiniteSet(1..Len(s)) /\ Places(s, msg) \subseteq 1..Len(s)
  BY FS_Interval DEF Places
<1>2. IsFiniteSet(Places(s, msg))
  BY <1>1, FS_Subset
<1>3. Contains(s, msg) <=> Places(s, msg) # {}
  BY DEF Contains, Places
<1>4. QED
  BY <1>2, <1>3, FS_CardinalityType, FS_EmptySet DEF Count

LEMMA CountEmpty ==
  ASSUME NEW msg
  PROVE  Count(<<>>, msg) = 0
<1>1. Places(<<>>, msg) = {}
  BY DEF Places
<1>2. QED
  BY <1>1, FS_EmptySet DEF Count

LEMMA CountConcat ==
  ASSUME NEW s \in Seq(Message), NEW x \in Message, NEW msg
  PROVE  /\ s \o <<x>> \in Seq(Message)
         /\ Count(s \o <<x>>, msg) = Count(s, msg) + (IF x = msg THEN 1 ELSE 0)
<1> DEFINE n == Len(s)
           t == s \o <<x>>
<1>1. /\ t \in Seq(Message) /\ DOMAIN t = 1..(n + 1) /\ t[n + 1] = x
      /\ \A i \in 1..n : t[i] = s[i]
      /\ DOMAIN s = 1..n /\ n \in Nat
  OBVIOUS
<1> HIDE DEF t, n
<1>2. Places(t, msg) = IF x = msg THEN Places(s, msg) \cup {n + 1} ELSE Places(s, msg)
  <2>1. 1..(n + 1) = 1..n \cup {n + 1} /\ n + 1 \notin 1..n
    BY <1>1
  <2>2. QED
    BY <1>1, <2>1 DEF Places
<1>3. n + 1 \notin Places(s, msg)
  BY <1>1 DEF Places
<1>4. IsFiniteSet(Places(s, msg)) /\ Cardinality(Places(s, msg)) \in Nat
  BY CountIsNat DEF Count
<1>5. Cardinality(Places(s, msg) \cup {n + 1}) = Cardinality(Places(s, msg)) + 1
  BY <1>3, <1>4, FS_AddElement
<1>6. Count(t, msg) = Count(s, msg) + (IF x = msg THEN 1 ELSE 0)
  BY <1>2, <1>4, <1>5 DEF Count
<1>7. QED
  BY <1>1, <1>6 DEF t

LEMMA CountTail ==
  ASSUME NEW s \in Seq(Message), s # <<>>, NEW msg
  PROVE  /\ Tail(s) \in Seq(Message) /\ Head(s) \in Message
         /\ Count(Tail(s), msg) = Count(s, msg) - (IF Head(s) = msg THEN 1 ELSE 0)
<1> DEFINE P == Places(Tail(s), msg)
           Q == Places(s, msg) \ {1}
           f == [i \in P |-> i + 1]
<1>1. /\ Tail(s) \in Seq(Message) /\ Head(s) \in Message /\ Head(s) = s[1] /\ 1 \in DOMAIN s
      /\ DOMAIN s = 1..Len(s) /\ DOMAIN Tail(s) = 1..(Len(s) - 1) /\ Len(s) \in Nat
      /\ \A i \in 1..(Len(s) - 1) : Tail(s)[i] = s[i + 1]
  OBVIOUS
<1>2. f \in Bijection(P, Q)
  <2>1. P \subseteq Nat /\ \A i \in P : i + 1 \in Q
    BY <1>1 DEF Places
  <2>2. \A j \in Q : j - 1 \in P /\ (j - 1) + 1 = j
    BY <1>1 DEF Places
  <2>3. f \in [P -> Q] /\ \A i, j \in P : f[i] = f[j] => i = j
    BY <2>1
  <2>4. \A j \in Q : \E i \in P : f[i] = j
    BY <2>2
  <2>5. QED
    BY <2>3, <2>4, Fun_IsBij
<1>3. IsFiniteSet(P) /\ IsFiniteSet(Places(s, msg))
  BY <1>1, CountIsNat
<1>4. Cardinality(Q) = Cardinality(P)
  BY <1>2, <1>3, FS_Bijection DEF ExistsBijection
<1>5. 1 \in Places(s, msg) <=> Head(s) = msg
  BY <1>1 DEF Places
<1>6. Cardinality(Q) = Cardinality(Places(s, msg)) - (IF Head(s) = msg THEN 1 ELSE 0)
  <2>1. /\ Cardinality(Places(s, msg)) \in Nat
        /\ Cardinality(Q) = IF 1 \in Places(s, msg) THEN Cardinality(Places(s, msg)) - 1
                           ELSE Cardinality(Places(s, msg))
    BY <1>3, FS_RemoveElement, FS_CardinalityType
  <2> HIDE DEF Q
  <2>2. QED
    BY <1>5, <2>1
<1>7. QED
  BY <1>1, <1>4, <1>6 DEF Count

(* What the page has in hand, as long as no Stop was clicked while a        *)
(* handler of Publish waited: one session with one worker, the credits of   *)
(* which are all accounted for, and the microphone of the graph.            *)
Fresh(w) == w.at \in {"none", "init", "dialing", "up"}
WorkerState ==
  [at : {"none", "init", "dialing", "up", "live", "closed", "failed", "terminated"},
   encoder : BOOLEAN, wt : BOOLEAN, shook : BOOLEAN, frames : Nat, backlog : 0..MaxBacklog]
PumpState == [credits : Nat, chains : Nat, bg : BOOLEAN]
PageTypes == PageTypeOK /\ inbox \in [Click -> Seq(Message)] /\ hasty \in BOOLEAN

HandlersOK ==
  /\ page.worker # 0 => page.publishing /\ Running(page.worker)
  /\ \A k \in Click : click[k] \in Waiting => page.publishing /\ page.worker = 0 /\ ~Running(k)
  /\ \A k \in Click : click[k] \in Waiting \cup {"idle"} => worker[k].at = "none"
  /\ \A j, k \in Click : click[j] \in Waiting /\ click[k] \in Waiting => j = k
WorkersOK ==
  /\ \A k \in Click : Running(k) => page.worker = k
  /\ \A k \in Click : ~Running(k) => inbox[k] = <<>> /\ ~worker[k].wt
  /\ \A k \in Click : worker[k].at = "none" => worker[k] = NoWorker
  /\ \A k \in Click : Fresh(worker[k]) => ~worker[k].shook
MicsOK ==
  /\ mics \subseteq {graph.mic} \ {0}
  /\ ~page.publishing => mics = {}
  /\ \A k \in Click : click[k] \in {"module", "mic"} => mics = {}
Balanced(w, msgs, credits) ==
  /\ Count(msgs, "handshakeComplete") <= IF w.shook THEN 1 ELSE 0
  /\ credits + w.frames + Count(msgs, "credit")
       = IF w.shook /\ Count(msgs, "handshakeComplete") = 0 THEN Credits ELSE 0
CreditsOK ==
  IF page.worker = 0 THEN pump.credits = 0
  ELSE Balanced(worker[page.worker], inbox[page.worker], pump.credits)
Patience == HandlersOK /\ WorkersOK /\ MicsOK /\ CreditsOK
PageInv == PageTypes /\ (~hasty => Patience)

LEMMA InitPage == PageInit => PageInv
<1> SUFFICES ASSUME PageInit PROVE PageInv
  OBVIOUS
<1>1. NoWorker \in WorkerState
  BY PageAssumption DEF NoWorker, WorkerState
<1>2. \A k \in Click : worker[k] = NoWorker /\ click[k] = "idle" /\ inbox[k] = <<>>
  BY DEF PageInit
<1>3. PageTypes
  <2>1. worker \in [Click -> WorkerState] /\ inbox \in [Click -> Seq(Message)] /\ hasty \in BOOLEAN
    <3>1. <<>> \in Seq(Message) /\ hasty = FALSE
      BY DEF PageInit
    <3>2. QED
      BY <1>1, <3>1 DEF PageInit
  <2>2. /\ page \in [publishing : BOOLEAN, hidden : BOOLEAN, worker : {0} \cup Click]
        /\ click \in [Click -> Waiting \cup {"idle", "thrown", "done"}]
        /\ graph \in [ctx : {0} \cup Click, node : {0} \cup Click, mic : {0} \cup Click]
        /\ mics \subseteq Click /\ pump \in PumpState
    BY DEF PageInit, NoGraph, PumpState
  <2>3. QED
    BY <2>1, <2>2 DEF PageTypes, PageTypeOK, WorkerState, PumpState
<1>4. Patience
  <2>1. \A k \in Click : worker[k].at = "none" /\ ~worker[k].shook /\ ~worker[k].wt
    BY <1>2 DEF NoWorker
  <2>2. HandlersOK /\ MicsOK /\ CreditsOK
    BY <1>2, <2>1 DEF PageInit, HandlersOK, MicsOK, CreditsOK, Waiting
  <2>3. QED
    BY <1>2, <2>1, <2>2 DEF Patience, WorkersOK, Running
<1>5. QED
  BY <1>3, <1>4 DEF PageInv

LEMMA PageFields ==
  ASSUME PageTypes
  PROVE  /\ page \in [publishing : BOOLEAN, hidden : BOOLEAN, worker : {0} \cup Click]
         /\ click \in [Click -> Waiting \cup {"idle", "thrown", "done"}]
         /\ graph \in [ctx : {0} \cup Click, node : {0} \cup Click, mic : {0} \cup Click]
         /\ mics \subseteq Click /\ pump \in PumpState /\ worker \in [Click -> WorkerState]
         /\ inbox \in [Click -> Seq(Message)] /\ hasty \in BOOLEAN /\ 0 \notin Click
<1>1. 0 \notin Click
  BY PageAssumption DEF Click
<1>2. QED
  BY <1>1 DEF PageTypes, PageTypeOK, PumpState, WorkerState

(* The pump: scheduling changes neither credits nor types.                  *)
LEMMA Schedules ==
  ASSUME NEW p \in PumpState, NEW pg
  PROVE  /\ Schedule(p, pg) \in PumpState /\ Schedule(p, pg).credits = p.credits
         /\ StopPump(p) \in PumpState /\ StopPump(p).credits = p.credits
<1>1. Cancelled(p) \in PumpState /\ Cancelled(p).credits = p.credits
  BY DEF Cancelled, PumpState
<1>2. StopPump(p) \in PumpState /\ StopPump(p).credits = p.credits
  BY <1>1 DEF StopPump, PumpState
<1>3. [Cancelled(p) EXCEPT !.bg = TRUE] \in PumpState /\ [Cancelled(p) EXCEPT !.bg = TRUE].credits = p.credits
  BY <1>1 DEF PumpState
<1>4. [StopPump(p) EXCEPT !.chains = @ + 1] \in PumpState
      /\ [StopPump(p) EXCEPT !.chains = @ + 1].credits = p.credits
  BY <1>2 DEF PumpState
<1>5. QED
  BY <1>2, <1>3, <1>4 DEF Schedule

(* A frame that is sent takes a credit along: the two change together.      *)
LEMMA Pumps ==
  ASSUME PageTypes, NEW p \in PumpState, NEW ready \in BOOLEAN, PumpFrame(p, ready)
  PROVE  /\ pump' \in PumpState /\ worker' \in [Click -> WorkerState]
         /\ page.worker = 0 => worker' = worker /\ pump'.credits = p.credits
         /\ \A k \in Click :
              /\ worker'[k].at = worker[k].at /\ worker'[k].shook = worker[k].shook
              /\ k # page.worker => worker'[k] = worker[k]
              /\ k = page.worker => pump'.credits + worker'[k].frames = p.credits + worker[k].frames
<1>1. page.worker \in {0} \cup Click /\ worker \in [Click -> WorkerState]
  BY PageFields
<1>2. CASE IsPublishing(page) /\ p.credits > 0 /\ ready
  <2>1. page.worker \in Click
    BY <1>1, <1>2 DEF IsPublishing
  <2> DEFINE q == [p EXCEPT !.credits = @ - 1]
  <2>2. q \in PumpState /\ q.credits = p.credits - 1 /\ pump' = Schedule(q, page)
    BY <1>2 DEF PumpState, PumpFrame
  <2> HIDE DEF q
  <2>3. pump' \in PumpState /\ pump'.credits = p.credits - 1
    BY <2>2, Schedules
  <2> DEFINE w == worker[page.worker]
             u == [w EXCEPT !.frames = @ + 1]
  <2>4. u \in WorkerState /\ u.at = w.at /\ u.shook = w.shook /\ u.frames = w.frames + 1 /\ w.frames \in Nat
    BY <1>1, <2>1 DEF WorkerState
  <2>5. worker' = [worker EXCEPT ![page.worker] = u]
    BY <1>2 DEF PumpFrame
  <2> HIDE DEF u
  <2>6. QED
    BY <1>1, <1>2, <2>1, <2>3, <2>4, <2>5 DEF IsPublishing, PumpState
<1>3. CASE ~(IsPublishing(page) /\ p.credits > 0 /\ ready)
  <2>1. pump' = Schedule(p, page) /\ worker' = worker
    BY <1>3 DEF PumpFrame
  <2>2. QED
    BY <1>1, <2>1, Schedules
<1>4. QED
  BY <1>2, <1>3

LEMMA PageTypesFrom ==
  ASSUME page' \in [publishing : BOOLEAN, hidden : BOOLEAN, worker : {0} \cup Click],
         click' \in [Click -> Waiting \cup {"idle", "thrown", "done"}],
         graph' \in [ctx : {0} \cup Click, node : {0} \cup Click, mic : {0} \cup Click],
         mics' \subseteq Click, pump' \in PumpState, worker' \in [Click -> WorkerState],
         inbox' \in [Click -> Seq(Message)], hasty' \in BOOLEAN
  PROVE  PageTypes'
  BY DEF PageTypes, PageTypeOK, PumpState, WorkerState

LEMMA NewWorkers ==
  ASSUME PageTypes, NEW k \in Click, NewWorker(k)
  PROVE  /\ worker' \in [Click -> WorkerState]
         /\ worker'[k] = [worker[k] EXCEPT !.at = "init"] /\ \A j \in Click : j # k => worker'[j] = worker[j]
<1>1. worker \in [Click -> WorkerState]
  BY PageFields
<1>2. [worker[k] EXCEPT !.at = "init"] \in WorkerState
  BY <1>1 DEF WorkerState
<1>3. QED
  BY <1>1, <1>2 DEF NewWorker

(* A worker that is created owes nothing and has nothing.                   *)
LEMMA Creates ==
  ASSUME PageInv, NEW k \in Click, NewWorker(k), page.worker = 0, click[k] \in Waiting \cup {"idle"},
         page' \in [publishing : {TRUE}, hidden : BOOLEAN, worker : {k}],
         click' \in [Click -> Waiting \cup {"idle", "thrown", "done"}],
         \A j \in Click : click'[j] = IF j = k THEN "done" ELSE click[j],
         \A j \in Click : click[j] \in Waiting => j = k,
         UNCHANGED <<graph, mics, pump, inbox, hasty>>
  PROVE  PageInv'
<1>1. /\ page \in [publishing : BOOLEAN, hidden : BOOLEAN, worker : {0} \cup Click]
      /\ click \in [Click -> Waiting \cup {"idle", "thrown", "done"}]
      /\ graph \in [ctx : {0} \cup Click, node : {0} \cup Click, mic : {0} \cup Click]
      /\ mics \subseteq Click /\ pump \in PumpState /\ worker \in [Click -> WorkerState]
      /\ inbox \in [Click -> Seq(Message)] /\ hasty \in BOOLEAN /\ 0 \notin Click
  BY PageFields DEF PageInv
<1>2. PageTypes'
  <2>1. page' \in [publishing : BOOLEAN, hidden : BOOLEAN, worker : {0} \cup Click]
    OBVIOUS
  <2>2. worker' \in [Click -> WorkerState]
    BY NewWorkers DEF PageInv
  <2>3. QED
    BY <1>1, <2>1, <2>2, PageTypesFrom
<1>3. ASSUME ~hasty PROVE Patience'
  <2>1. HandlersOK /\ WorkersOK /\ MicsOK /\ CreditsOK
    BY <1>3 DEF PageInv, Patience
  <2>2. /\ worker'[k] = [NoWorker EXCEPT !.at = "init"]
        /\ \A j \in Click : j # k => worker'[j] = worker[j]
    <3>1. worker[k] = NoWorker
      BY <2>1 DEF HandlersOK, WorkersOK
    <3>2. QED
      BY <3>1, NewWorkers DEF PageInv
  <2>3. /\ worker'[k].at = "init" /\ ~worker'[k].shook /\ worker'[k].frames = 0
        /\ page'.worker = k /\ page'.publishing
    <3>1. worker'[k].at = "init" /\ ~worker'[k].shook /\ worker'[k].frames = 0
      BY <2>2 DEF NoWorker
    <3>2. page'.worker = k /\ page'.publishing = TRUE
      OBVIOUS
    <3>3. QED
      BY <3>1, <3>2
  <2>4. \A j \in Click : ~Running(j)
    BY <1>1, <2>1 DEF WorkersOK
  <2>5. \A j \in Click : j # k => ~Running(j)'
    BY <2>2, <2>4 DEF Running
  <2>6. Running(k)' /\ click'[k] = "done" /\ \A j \in Click : click'[j] \notin Waiting
    BY <2>3 DEF Running, Waiting
  <2>7. HandlersOK'
    BY <2>1, <2>2, <2>3, <2>6 DEF HandlersOK
  <2>8. WorkersOK'
    <3>1. \A j \in Click : Running(j)' => page'.worker = j
      BY <2>3, <2>5
    <3>2. \A j \in Click : ~Running(j)' => inbox'[j] = <<>> /\ ~worker'[j].wt
      <4>1. \A j \in Click : inbox[j] = <<>> /\ ~worker[j].wt
        BY <2>1, <2>4 DEF WorkersOK
      <4>2. QED
        BY <2>2, <2>6, <4>1
    <3>3. \A j \in Click : worker'[j].at = "none" => worker'[j] = NoWorker
      <4>1. \A j \in Click : worker[j].at = "none" => worker[j] = NoWorker
        BY <2>1 DEF WorkersOK
      <4>2. ASSUME NEW j \in Click, worker'[j].at = "none" PROVE worker'[j] = NoWorker
        <5>1. j # k
          BY <2>3, <4>2
        <5>2. QED
          BY <2>2, <4>1, <4>2, <5>1
      <4>3. QED
        BY <4>2
    <3>4. \A j \in Click : Fresh(worker'[j]) => ~worker'[j].shook
      <4>1. \A j \in Click : Fresh(worker[j]) => ~worker[j].shook
        BY <2>1 DEF WorkersOK
      <4>2. QED
        BY <2>2, <2>3, <4>1
    <3>5. QED
      BY <3>1, <3>2, <3>3, <3>4 DEF WorkersOK
  <2>9. MicsOK'
    BY <2>1, <2>3, <2>6 DEF MicsOK, Waiting
  <2>10. CreditsOK'
    <3>1. inbox'[k] = <<>> /\ pump'.credits = 0
      BY <2>1, <2>4 DEF WorkersOK, CreditsOK
    <3>2. Balanced(worker'[k], <<>>, 0)
      BY <2>3, CountEmpty DEF Balanced
    <3>3. QED
      BY <1>1, <2>3, <3>1, <3>2 DEF CreditsOK
  <2>11. QED
    BY <2>7, <2>8, <2>9, <2>10 DEF Patience
<1>4. QED
  BY <1>2, <1>3 DEF PageInv

(* A handler that goes on to wait, or ends without a worker.                *)
LEMMA Waits ==
  ASSUME PageInv, NEW k \in Click, NEW pc \in Waiting \cup {"thrown"}, Goto(k, pc),
         graph' \in [ctx : {0} \cup Click, node : {0} \cup Click, mic : {0} \cup Click],
         mics' \subseteq Click, page' \in [publishing : BOOLEAN, hidden : BOOLEAN, worker : {page.worker}],
         UNCHANGED <<pump, worker, inbox, hasty>>,
         ~hasty => /\ page'.publishing /\ page.worker = 0 /\ worker[k].at = "none"
                   /\ \A j \in Click : click[j] \in Waiting => j = k
                   /\ mics' \subseteq {graph'.mic} \ {0} /\ (pc \in {"module", "mic"} => mics' = {})
  PROVE  PageInv'
<1>1. /\ page \in [publishing : BOOLEAN, hidden : BOOLEAN, worker : {0} \cup Click]
      /\ click \in [Click -> Waiting \cup {"idle", "thrown", "done"}]
      /\ pump \in PumpState /\ worker \in [Click -> WorkerState]
      /\ inbox \in [Click -> Seq(Message)] /\ hasty \in BOOLEAN /\ 0 \notin Click
  BY PageFields DEF PageInv
<1>2. \A j \in Click : click'[j] = IF j = k THEN pc ELSE click[j]
  BY <1>1 DEF Goto
<1>3. PageTypes'
  <2>1. click' \in [Click -> Waiting \cup {"idle", "thrown", "done"}]
    BY <1>1 DEF Goto
  <2>2. page' \in [publishing : BOOLEAN, hidden : BOOLEAN, worker : {0} \cup Click]
    BY <1>1
  <2>3. QED
    BY <1>1, <2>1, <2>2, PageTypesFrom
<1>4. ASSUME ~hasty PROVE Patience'
  <2>1. HandlersOK /\ WorkersOK /\ MicsOK /\ CreditsOK
    BY <1>4 DEF PageInv, Patience
  <2>2. page'.worker = 0 /\ page.worker = 0 /\ page'.publishing
    BY <1>4
  <2>3. \A j \in Click : Running(j)' <=> Running(j)
    BY DEF Running
  <2>4. ~Running(k)
    BY <1>4 DEF Running
  <2>5. \A j \in Click : click'[j] \in Waiting => j = k
    BY <1>2, <1>4
  <2>6. HandlersOK'
    BY <1>2, <1>4, <2>1, <2>2, <2>3, <2>4, <2>5 DEF HandlersOK
  <2>7. WorkersOK'
    BY <2>1, <2>2, <2>3 DEF WorkersOK
  <2>8. MicsOK'
    BY <1>2, <1>4, <2>2, <2>5 DEF MicsOK, Waiting
  <2>9. CreditsOK'
    BY <2>1, <2>2 DEF CreditsOK
  <2>10. QED
    BY <2>6, <2>7, <2>8, <2>9 DEF Patience
<1>5. QED
  BY <1>3, <1>4 DEF PageInv

LEMMA HandlersPage ==
  ASSUME PageInv, NEW k \in Click, HandlerNext(k)
  PROVE  PageInv'
<1>1. /\ page \in [publishing : BOOLEAN, hidden : BOOLEAN, worker : {0} \cup Click]
      /\ click \in [Click -> Waiting \cup {"idle", "thrown", "done"}]
      /\ graph \in [ctx : {0} \cup Click, node : {0} \cup Click, mic : {0} \cup Click]
      /\ mics \subseteq Click /\ hasty \in BOOLEAN /\ 0 \notin Click
  BY PageFields DEF PageInv
<1>2. ~hasty => HandlersOK /\ WorkersOK /\ MicsOK /\ CreditsOK
  BY DEF PageInv, Patience
<1>3. ASSUME NEW w, Begins(k, w), ~hasty
      PROVE  /\ page.worker = 0 /\ worker[k].at = "none" /\ mics = {}
             /\ \A j \in Click : click[j] \notin Waiting
  BY <1>2, <1>3 DEF Begins, HandlersOK, MicsOK
<1>4. ASSUME NEW pc \in Waiting, HandlerStep(k, pc), ~hasty
      PROVE  /\ page.publishing /\ page.worker = 0 /\ worker[k].at = "none"
             /\ \A j \in Click : click[j] \in Waiting => j = k
             /\ mics \subseteq {graph.mic} \ {0} /\ (pc \in {"module", "mic"} => mics = {})
  BY <1>2, <1>4 DEF HandlerStep, HandlersOK, MicsOK
<1>5. \A g : Connects(g) \subseteq Waiting \cup {"thrown"}
  BY DEF Connects, Waiting
<1>6. CASE PublishWithoutAudio(k)
  <2>1. /\ NewWorker(k) /\ Begins(k, k) /\ click[k] = "idle" /\ Goto(k, "done")
        /\ page' = [page EXCEPT !.publishing = TRUE, !.worker = k]
        /\ UNCHANGED <<graph, mics, pump, inbox, hasty>>
    BY <1>6 DEF PublishWithoutAudio, Begins
  <2>2. page' \in [publishing : {TRUE}, hidden : BOOLEAN, worker : {k}]
    BY <1>1, <2>1
  <2>3. /\ click' \in [Click -> Waiting \cup {"idle", "thrown", "done"}]
        /\ \A j \in Click : click'[j] = IF j = k THEN "done" ELSE click[j]
    BY <1>1, <2>1 DEF Goto
  <2>4. CASE hasty
    <3>1. worker' \in [Click -> WorkerState]
      BY <2>1, NewWorkers DEF PageInv
    <3>2. page' \in [publishing : BOOLEAN, hidden : BOOLEAN, worker : {0} \cup Click] /\ hasty'
      BY <2>1, <2>2, <2>4
    <3>3. PageTypes'
      BY <1>1, <2>1, <2>3, <3>1, <3>2, PageTypesFrom, PageFields DEF PageInv
    <3>4. QED
      BY <3>2, <3>3 DEF PageInv
  <2>5. CASE ~hasty
    BY <1>3, <2>1, <2>2, <2>3, <2>5, Creates
  <2>6. QED
    BY <2>4, <2>5
<1>7. CASE PublishWithAudio(k)
  <2>1. /\ Begins(k, page.worker) /\ UNCHANGED <<mics, pump, worker, inbox, hasty>>
        /\ page' = [page EXCEPT !.publishing = TRUE]
    BY <1>1, <1>7 DEF PublishWithAudio, Begins
  <2>2. page' \in [publishing : BOOLEAN, hidden : BOOLEAN, worker : {page.worker}] /\ page'.publishing
    BY <1>1, <2>1
  <2>3. PICK pc \in Waiting \cup {"thrown"} : Goto(k, pc)
    BY <1>5, <1>7 DEF PublishWithAudio, Waiting
  <2>4. graph' \in [ctx : {0} \cup Click, node : {0} \cup Click, mic : {0} \cup Click]
    BY <1>1, <1>7 DEF PublishWithAudio
  <2>5. QED
    BY <1>1, <1>3, <2>1, <2>2, <2>3, <2>4, Waits
<1>8. CASE ModuleLoaded(k) \/ ModuleFails(k) \/ MicGranted(k) \/ MicDenied(k)
  <2>1. /\ HandlerStep(k, "module") \/ HandlerStep(k, "mic")
        /\ UNCHANGED <<page, pump, worker, inbox, hasty>>
    BY <1>8 DEF ModuleLoaded, ModuleFails, MicGranted, MicDenied, HandlerStep, workVars
  <2>2. page' \in [publishing : BOOLEAN, hidden : BOOLEAN, worker : {page.worker}]
    BY <1>1, <2>1
  <2>3. PICK pc \in Waiting \cup {"thrown"} : Goto(k, pc) /\ (MicGranted(k) => pc = "resume")
    <3>1. CASE ModuleLoaded(k)
      BY <1>5, <3>1 DEF ModuleLoaded, MicGranted, HandlerStep
    <3>2. CASE ModuleFails(k) \/ MicGranted(k) \/ MicDenied(k)
      BY <3>2 DEF ModuleFails, MicGranted, MicDenied, Waiting, HandlerStep
    <3>3. QED
      BY <1>8, <3>1, <3>2
  <2>4. /\ graph' \in [ctx : {0} \cup Click, node : {0} \cup Click, mic : {0} \cup Click]
        /\ mics' \subseteq Click
        /\ mics = {} => mics' \subseteq {graph'.mic} \ {0} /\ (MicGranted(k) \/ mics' = {})
    <3>1. CASE ModuleLoaded(k)
      BY <1>1, <3>1 DEF ModuleLoaded
    <3>2. CASE MicGranted(k)
      BY <1>1, <3>2 DEF MicGranted
    <3>3. CASE ModuleFails(k) \/ MicDenied(k)
      BY <1>1, <3>3 DEF ModuleFails, MicDenied, audioVars
    <3>4. QED
      BY <1>8, <3>1, <3>2, <3>3
  <2>5. ~hasty => /\ page'.publishing /\ page.worker = 0 /\ worker[k].at = "none"
                  /\ \A j \in Click : click[j] \in Waiting => j = k
                  /\ mics = {}
    BY <1>4, <2>1 DEF Waiting
  <2>6. QED
    BY <2>1, <2>2, <2>3, <2>4, <2>5, Waits
<1>9. CASE CreatesWorker(k)
  <2>1. /\ NewWorker(k) /\ click[k] = "resume" /\ Goto(k, "done")
        /\ page' = [page EXCEPT !.worker = k]
        /\ UNCHANGED <<graph, mics, pump, inbox, hasty>>
    BY <1>9 DEF CreatesWorker, audioVars
  <2>2. /\ click' \in [Click -> Waiting \cup {"idle", "thrown", "done"}]
        /\ \A j \in Click : click'[j] = IF j = k THEN "done" ELSE click[j]
    BY <1>1, <2>1 DEF Goto
  <2>3. page' \in [publishing : {page.publishing}, hidden : BOOLEAN, worker : {k}]
    BY <1>1, <2>1
  <2>4. CASE hasty
    <3>1. worker' \in [Click -> WorkerState]
      BY <2>1, NewWorkers DEF PageInv
    <3>2. page' \in [publishing : BOOLEAN, hidden : BOOLEAN, worker : {0} \cup Click] /\ hasty'
      BY <1>1, <2>1, <2>3, <2>4
    <3>3. PageTypes'
      BY <1>1, <2>1, <2>2, <3>1, <3>2, PageTypesFrom, PageFields DEF PageInv
    <3>4. QED
      BY <3>2, <3>3 DEF PageInv
  <2>5. CASE ~hasty
    <3>1. page.publishing = TRUE /\ page.worker = 0 /\ \A j \in Click : click[j] \in Waiting => j = k
      BY <1>1, <1>2, <2>1, <2>5 DEF HandlersOK, Waiting
    <3>2. QED
      BY <2>1, <2>2, <2>3, <3>1, Creates DEF Waiting
  <2>6. QED
    BY <2>4, <2>5
<1>10. QED
  BY <1>6, <1>7, <1>8, <1>9 DEF HandlerNext

(* What the invariant needs of a step that leaves the handlers, the graph   *)
(* and the session as they are.                                             *)
LEMMA SessionGoesOn ==
  ASSUME PageInv, UNCHANGED <<click, graph, mics, hasty>>,
         page' \in [publishing : {page.publishing}, hidden : BOOLEAN, worker : {page.worker}],
         pump' \in PumpState, worker' \in [Click -> WorkerState], inbox' \in [Click -> Seq(Message)],
         \A k \in Click : Running(k)' <=> Running(k),
         \A k \in Click : ~Running(k) => worker'[k] = worker[k] /\ inbox'[k] = inbox[k],
         \A k \in Click : Fresh(worker'[k]) => Fresh(worker[k]) /\ worker'[k].shook = worker[k].shook,
         page.worker = 0 /\ pump.credits = 0 => pump'.credits = 0,
         page.worker # 0 /\ ~hasty =>
           Balanced(worker'[page.worker], inbox'[page.worker], pump'.credits)
  PROVE  PageInv'
<1>1. /\ page \in [publishing : BOOLEAN, hidden : BOOLEAN, worker : {0} \cup Click]
      /\ click \in [Click -> Waiting \cup {"idle", "thrown", "done"}]
      /\ graph \in [ctx : {0} \cup Click, node : {0} \cup Click, mic : {0} \cup Click]
      /\ mics \subseteq Click /\ hasty \in BOOLEAN /\ 0 \notin Click
  BY PageFields DEF PageInv
<1>2. page'.publishing = page.publishing /\ page'.worker = page.worker
  OBVIOUS
<1>3. PageTypes'
  <2>1. page' \in [publishing : BOOLEAN, hidden : BOOLEAN, worker : {0} \cup Click]
    BY <1>1
  <2>2. QED
    BY <1>1, <2>1, PageTypesFrom
<1>4. ASSUME ~hasty PROVE Patience'
  <2>1. HandlersOK /\ WorkersOK /\ MicsOK /\ CreditsOK
    BY <1>4 DEF PageInv, Patience
  <2>2. \A k \in Click : worker'[k].at = "none" <=> worker[k].at = "none"
    BY DEF Running, Fresh
  <2>3. HandlersOK'
    <3>1. page.worker # 0 => Running(page.worker)'
      BY <1>1, <2>1 DEF HandlersOK
    <3>2. QED
      BY <1>2, <2>1, <2>2, <3>1 DEF HandlersOK
  <2>4. WorkersOK'
    <3>1. \A k \in Click : worker[k].at = "none" => ~Running(k)
      BY DEF Running
    <3>2. \A k \in Click : worker'[k].at = "none" => worker'[k] = NoWorker
      BY <2>1, <2>2, <3>1 DEF WorkersOK
    <3>3. \A k \in Click : Fresh(worker'[k]) => ~worker'[k].shook
      BY <2>1 DEF WorkersOK
    <3>4. QED
      BY <1>2, <2>1, <3>2, <3>3 DEF WorkersOK
  <2>5. MicsOK'
    BY <1>2, <2>1 DEF MicsOK
  <2>6. CreditsOK'
    BY <1>2, <1>4, <2>1 DEF CreditsOK
  <2>7. QED
    BY <2>3, <2>4, <2>5, <2>6 DEF Patience
<1>5. QED
  BY <1>3, <1>4 DEF PageInv

LEMMA Balances ==
  ASSUME PageInv, page.worker # 0, ~hasty
  PROVE  /\ page.worker \in Click /\ Running(page.worker) /\ page.publishing
         /\ Balanced(worker[page.worker], inbox[page.worker], pump.credits)
  BY PageFields DEF PageInv, Patience, CreditsOK, HandlersOK

(* The pump: frame callbacks, the timer, the tab hidden or shown.           *)
LEMMA PumpPage ==
  ASSUME PageInv, VisibilityChange \/ \E ready \in BOOLEAN : FrameCallback(ready) \/ Tick(ready)
  PROVE  PageInv'
<1>1. /\ page \in [publishing : BOOLEAN, hidden : BOOLEAN, worker : {0} \cup Click]
      /\ pump \in PumpState /\ worker \in [Click -> WorkerState]
      /\ inbox \in [Click -> Seq(Message)] /\ 0 \notin Click
  BY PageFields DEF PageInv
<1>2. CASE VisibilityChange
  <2>1. /\ UNCHANGED <<click, graph, mics, hasty, worker, inbox>>
        /\ page' = [page EXCEPT !.hidden = ~@]
        /\ pump' = pump \/ pump' = Schedule(pump, page')
    BY <1>2 DEF VisibilityChange, audioVars, workVars
  <2>2. page' \in [publishing : {page.publishing}, hidden : BOOLEAN, worker : {page.worker}]
    BY <1>1, <2>1
  <2>3. pump' \in PumpState /\ pump'.credits = pump.credits
    BY <1>1, <2>1, Schedules
  <2>4. \A k \in Click : Running(k)' <=> Running(k)
    BY <2>1 DEF Running
  <2>5. QED
    BY <1>1, <2>1, <2>2, <2>3, <2>4, SessionGoesOn, Balances
<1>3. ASSUME NEW ready \in BOOLEAN, FrameCallback(ready) \/ Tick(ready)
      PROVE  PageInv'
  <2>1. UNCHANGED <<page, click, graph, mics, hasty, inbox>>
    BY <1>3 DEF FrameCallback, Tick, audioVars
  <2>2. PICK p \in PumpState : p.credits = pump.credits /\ PumpFrame(p, ready)
    <3>1. CASE Tick(ready)
      BY <1>1, <3>1 DEF Tick
    <3>2. CASE FrameCallback(ready)
      <4> DEFINE q == [pump EXCEPT !.chains = @ - 1]
      <4>1. q \in PumpState /\ q.credits = pump.credits /\ PumpFrame(q, ready)
        BY <1>1, <3>2 DEF FrameCallback, PumpState
      <4>2. QED
        BY <4>1
    <3>3. QED
      BY <1>3, <3>1, <3>2
  <2>3. /\ pump' \in PumpState /\ worker' \in [Click -> WorkerState]
        /\ page.worker = 0 => worker' = worker /\ pump'.credits = p.credits
        /\ \A k \in Click :
             /\ worker'[k].at = worker[k].at /\ worker'[k].shook = worker[k].shook
             /\ k # page.worker => worker'[k] = worker[k]
             /\ k = page.worker => pump'.credits + worker'[k].frames = p.credits + worker[k].frames
    BY <2>2, Pumps DEF PageInv
  <2>4. page' \in [publishing : {page.publishing}, hidden : BOOLEAN, worker : {page.worker}]
    BY <1>1, <2>1
  <2>5. \A k \in Click : (Running(k)' <=> Running(k)) /\ (Fresh(worker'[k]) <=> Fresh(worker[k]))
    BY <2>3 DEF Running, Fresh
  <2>6. CASE hasty
    <3>1. PageTypes' /\ hasty'
      BY <1>1, <2>1, <2>3, <2>6, PageTypesFrom, PageFields DEF PageInv
    <3>2. QED
      BY <3>1 DEF PageInv
  <2>7. CASE ~hasty
    <3>1. \A k \in Click : ~Running(k) => worker'[k] = worker[k]
      BY <1>1, <2>3, <2>7, Balances
    <3>2. page.worker # 0 => Balanced(worker'[page.worker], inbox'[page.worker], pump'.credits)
      <4> SUFFICES ASSUME page.worker # 0
                   PROVE  Balanced(worker'[page.worker], inbox'[page.worker], pump'.credits)
        OBVIOUS
      <4>1. page.worker \in Click /\ Balanced(worker[page.worker], inbox[page.worker], pump.credits)
        BY <2>7, Balances
      <4>2. /\ Count(inbox[page.worker], "credit") \in Nat
            /\ worker[page.worker].frames \in Nat /\ worker'[page.worker].frames \in Nat
            /\ pump.credits \in Nat /\ pump'.credits \in Nat
        BY <1>1, <2>3, <4>1, CountIsNat DEF WorkerState, PumpState
      <4>3. QED
        BY <2>1, <2>2, <2>3, <4>1, <4>2 DEF Balanced
    <3>3. QED
      BY <1>1, <2>1, <2>2, <2>3, <2>4, <2>5, <3>1, <3>2, SessionGoesOn
  <2>8. QED
    BY <2>6, <2>7
<1>4. QED
  BY <1>2, <1>3

(* Stop takes everything along, unless a handler waits.                     *)
LEMMA StopPage ==
  ASSUME PageInv, StopAll
  PROVE  PageInv'
<1>1. /\ page \in [publishing : BOOLEAN, hidden : BOOLEAN, worker : {0} \cup Click]
      /\ click \in [Click -> Waiting \cup {"idle", "thrown", "done"}]
      /\ graph \in [ctx : {0} \cup Click, node : {0} \cup Click, mic : {0} \cup Click]
      /\ mics \subseteq Click /\ pump \in PumpState /\ worker \in [Click -> WorkerState]
      /\ inbox \in [Click -> Seq(Message)] /\ hasty \in BOOLEAN /\ 0 \notin Click
  BY PageFields DEF PageInv
<1>2. /\ page' = [page EXCEPT !.publishing = FALSE, !.worker = 0] /\ UNCHANGED click
      /\ pump' = [StopPump(pump) EXCEPT !.credits = 0]
      /\ graph' = NoGraph /\ mics' = mics \ {graph.mic}
      /\ hasty' = (hasty \/ \E k \in Click : click[k] \in Waiting)
  BY DEF StopAll, StoppedPump, ClosedGraph
<1> DEFINE gone == [NoWorker EXCEPT !.at = "terminated"]
<1>3. gone \in WorkerState /\ gone.at = "terminated" /\ ~gone.wt
  <2>1. NoWorker \in WorkerState
    BY PageAssumption DEF NoWorker, WorkerState
  <2>2. gone \in WorkerState /\ gone.at = "terminated"
    BY <2>1 DEF WorkerState
  <2>3. QED
    BY <2>2 DEF NoWorker
<1>4. /\ worker' = [k \in Click |-> IF k = page.worker THEN gone ELSE worker[k]]
      /\ inbox' = [k \in Click |-> IF k = page.worker THEN <<>> ELSE inbox[k]]
  BY DEF StopAll
<1> HIDE DEF gone
<1>5. page'.publishing = FALSE /\ page'.worker = 0 /\ pump'.credits = 0 /\ pump' \in PumpState
  BY <1>1, <1>2, Schedules DEF PumpState
<1>6. PageTypes'
  <2>1. page' \in [publishing : BOOLEAN, hidden : BOOLEAN, worker : {0} \cup Click]
    BY <1>1, <1>2
  <2>2. worker' \in [Click -> WorkerState]
    BY <1>1, <1>3, <1>4
  <2>3. inbox' \in [Click -> Seq(Message)]
    BY <1>1, <1>4
  <2>4. graph' \in [ctx : {0} \cup Click, node : {0} \cup Click, mic : {0} \cup Click]
    BY <1>2 DEF NoGraph
  <2>5. QED
    BY <1>1, <1>2, <1>5, <2>1, <2>2, <2>3, <2>4, PageTypesFrom
<1>7. ASSUME ~hasty' PROVE Patience'
  <2>1. HandlersOK /\ WorkersOK /\ MicsOK /\ \A k \in Click : click[k] \notin Waiting
    BY <1>2, <1>7 DEF PageInv, Patience
  <2>2. \A k \in Click : ~Running(k)'
    BY <1>3, <1>4, <2>1 DEF Running, WorkersOK
  <2>3. \A k \in Click : worker[k].at = "none" => worker'[k] = worker[k] \/ k = page.worker
    BY <1>4
  <2>4. \A k \in Click : click[k] = "idle" => worker'[k].at = "none"
    <3>1. page.worker # 0 => worker[page.worker].at # "none"
      BY <2>1 DEF HandlersOK, Running
    <3>2. QED
      BY <1>1, <1>4, <2>1, <3>1 DEF HandlersOK
  <2>5. HandlersOK'
    BY <1>2, <1>5, <2>1, <2>2, <2>4 DEF HandlersOK
  <2>6. WorkersOK'
    <3>1. \A k \in Click : inbox'[k] = <<>> /\ ~worker'[k].wt
      BY <1>1, <1>3, <1>4, <2>1 DEF WorkersOK
    <3>2. \A k \in Click : worker'[k].at = "none" => worker'[k] = NoWorker
      BY <1>3, <1>4, <2>1 DEF WorkersOK
    <3>3. \A k \in Click : Fresh(worker'[k]) => ~worker'[k].shook
      <4>1. ~Fresh(gone)
        BY <1>3 DEF Fresh
      <4>2. QED
        BY <1>4, <2>1, <4>1 DEF WorkersOK
    <3>4. QED
      BY <2>2, <3>1, <3>2, <3>3 DEF WorkersOK
  <2>7. MicsOK'
    BY <1>2, <2>1 DEF MicsOK, Waiting
  <2>8. CreditsOK'
    BY <1>5 DEF CreditsOK
  <2>9. QED
    BY <2>5, <2>6, <2>7, <2>8 DEF Patience
<1>8. QED
  BY <1>6, <1>7 DEF PageInv

(* The worker: one that runs changes its state and may send one message.    *)
LEMMA WorksOn ==
  ASSUME PageInv, NEW k \in Click, ~hasty => Running(k), NEW w \in WorkerState,
         NEW msgs \in {<<>>} \cup {<<x>> : x \in Message}, Works(k, w, msgs),
         ~hasty => w.at \notin {"none", "terminated"},
         Fresh(w) => Fresh(worker[k]) /\ w.shook = worker[k].shook,
         ~hasty => Balanced(w, inbox[k] \o msgs, pump.credits)
  PROVE  PageInv'
<1>1. /\ page \in [publishing : BOOLEAN, hidden : BOOLEAN, worker : {0} \cup Click]
      /\ pump \in PumpState /\ worker \in [Click -> WorkerState]
      /\ inbox \in [Click -> Seq(Message)] /\ 0 \notin Click
  BY PageFields DEF PageInv
<1>2. /\ UNCHANGED <<page, click, graph, mics, pump, hasty>>
      /\ worker' = [worker EXCEPT ![k] = w] /\ inbox' = [inbox EXCEPT ![k] = @ \o msgs]
  BY DEF Works, audioVars
<1>3. inbox[k] \o msgs \in Seq(Message)
  <2>1. CASE msgs = <<>>
    BY <1>1, <2>1
  <2>2. ASSUME NEW x \in Message, msgs = <<x>> PROVE inbox[k] \o msgs \in Seq(Message)
    BY <1>1, <2>2, CountConcat
  <2>3. QED
    BY <2>1, <2>2
<1>4. worker' \in [Click -> WorkerState] /\ inbox' \in [Click -> Seq(Message)]
  BY <1>1, <1>2, <1>3
<1>5. \A j \in Click : /\ worker'[j] = IF j = k THEN w ELSE worker[j]
                       /\ inbox'[j] = IF j = k THEN inbox[k] \o msgs ELSE inbox[j]
  BY <1>1, <1>2
<1>6. CASE hasty
  <2>1. PageTypes' /\ hasty'
    BY <1>1, <1>2, <1>4, <1>6, PageTypesFrom, PageFields DEF PageInv
  <2>2. QED
    BY <2>1 DEF PageInv
<1>7. CASE ~hasty
  <2>1. page.worker = k
    BY <1>7 DEF PageInv, Patience, WorkersOK
  <2>2. page' \in [publishing : {page.publishing}, hidden : BOOLEAN, worker : {page.worker}]
    BY <1>1, <1>2
  <2>3. \A j \in Click : Running(j)' <=> Running(j)
    BY <1>5, <1>7 DEF Running
  <2>4. \A j \in Click : ~Running(j) => worker'[j] = worker[j] /\ inbox'[j] = inbox[j]
    BY <1>5, <1>7
  <2>5. \A j \in Click : Fresh(worker'[j]) => Fresh(worker[j]) /\ worker'[j].shook = worker[j].shook
    BY <1>5
  <2>6. Balanced(worker'[page.worker], inbox'[page.worker], pump'.credits)
    BY <1>2, <1>5, <1>7, <2>1
  <2>7. QED
    BY <1>1, <1>2, <1>4, <2>1, <2>2, <2>3, <2>4, <2>5, <2>6, SessionGoesOn
<1>8. QED
  BY <1>6, <1>7

LEMMA WorkerPage ==
  ASSUME PageInv, NEW k \in Click, WorkerNext(k)
  PROVE  PageInv'
<1> DEFINE w == worker[k]
           s == inbox[k]
           c == pump.credits
<1>1. w \in WorkerState /\ s \in Seq(Message) /\ c \in Nat
  BY PageFields DEF PageInv, PumpState
<1>2. ~hasty => Running(k)
  <2>1. ~hasty /\ w.wt => Running(k)
    BY DEF PageInv, Patience, WorkersOK
  <2>2. QED
    BY <2>1 DEF WorkerNext, EncoderReady, Dialed, InitFails, HandshakeDone, SrtCloses, WtCloses,
                HandleFrame, HasFrame, Running
<1>3. ~hasty => Balanced(w, s, c) /\ (Fresh(w) => ~w.shook)
  <2> SUFFICES ASSUME ~hasty PROVE Balanced(w, s, c) /\ (Fresh(w) => ~w.shook)
    OBVIOUS
  <2>1. page.worker = k /\ (Fresh(w) => ~w.shook)
    BY <1>2 DEF PageInv, Patience, WorkersOK
  <2>2. k # 0
    BY PageFields DEF PageInv
  <2>3. QED
    BY <2>1, <2>2, Balances
<1>4. \A x \in Message : <<x>> \in {<<>>} \cup {<<y>> : y \in Message}
  OBVIOUS
<1>5. /\ s \o <<>> = s
      /\ Count(s, "credit") \in Nat /\ Count(s, "handshakeComplete") \in Nat
      /\ \A x \in Message :
           /\ Count(s \o <<x>>, "credit") = Count(s, "credit") + (IF x = "credit" THEN 1 ELSE 0)
           /\ Count(s \o <<x>>, "handshakeComplete")
                = Count(s, "handshakeComplete") + (IF x = "handshakeComplete" THEN 1 ELSE 0)
  BY <1>1, CountConcat, CountIsNat
<1>6. {"credit", "handshakeComplete", "close", "wtClosed"} = Message
  BY DEF Message
<1>7. w.frames \in Nat /\ w.shook \in BOOLEAN
  BY <1>1 DEF WorkerState
<1> HIDE DEF w, s, c
<1>8. ASSUME NEW u \in WorkerState, NEW msgs \in {<<>>} \cup {<<x>> : x \in Message},
             Works(k, u, msgs), ~hasty => u.at \notin {"none", "terminated"},
             Fresh(u) => Fresh(w) /\ u.shook = w.shook,
             ~hasty => Balanced(u, s \o msgs, c)
      PROVE  PageInv'
  BY <1>2, <1>8, WorksOn DEF w, s, c
(* No message, or one that is neither a credit nor the handshake's.         *)
<1>9. ASSUME NEW u, u.shook = w.shook, u.frames = w.frames, ~hasty
      PROVE  /\ Balanced(u, s \o <<>>, c)
             /\ \A x \in {"close", "wtClosed"} : Balanced(u, s \o <<x>>, c)
  BY <1>3, <1>5, <1>6, <1>9 DEF Balanced
<1>10. CASE EncoderReady(k)
  <2> DEFINE u == [w EXCEPT !.at = "dialing", !.encoder = TRUE]
  <2>1. /\ u \in WorkerState /\ u.at = "dialing" /\ u.shook = w.shook /\ u.frames = w.frames
        /\ Works(k, u, <<>>) /\ w.at = "init"
    BY <1>1, <1>10 DEF EncoderReady, WorkerState, w
  <2> HIDE DEF u
  <2>2. Fresh(u) => Fresh(w) /\ u.shook = w.shook
    BY <2>1 DEF Fresh
  <2>3. QED
    BY <1>8, <1>9, <2>1, <2>2
<1>11. CASE Dialed(k)
  <2> DEFINE u == [w EXCEPT !.at = "up", !.wt = TRUE]
  <2>1. /\ u \in WorkerState /\ u.at = "up" /\ u.shook = w.shook /\ u.frames = w.frames
        /\ Works(k, u, <<>>) /\ w.at = "dialing"
    BY <1>1, <1>11 DEF Dialed, WorkerState, w
  <2> HIDE DEF u
  <2>2. Fresh(u) => Fresh(w) /\ u.shook = w.shook
    BY <2>1 DEF Fresh
  <2>3. QED
    BY <1>8, <1>9, <2>1, <2>2
<1>12. CASE InitFails(k)
  <2> DEFINE u == [NoWorker EXCEPT !.at = "failed"]
  <2>1. NoWorker \in WorkerState
    BY PageAssumption DEF NoWorker, WorkerState
  <2>2. /\ u \in WorkerState /\ u.at = "failed" /\ ~u.shook /\ u.frames = 0
        /\ Works(k, u, <<"wtClosed">>) /\ Fresh(w)
    <3>1. u \in WorkerState /\ u.at = "failed"
      BY <2>1 DEF WorkerState
    <3>2. ~u.shook /\ u.frames = 0
      BY DEF NoWorker
    <3>3. QED
      BY <1>12, <3>1, <3>2 DEF InitFails, Fresh, w
  <2> HIDE DEF u
  <2>3. ~hasty => Balanced(u, s \o <<"wtClosed">>, c)
    BY <1>1, <1>3, <1>5, <1>6, <1>7, <2>2 DEF Balanced
  <2>4. ~Fresh(u)
    BY <2>2 DEF Fresh
  <2>5. QED
    BY <1>4, <1>6, <1>8, <2>2, <2>3, <2>4
<1>13. CASE HandshakeDone(k)
  <2> DEFINE u == [w EXCEPT !.at = "live", !.shook = TRUE, !.backlog = 0]
  <2>1. /\ u \in WorkerState /\ u.at = "live" /\ u.shook /\ u.frames = w.frames
        /\ Works(k, u, <<"handshakeComplete">>) /\ Fresh(w)
    <3>1. 0 \in 0..MaxBacklog
      BY PageAssumption
    <3>2. u \in WorkerState /\ u.at = "live" /\ u.shook /\ u.frames = w.frames
      BY <1>1, <3>1 DEF WorkerState
    <3>3. Works(k, u, <<"handshakeComplete">>) /\ w.at = "up"
      BY <1>13 DEF HandshakeDone, w
    <3>4. QED
      BY <3>2, <3>3 DEF Fresh
  <2> HIDE DEF u
  <2>2. ~hasty => Balanced(u, s \o <<"handshakeComplete">>, c)
    BY <1>1, <1>3, <1>5, <1>6, <1>7, <2>1 DEF Balanced
  <2>3. ~Fresh(u)
    BY <2>1 DEF Fresh
  <2>4. QED
    BY <1>4, <1>6, <1>8, <2>1, <2>2, <2>3
<1>14. CASE SrtCloses(k)
  <2> DEFINE u == [w EXCEPT !.at = "closed"]
  <2>1. /\ u \in WorkerState /\ u.at = "closed" /\ u.shook = w.shook /\ u.frames = w.frames
        /\ Works(k, u, <<"close">>)
    BY <1>1, <1>14 DEF SrtCloses, WorkerState, w
  <2> HIDE DEF u
  <2>2. ~Fresh(u)
    BY <2>1 DEF Fresh
  <2>3. QED
    BY <1>4, <1>6, <1>8, <1>9, <2>1, <2>2
<1>15. CASE WtCloses(k)
  <2> DEFINE u == [w EXCEPT !.wt = FALSE]
  <2>1. /\ u \in WorkerState /\ u.at = w.at /\ u.shook = w.shook /\ u.frames = w.frames
        /\ Works(k, u, <<"wtClosed">>)
    BY <1>1, <1>15 DEF WtCloses, WorkerState, w
  <2> HIDE DEF u
  <2>2. Fresh(u) => Fresh(w)
    BY <2>1 DEF Fresh
  <2>3. ~hasty => u.at \notin {"none", "terminated"}
    BY <1>2, <2>1 DEF Running, w
  <2>4. QED
    BY <1>4, <1>6, <1>8, <1>9, <2>1, <2>2, <2>3
<1>16. CASE HandleFrame(k)
  <2>1. PICK u \in {Encoded(w), Dropped(w)} : Works(k, u, <<"credit">>)
    BY <1>16 DEF HandleFrame, w
  <2>2. w.frames > 0 /\ w.at \notin {"none", "terminated"}
    BY <1>16 DEF HandleFrame, HasFrame, Running, w
  <2>3. u \in WorkerState /\ u.at = w.at /\ u.shook = w.shook /\ u.frames = w.frames - 1
    <3>1. Dropped(w) \in WorkerState /\ Dropped(w).at = w.at /\ Dropped(w).shook = w.shook
          /\ Dropped(w).frames = w.frames - 1
      BY <1>1, <2>2 DEF Dropped, WorkerState
    <3> DEFINE b == IF w.at = "live" THEN 0 ELSE IF w.backlog < MaxBacklog THEN w.backlog + 1 ELSE w.backlog
    <3>2. b \in 0..MaxBacklog
      BY <1>1, PageAssumption DEF WorkerState
    <3>3. Encoded(w) = [w EXCEPT !.frames = @ - 1, !.backlog = b]
      BY DEF Encoded
    <3> HIDE DEF b
    <3>4. w.frames - 1 \in Nat
      BY <1>7, <2>2
    <3>5. Encoded(w) \in WorkerState /\ Encoded(w).at = w.at /\ Encoded(w).shook = w.shook
          /\ Encoded(w).frames = w.frames - 1
      BY <1>1, <3>2, <3>3, <3>4 DEF WorkerState
    <3>6. QED
      BY <3>1, <3>5
  <2>4. ~hasty => Balanced(u, s \o <<"credit">>, c)
    <3>1. /\ Count(s \o <<"credit">>, "credit") = Count(s, "credit") + 1
          /\ Count(s \o <<"credit">>, "handshakeComplete") = Count(s, "handshakeComplete")
      BY <1>5, <1>6
    <3>2. QED
      BY <1>1, <1>3, <1>5, <1>7, <2>3, <3>1 DEF Balanced
  <2>5. Fresh(u) => Fresh(w)
    BY <2>3 DEF Fresh
  <2>6. QED
    BY <1>4, <1>6, <1>8, <2>1, <2>2, <2>3, <2>4, <2>5
<1>17. QED
  BY <1>10, <1>11, <1>12, <1>13, <1>14, <1>15, <1>16 DEF WorkerNext

(* A message comes from the worker that the page holds.                     *)
LEMMA MessagePage ==
  ASSUME PageInv, NEW k \in Click, MessageNext(k)
  PROVE  PageInv'
<1> DEFINE s == inbox[k]
<1>1. /\ page \in [publishing : BOOLEAN, hidden : BOOLEAN, worker : {0} \cup Click]
      /\ pump \in PumpState /\ worker \in [Click -> WorkerState]
      /\ inbox \in [Click -> Seq(Message)] /\ 0 \notin Click
  BY PageFields DEF PageInv
<1>2. PICK msg \in Message : Receives(k, msg)
                             /\ (Credit(k) => msg = "credit")
                             /\ (HandshakeComplete(k) => msg = "handshakeComplete")
                             /\ (SessionOver(k) => msg \in {"close", "wtClosed"})
  BY DEF MessageNext, Credit, HandshakeComplete, SessionOver, Receives, Message
<1>3. /\ UNCHANGED <<page, click, graph, mics, hasty>> /\ s # <<>> /\ Head(s) = msg
      /\ inbox' = [inbox EXCEPT ![k] = Tail(s)]
  BY <1>2 DEF Receives, audioVars
<1>4. /\ Tail(s) \in Seq(Message)
      /\ Count(Tail(s), "credit") = Count(s, "credit") - (IF msg = "credit" THEN 1 ELSE 0)
      /\ Count(Tail(s), "handshakeComplete")
           = Count(s, "handshakeComplete") - (IF msg = "handshakeComplete" THEN 1 ELSE 0)
  BY <1>1, <1>3, CountTail
<1>5. /\ Count(s, "credit") \in Nat /\ Count(s, "handshakeComplete") \in Nat
      /\ Count(Tail(s), "credit") \in Nat /\ Count(Tail(s), "handshakeComplete") \in Nat
  BY <1>1, <1>4, CountIsNat
<1>6. inbox' \in [Click -> Seq(Message)]
      /\ \A j \in Click : inbox'[j] = IF j = k THEN Tail(s) ELSE inbox[j]
  BY <1>1, <1>3, <1>4
<1> HIDE DEF s
<1>7. PICK p \in PumpState :
        \/ /\ SessionOver(k) /\ worker' = worker /\ pump' \in PumpState /\ pump'.credits = p.credits
           /\ p.credits = pump.credits
        \/ /\ Credit(k) /\ worker' = worker /\ pump' = p /\ p.credits = pump.credits + 1
        \/ /\ HandshakeComplete(k) /\ PumpFrame(p, TRUE) /\ p.credits = Credits
  <2>1. CASE SessionOver(k)
    BY <1>1, <2>1, Schedules DEF SessionOver
  <2>2. CASE Credit(k)
    <3> DEFINE p == [pump EXCEPT !.credits = @ + 1]
    <3>1. p \in PumpState /\ p.credits = pump.credits + 1 /\ pump' = p /\ worker' = worker
      BY SMTT(40), <1>1, <2>2 DEF Credit, PumpState
    <3> HIDE DEF p
    <3>2. QED
      BY <2>2, <3>1
  <2>3. CASE HandshakeComplete(k)
    <3> DEFINE p == [pump EXCEPT !.credits = Credits]
    <3>1. p \in PumpState /\ p.credits = Credits /\ PumpFrame(p, TRUE)
      BY <1>1, <2>3, PageAssumption DEF HandshakeComplete, PumpState
    <3> HIDE DEF p
    <3>2. QED
      BY <2>3, <3>1
  <2>4. QED
    BY <2>1, <2>2, <2>3 DEF MessageNext
<1>8. /\ pump' \in PumpState /\ worker' \in [Click -> WorkerState]
      /\ \A j \in Click :
           /\ worker'[j].at = worker[j].at /\ worker'[j].shook = worker[j].shook
           /\ j # page.worker => worker'[j] = worker[j]
           /\ j = page.worker => pump'.credits + worker'[j].frames = p.credits + worker[j].frames
  <2>1. CASE PumpFrame(p, TRUE)
    BY <2>1, Pumps DEF PageInv
  <2>2. CASE worker' = worker /\ pump' \in PumpState /\ pump'.credits = p.credits
    BY <1>1, <2>2
  <2>3. QED
    BY <1>7, <2>1, <2>2
<1>9. CASE hasty
  <2>1. PageTypes' /\ hasty'
    BY <1>1, <1>3, <1>6, <1>8, <1>9, PageTypesFrom, PageFields DEF PageInv
  <2>2. QED
    BY <2>1 DEF PageInv
<1>10. CASE ~hasty
  <2>1. Running(k) /\ page.worker = k
    BY <1>3, <1>10 DEF PageInv, Patience, WorkersOK, s
  <2>2. Balanced(worker[k], s, pump.credits)
    BY <1>1, <1>10, <2>1, Balances DEF s
  <2>3. /\ worker[k].frames \in Nat /\ worker'[k].frames \in Nat /\ pump.credits \in Nat
        /\ pump'.credits \in Nat /\ worker[k].shook \in BOOLEAN /\ Credits \in Nat
    BY <1>1, <1>8, PageAssumption DEF WorkerState, PumpState
  <2>4. /\ worker'[k].shook = worker[k].shook
        /\ pump'.credits + worker'[k].frames = p.credits + worker[k].frames
    BY <1>8, <2>1
  <2>5. Balanced(worker'[k], Tail(s), pump'.credits)
    <3>1. CASE SessionOver(k)
      <4>1. msg \notin {"credit", "handshakeComplete"} /\ pump'.credits = pump.credits /\ worker' = worker
        BY <1>2, <1>7, <3>1 DEF SessionOver, Credit, HandshakeComplete, Receives
      <4>2. QED
        BY <1>4, <1>5, <2>2, <2>3, <4>1 DEF Balanced
    <3>2. CASE Credit(k)
      <4>1. msg = "credit" /\ ~SessionOver(k) /\ ~HandshakeComplete(k)
        BY <1>2, <3>2 DEF SessionOver, HandshakeComplete, Receives, Credit
      <4>2. pump'.credits = pump.credits + 1 /\ worker' = worker
        BY <1>7, <4>1
      <4>3. /\ Count(Tail(s), "credit") = Count(s, "credit") - 1
            /\ Count(Tail(s), "handshakeComplete") = Count(s, "handshakeComplete")
        BY <1>4, <1>5, <4>1
      <4>4. QED
        BY <1>5, <2>2, <2>3, <4>2, <4>3 DEF Balanced
    <3>3. CASE HandshakeComplete(k)
      <4>1. msg = "handshakeComplete" /\ ~SessionOver(k) /\ ~Credit(k)
        BY <1>2, <3>3 DEF SessionOver, HandshakeComplete, Receives, Credit
      <4>2. p.credits = Credits
        BY <1>7, <4>1
      <4>3. /\ Count(s, "handshakeComplete") = 1 /\ worker[k].shook
            /\ pump.credits + worker[k].frames + Count(s, "credit") = 0
        BY <1>4, <1>5, <2>2, <2>3, <4>1 DEF Balanced
      <4>4. worker[k].frames = 0 /\ Count(s, "credit") = 0
        <5>1. \A a, b, c \in Nat : a + b + c = 0 => b = 0 /\ c = 0
          OBVIOUS
        <5>2. QED
          BY <1>5, <2>3, <4>3, <5>1
      <4>5. Count(Tail(s), "handshakeComplete") = 0 /\ Count(Tail(s), "credit") = 0
        BY <1>4, <4>1, <4>3, <4>4
      <4>6. pump'.credits + worker'[k].frames = Credits /\ worker'[k].shook
        BY <2>3, <2>4, <4>2, <4>3, <4>4
      <4>7. QED
        BY <2>3, <4>5, <4>6 DEF Balanced
    <3>4. QED
      BY <3>1, <3>2, <3>3 DEF MessageNext
  <2>6. page' \in [publishing : {page.publishing}, hidden : BOOLEAN, worker : {page.worker}]
    BY <1>1, <1>3
  <2>7. \A j \in Click : (Running(j)' <=> Running(j)) /\ (Fresh(worker'[j]) <=> Fresh(worker[j]))
    BY <1>8 DEF Running, Fresh
  <2>8. \A j \in Click : ~Running(j) => worker'[j] = worker[j] /\ inbox'[j] = inbox[j]
    BY <1>6, <1>8, <2>1
  <2>9. Balanced(worker'[page.worker], inbox'[page.worker], pump'.credits) /\ page.worker # 0
    BY <1>1, <1>6, <2>1, <2>5
  <2>10. \A j \in Click : Fresh(worker'[j]) => Fresh(worker[j]) /\ worker'[j].shook = worker[j].shook
    BY <1>8, <2>7
  <2>11. QED
    BY <1>3, <1>6, <1>8, <2>6, <2>7, <2>8, <2>9, <2>10, SessionGoesOn
<1>11. QED
  BY <1>9, <1>10

LEMMA NextPage == PageInv /\ [PageNext]_pageVars => PageInv'
<1> SUFFICES ASSUME PageInv, [PageNext]_pageVars PROVE PageInv'
  OBVIOUS
<1>1. CASE UNCHANGED pageVars
  <2>1. UNCHANGED <<page, click, graph, mics, pump, worker, inbox, hasty>>
    BY <1>1 DEF pageVars, audioVars, workVars
  <2>2. (PageTypes' <=> PageTypes) /\ (HandlersOK' <=> HandlersOK) /\ (WorkersOK' <=> WorkersOK)
    BY <2>1 DEF PageTypes, PageTypeOK, HandlersOK, WorkersOK, Running
  <2>3. (MicsOK' <=> MicsOK) /\ (CreditsOK' <=> CreditsOK)
    BY <2>1 DEF MicsOK, CreditsOK
  <2>4. QED
    BY <2>1, <2>2, <2>3 DEF PageInv, Patience
<1>2. CASE PageNext
  <2>1. CASE StopAll
    BY <2>1, StopPage
  <2>2. CASE VisibilityChange \/ \E ready \in BOOLEAN : FrameCallback(ready) \/ Tick(ready)
    BY <2>2, PumpPage
  <2>3. ASSUME NEW k \in Click, HandlerNext(k) PROVE PageInv'
    BY <2>3, HandlersPage
  <2>4. ASSUME NEW k \in Click, MessageNext(k) PROVE PageInv'
    BY <2>4, MessagePage
  <2>5. ASSUME NEW k \in Click, WorkerNext(k) PROVE PageInv'
    BY <2>5, WorkerPage
  <2>6. QED
    BY <1>2, <2>1, <2>2, <2>3, <2>4, <2>5 DEF PageNext
<1>3. QED
  BY <1>1, <1>2

(* The page keeps its types, also after a Stop that came while a handler    *)
(* waited: no number of credits or frames goes below zero.                  *)
THEOREM PageTypeCorrect == PageSpec => []PageTypeOK
<1>1. PageInv => PageTypeOK
  BY DEF PageInv, PageTypes
<1>2. QED
  BY <1>1, InitPage, NextPage, PTL DEF PageSpec

(* Credits are neither lost nor made, for any number of them, of sessions   *)
(* and of changes of the tab: what the pump, the frames on their way and    *)
(* the answers have together is what the handshake gave.                    *)
THEOREM NoCreditIsLost == PageSpec => []CreditsAreConserved
<1>1. PageInv => CreditsAreConserved
  <2> SUFFICES ASSUME PageInv, page.worker # 0, ~hasty
               PROVE  pump.credits + worker[page.worker].frames + OnTheWay(page.worker)
                        = IF Started(page.worker) THEN Credits ELSE 0
    BY DEF CreditsAreConserved
  <2>1. page.worker \in Click /\ Balanced(worker[page.worker], inbox[page.worker], pump.credits)
    BY Balances
  <2>2. inbox[page.worker] \in Seq(Message)
    BY <2>1, PageFields DEF PageInv
  <2>3. OnTheWay(page.worker) = Count(inbox[page.worker], "credit")
    BY DEF OnTheWay, Count, Places
  <2>4. Contains(inbox[page.worker], "handshakeComplete")
          <=> Count(inbox[page.worker], "handshakeComplete") # 0
    BY <2>2, CountIsNat
  <2>5. QED
    BY <2>1, <2>3, <2>4 DEF Balanced, Started
<1>2. QED
  BY <1>1, InitPage, NextPage, PTL DEF PageSpec

(* A Stop that no handler of Publish was waiting at leaves no microphone    *)
(* on and no worker running; and while a stream is published, the worker    *)
(* that the page holds is the only one.                                     *)
THEOREM StopLeavesNothing == PageSpec => []StopEndsAll
<1>1. PageInv => StopEndsAll
  <2> SUFFICES ASSUME PageInv, ~hasty
               PROVE  /\ ~page.publishing => mics = {}
                      /\ \A k \in Click : Running(k) => page.publishing /\ page.worker = k
    BY DEF StopEndsAll
  <2>1. HandlersOK /\ WorkersOK /\ MicsOK /\ 0 \notin Click
    BY PageFields DEF PageInv, Patience
  <2>2. QED
    BY <2>1 DEF HandlersOK, WorkersOK, MicsOK
<1>2. QED
  BY <1>1, InitPage, NextPage, PTL DEF PageSpec
=============================================================================
