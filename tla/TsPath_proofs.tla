---------------------------- MODULE TsPath_proofs ----------------------------
(***************************************************************************)
(* The counters on the wire, what the continuity check makes of them, the  *)
(* tables that announce what is sent, the keyframe flag, the return of     *)
(* tables after a loss, the codec and the bytes of what is delivered.  For *)
(* any muxers, sizes of packets and tables, numbers of pushes and losses.  *)
(***************************************************************************)
EXTENDS TsPath, FiniteSetTheorems, SequenceTheorems, WellFoundedInduction, TLAPS

Mod(n) == n % CcModulus
Cc == 0..(CcModulus - 1)

(* The packets of pid in s count on from one counter to another: c is the   *)
(* counter before the first packet and after each one.                      *)
Counts(c, s, pid) ==
  \A i \in 1..Len(s) :
    IF s[i].pid = pid THEN s[i].cc = c[i - 1] /\ c[i] = Mod(c[i - 1] + 1) ELSE c[i] = c[i - 1]
Chained(s, pid, from, to) ==
  \E c \in [0..Len(s) -> Cc] : c[0] = from /\ c[Len(s)] = to /\ Counts(c, s, pid)

-----------------------------------------------------------------------------
(* A set of naturals that is not empty has a least element.                 *)
LEMMA Least ==
  ASSUME NEW T, T \subseteq Nat, T # {}
  PROVE  Min(T) \in T /\ \A y \in T : Min(T) <= y
<1> DEFINE Below == {0..x : x \in T}
           R == StrictSubsetOrdering(Nat)
<1>1. Below \subseteq FiniteSubsetsOf(Nat) /\ Below # {}
  <2>1. \A x \in Nat : 0..x \subseteq Nat /\ IsFiniteSet(0..x)
    BY FS_Interval
  <2>2. \A x \in T : 0..x \in FiniteSubsetsOf(Nat)
    BY <2>1 DEF FiniteSubsetsOf
  <2>3. QED
    BY <2>2
<1>2. PICK B \in Below : \A C \in Below : <<C, B>> \notin R
  BY <1>1, FS_StrictSubsetOrderingWellFounded, WFMin
<1>3. PICK x \in T : B = 0..x
  OBVIOUS
<1>4. ASSUME NEW y \in T, y < x PROVE FALSE
  <2>1. 0..y \subseteq 0..x /\ x \notin 0..y /\ x \in 0..x
    BY <1>4
  <2>2. <<0..y, B>> \in R
    BY <1>1, <1>3, <2>1 DEF StrictSubsetOrdering, FiniteSubsetsOf
  <2>3. QED
    BY <1>2, <2>2
<1>5. \A y \in T : x <= y
  BY <1>4
<1>6. QED
  BY <1>5 DEF Min

(* The remainder is what its equation says.                                 *)
LEMMA RemainderIs ==
  ASSUME NEW M \in Nat \ {0}, NEW q \in Int, NEW r \in 0..(M - 1)
  PROVE  (M * q + r) % M = r
<1> DEFINE n == M * q + r
           p == n \div M
           s == n % M
<1>1. n \in Int /\ p \in Int /\ s \in 0..(M - 1) /\ n = M * p + s
  OBVIOUS
<1>2. ASSUME NEW a \in Int, NEW b \in Int, a > b PROVE M * a >= M * b + M
  <2>1. a - b >= 1
    BY <1>2
  <2>2. M * (a - b) >= M
    BY <2>1
  <2>3. M * (a - b) = M * a - M * b
    OBVIOUS
  <2>4. QED
    BY <2>2, <2>3
<1>3. M * q + r = M * p + s
  BY <1>1
<1>4. M * q \in Int /\ M * p \in Int
  BY <1>1
<1> HIDE DEF n, p, s
<1>5. CASE q > p
  <2>1. M * q >= M * p + M
    BY <1>1, <1>2, <1>5
  <2>2. QED
    BY <1>1, <1>3, <1>4, <2>1
<1>6. CASE p > q
  <2>1. M * p >= M * q + M
    BY <1>1, <1>2, <1>6
  <2>2. QED
    BY <1>1, <1>3, <1>4, <2>1
<1>7. CASE p = q
  BY <1>1, <1>3, <1>4, <1>7 DEF n, s
<1>8. QED
  BY <1>1, <1>5, <1>6, <1>7

LEMMA ModFacts ==
  ASSUME NEW n \in Nat
  PROVE  Mod(n) \in 0..(CcModulus - 1) /\ Mod(Mod(n) + 1) = Mod(n + 1)
<1> DEFINE M == CcModulus
           q == n \div M
           r == n % M
<1>1. M \in Nat \ {0}
  BY MuxerAssumption
<1>2. M \in Nat \ {0} /\ q \in Nat /\ r \in 0..(M - 1) /\ n = M * q + r
  BY <1>1
<1>3. CASE r + 1 < M
  <2>0. r + 1 \in 0..(M - 1) /\ 0 \in Int /\ q \in Int
    BY <1>2, <1>3
  <2>1. (M * 0 + (r + 1)) % M = r + 1 /\ (M * q + (r + 1)) % M = r + 1
    BY <1>2, <2>0, RemainderIs
  <2>2. n + 1 = M * q + (r + 1) /\ M * 0 + (r + 1) = r + 1
    BY <1>2
  <2>3. QED
    BY <1>2, <2>1, <2>2 DEF Mod
<1>4. CASE r + 1 = M
  <2>1. (M * 1 + 0) % M = 0 /\ (M * (q + 1) + 0) % M = 0
    BY <1>2, RemainderIs
  <2>2. n + 1 = M * (q + 1) + 0 /\ M * 1 + 0 = r + 1
    BY <1>2, <1>4
  <2>3. QED
    BY <1>2, <2>1, <2>2 DEF Mod
<1>5. QED
  BY <1>2, <1>3, <1>4

LEMMA CcFacts ==
  /\ CcModulus \in Nat \ {0} /\ 0 \in Cc /\ \A c \in Cc : c \in Nat /\ Mod(c) = c
  /\ \A n \in Nat : Mod(n) \in Cc
<1>1. CcModulus \in Nat \ {0} /\ CcModulus > 1
  BY MuxerAssumption
<1>2. \A c \in Cc : (CcModulus * 0 + c) % CcModulus = c
  BY <1>1, RemainderIs DEF Cc
<1>3. \A n \in Nat : Mod(n) \in Cc
  BY ModFacts DEF Cc
<1>4. QED
  BY <1>1, <1>2, <1>3 DEF Cc, Mod

(* Nothing of pid.                                                          *)
LEMMA ChainNone ==
  ASSUME NEW S, NEW s \in Seq(S), NEW pid, \A i \in 1..Len(s) : s[i].pid # pid, NEW f \in Cc
  PROVE  Chained(s, pid, f, f)
<1> DEFINE c == [i \in 0..Len(s) |-> f]
<1>1. c \in [0..Len(s) -> Cc] /\ c[0] = f /\ c[Len(s)] = f /\ Counts(c, s, pid)
  BY DEF Counts
<1>2. QED
  BY <1>1 DEF Chained

(* A run of packets of pid, numbered on from f.                             *)
LEMMA ChainBlock ==
  ASSUME NEW S, NEW s \in Seq(S), NEW pid, NEW f \in Cc,
         \A i \in 1..Len(s) : s[i].pid = pid /\ s[i].cc = Mod(f + i - 1)
  PROVE  Chained(s, pid, f, Mod(f + Len(s)))
<1> DEFINE c == [i \in 0..Len(s) |-> Mod(f + i)]
<1>1. Len(s) \in Nat /\ f \in Nat /\ Mod(f + 0) = f
  BY CcFacts
<1>2. c \in [0..Len(s) -> Cc] /\ c[0] = f /\ c[Len(s)] = Mod(f + Len(s))
  BY <1>1, CcFacts
<1>3. ASSUME NEW i \in 1..Len(s)
      PROVE  s[i].pid = pid /\ s[i].cc = c[i - 1] /\ c[i] = Mod(c[i - 1] + 1)
  <2>1. i - 1 \in 0..Len(s) /\ f + (i - 1) \in Nat /\ f + i - 1 = f + (i - 1) /\ f + (i - 1) + 1 = f + i
    BY <1>1
  <2>2. c[i - 1] = Mod(f + (i - 1)) /\ c[i] = Mod(f + i)
    BY <2>1
  <2>3. Mod(Mod(f + (i - 1)) + 1) = Mod(f + i)
    BY <2>1, ModFacts
  <2>4. QED
    BY <2>1, <2>2, <2>3
<1>4. Counts(c, s, pid)
  BY <1>3 DEF Counts
<1>5. QED
  BY <1>2, <1>4 DEF Chained

(* One run after the other.                                                 *)
LEMMA ChainConcat ==
  ASSUME NEW S, NEW s \in Seq(S), NEW u \in Seq(S), NEW pid, NEW f, NEW t, NEW w,
         Chained(s, pid, f, t), Chained(u, pid, t, w)
  PROVE  Chained(s \o u, pid, f, w)
<1>1. PICK c \in [0..Len(s) -> Cc] : c[0] = f /\ c[Len(s)] = t /\ Counts(c, s, pid)
  BY DEF Chained
<1>2. PICK d \in [0..Len(u) -> Cc] : d[0] = t /\ d[Len(u)] = w /\ Counts(d, u, pid)
  BY DEF Chained
<1> DEFINE n == Len(s)
           su == s \o u
           e == [i \in 0..(n + Len(u)) |-> IF i <= n THEN c[i] ELSE d[i - n]]
<1>3. /\ n \in Nat /\ Len(u) \in Nat /\ Len(su) = n + Len(u)
      /\ \A i \in 1..n : su[i] = s[i]
      /\ \A i \in (n + 1)..(n + Len(u)) : i - n \in 1..Len(u) /\ su[i] = u[i - n]
  OBVIOUS
<1>4. e \in [0..Len(su) -> Cc] /\ e[0] = f /\ e[Len(su)] = w
  <2>1. ASSUME NEW i \in 0..(n + Len(u)) PROVE e[i] \in Cc
    <3>1. CASE i <= n
      BY SMTT(40), <1>3, <3>1
    <3>2. CASE i > n
      <4>1. i - n \in 0..Len(u) /\ e[i] = d[i - n]
        BY <1>3, <3>2
      <4>2. QED
        BY <4>1
    <3>3. QED
      BY <1>3, <3>1, <3>2
  <2>2. e[n + Len(u)] = w
    <3>1. CASE Len(u) = 0
      BY <1>1, <1>2, <1>3, <3>1
    <3>2. CASE Len(u) > 0
      BY <1>1, <1>2, <1>3, <3>2
    <3>3. QED
      BY <1>3, <3>1, <3>2
  <2>3. QED
    BY <1>1, <1>3, <2>1, <2>2
<1>5. ASSUME NEW i \in 1..Len(su)
      PROVE  IF su[i].pid = pid THEN su[i].cc = e[i - 1] /\ e[i] = Mod(e[i - 1] + 1) ELSE e[i] = e[i - 1]
  <2>1. CASE i <= n
    <3>1. i \in 1..n /\ e[i] = c[i] /\ e[i - 1] = c[i - 1] /\ su[i] = s[i]
      BY <1>3, <2>1
    <3>2. QED
      BY <1>1, <3>1 DEF Counts
  <2>2. CASE i > n
    <3>1. i - n \in 1..Len(u) /\ e[i] = d[i - n] /\ su[i] = u[i - n]
      BY <1>3, <2>2
    <3>2. e[i - 1] = d[(i - n) - 1]
      <4>1. CASE i - 1 = n
        BY <1>1, <1>2, <1>3, <4>1
      <4>2. CASE i - 1 > n
        BY <1>3, <4>2
      <4>3. QED
        BY <1>3, <2>2, <4>1, <4>2
    <3>3. QED
      BY <1>2, <3>1, <3>2 DEF Counts
  <2>3. QED
    BY <1>3, <2>1, <2>2
<1>6. QED
  BY <1>4, <1>5 DEF Chained, Counts

(* Without its first packet.                                                *)
LEMMA ChainTail ==
  ASSUME NEW S, NEW s \in Seq(S), s # <<>>, NEW pid, NEW f, NEW t, Chained(s, pid, f, t)
  PROVE  /\ s[1].pid = pid => s[1].cc = f /\ Chained(Tail(s), pid, Mod(f + 1), t)
         /\ s[1].pid # pid => Chained(Tail(s), pid, f, t)
<1>1. PICK c \in [0..Len(s) -> Cc] : c[0] = f /\ c[Len(s)] = t /\ Counts(c, s, pid)
  BY DEF Chained
<1> DEFINE n == Len(s) - 1
           d == [i \in 0..n |-> c[i + 1]]
<1>2. Len(s) \in Nat \ {0} /\ n \in Nat /\ Len(Tail(s)) = n /\ \A i \in 1..n : Tail(s)[i] = s[i + 1]
  OBVIOUS
<1>3. d \in [0..n -> Cc] /\ d[0] = c[1] /\ d[n] = t
  BY <1>1, <1>2
<1>4. Counts(d, Tail(s), pid)
  <2>1. ASSUME NEW i \in 1..n
        PROVE  i + 1 \in 1..Len(s) /\ (i + 1) - 1 = i /\ (i - 1) + 1 = i /\ d[i] = c[i + 1] /\ d[i - 1] = c[i]
    BY <1>2
  <2>2. QED
    BY <1>1, <1>2, <2>1 DEF Counts
<1>5. Chained(Tail(s), pid, c[1], t)
  BY <1>2, <1>3, <1>4 DEF Chained
<1>6. IF s[1].pid = pid THEN s[1].cc = f /\ c[1] = Mod(f + 1) ELSE c[1] = f
  BY <1>1, <1>2 DEF Counts
<1>7. QED
  BY <1>5, <1>6

LEMMA ChainEnds ==
  ASSUME NEW S, NEW s \in Seq(S), NEW pid, NEW f, NEW t, Chained(s, pid, f, t)
  PROVE  f \in Cc /\ t \in Cc /\ (s = <<>> => f = t)
  BY DEF Chained

-----------------------------------------------------------------------------
(* The streams of the muxers, their packets and tables.                     *)
StreamPids == UNION {{m.audio_streams[i].pid : i \in DOMAIN m.audio_streams} : m \in Muxers}
TablePids == StreamPids \cup {Video, FirstAudio}
Entry == [pid : TablePids, kind : {"h264", "hevc", "av1", "opus", "s302m"}]
Stream ==
  [pid : StreamPids, kind : {"opus", "s302m"}, cc : Cc, silence : Nat, suppressed : BOOLEAN]
Version == 0..(VersionModulus - 1)
Table == [version : Version, pcr : TablePids, entries : SUBSET Entry, size : {n \in Nat : n >= 16}]
Pes == [au : Pids \X (Nat \ {0}), size : Nat, bounded : BOOLEAN]
PatPkt == [pid : {Pat}, cc : Cc]
PmtPkt == [pid : {PmtPid}, cc : Cc, part : Nat \ {0}, table : Table]
PesPkt ==
  [pid : Pids, cc : Cc, part : Nat \ {0}, pes : Pes, from : Int, len : Int,
   pcr : BOOLEAN, random_access : BOOLEAN]
PsiPkt == PatPkt \cup PmtPkt
Packet == PsiPkt \cup PesPkt
Muxer ==
  [video_enabled : BOOLEAN, video_codec : {"h264", "hevc", "av1"}, video_cc : Cc,
   audio_streams : Seq(Stream), pat_cc : Cc, pmt_cc : Cc, output : Seq(Packet),
   pat_pmt_emitted : BOOLEAN, last_psi_pts : Nat, sparse_enabled : BOOLEAN,
   pmt_dirty : BOOLEAN, pmt_resend_count : Nat, pmt_version : Version]

(* What no push changes.                                                    *)
SameStreams(m, n) ==
  /\ n.video_enabled = m.video_enabled /\ n.video_codec = m.video_codec
  /\ n.sparse_enabled = m.sparse_enabled
  /\ Len(n.audio_streams) = Len(m.audio_streams)
  /\ \A i \in DOMAIN m.audio_streams :
       n.audio_streams[i].pid = m.audio_streams[i].pid /\ n.audio_streams[i].kind = m.audio_streams[i].kind

Known(m) == \E c \in Muxers : SameStreams(c, m)

(* Its streams are those of one of the muxers there are.  They have         *)
(* different PIDs, and only PCM is dropped for silence.                     *)
MuxerOK(m) ==
  /\ m \in Muxer /\ Known(m)
  /\ m.audio_streams # <<>> /\ m.audio_streams[1].pid = FirstAudio
  /\ \A i, j \in DOMAIN m.audio_streams :
       m.audio_streams[i].pid = m.audio_streams[j].pid => i = j
  /\ \A i \in DOMAIN m.audio_streams : m.audio_streams[i].suppressed => m.audio_streams[i].kind = "s302m"

(* The continuity counter of a PID.                                         *)
At(m, pid) == CHOOSE i \in DOMAIN m.audio_streams : m.audio_streams[i].pid = pid
Counter(m, pid) ==
  IF pid = Pat THEN m.pat_cc ELSE IF pid = PmtPid THEN m.pmt_cc
  ELSE IF pid = Video THEN m.video_cc
  ELSE IF \E i \in DOMAIN m.audio_streams : m.audio_streams[i].pid = pid
       THEN m.audio_streams[At(m, pid)].cc ELSE 0

(* n is m after it has written u.                                           *)
Writes(m, u, n) ==
  /\ MuxerOK(n) /\ SameStreams(m, n)
  /\ n.output = m.output \o u
  /\ \A pid \in AllPids : Chained(u, pid, Counter(m, pid), Counter(n, pid))

(* A table is no larger than one with all the streams of its muxer.         *)
Bounded(table) == \E c \in Muxers : table.size <= FullTable(c).size

(* Tables are written whole, after a PAT: the parts of one follow each      *)
(* other.                                                                   *)
Whole(u) ==
  \A i \in DOMAIN u :
    u[i].pid = PmtPid =>
      /\ Bounded(u[i].table)
      /\ u[i].part = 1 => i > 1 /\ u[i - 1].pid = Pat
      /\ u[i].part <= PsiParts(u[i].table.size)
      /\ u[i].part > 1 =>
           i > 1 /\ u[i - 1].pid = PmtPid /\ u[i - 1].part = u[i].part - 1 /\ u[i - 1].table = u[i].table
      /\ u[i].part < PsiParts(u[i].table.size) =>
           i < Len(u) /\ u[i + 1].pid = PmtPid /\ u[i + 1].part = u[i].part + 1 /\ u[i + 1].table = u[i].table
      /\ \E j \in 1..(i - 1) : u[j].pid = Pat

(* What the tables of a muxer have when no stream is suppressed.  A table   *)
(* lists E when it has that and nothing that is not of its muxer.           *)
AllEntries(m) == FullTable(m).entries
Lists(table, E, m) ==
  E \subseteq table.entries /\ table.entries \subseteq AllEntries(m) /\ table.size <= FullTable(m).size
Listing(u, E, m) == \A i \in DOMAIN u : u[i].pid = PmtPid => Lists(u[i].table, E, m)

(* n is m after it has written tables that list E, at least k (if k <= 2).  *)
Comes(u) == \E i \in DOMAIN u : u[i].pid = PmtPid
Again(u) == \E i, j \in DOMAIN u : i < j /\ u[i].pid = PmtPid /\ u[j].pid = PmtPid
Times(u, k) == (k >= 1 => Comes(u)) /\ (k >= 2 => Again(u))
WritesTables(m, n, E, k) ==
  \E u \in Seq(PsiPkt) : Whole(u) /\ Writes(m, u, n) /\ Listing(u, E, m) /\ Times(u, k)

(* T is the last table in u, or what it was before.                         *)
Says(u, old, T) ==
  \/ TableStarts(u) = {} /\ T = old
  \/ \E i \in TableStarts(u) : (\A j \in TableStarts(u) : j <= i) /\ T = u[i].table
UpToDate(T, m) == T = NoTable \/ (T.entries = Entries(m) /\ T.pcr = PcrPid(m))
Announced(m, old) == \E T : Says(m.output, old, T) /\ UpToDate(T, m)

(* Nobody is suppressed before the first table is written.                  *)
Fresh(m) == m.pat_pmt_emitted \/ \A i \in DOMAIN m.audio_streams : ~m.audio_streams[i].suppressed

-----------------------------------------------------------------------------
LEMMA PidFacts ==
  /\ Video # Pat /\ Video # PmtPid /\ Pat # PmtPid /\ FirstAudio # Video
  /\ Pat \notin Pids /\ PmtPid \notin Pids /\ Video \in Pids /\ FirstAudio \in Pids
  /\ Pat \notin StreamPids /\ PmtPid \notin StreamPids /\ Video \notin StreamPids
<1>1. \A m \in Muxers : \A i \in DOMAIN m.audio_streams : m.audio_streams[i].pid \notin {Pat, PmtPid, Video}
  BY PathAssumption DEF Configured
<1>2. QED
  BY SMTT(30), <1>1, PathAssumption, DemuxerAssumption DEF Video, Pat, PmtPid, FirstAudio, StreamPids

(* A packet is of the tables, or of a PES.                                  *)
LEMMA PacketFacts ==
  /\ \A p \in Packet : p.pid \in AllPids /\ p.cc \in Cc
  /\ \A p \in PsiPkt : p.pid \in {Pat, PmtPid} /\ ~IsPes(p) /\ p \in Packet
  /\ \A p \in Packet : IsPes(p) => p \in PesPkt
  /\ \A p \in Packet : p.pid = PmtPid => p \in PmtPkt
  /\ \A p \in Packet : ~IsPes(p) => p \in PsiPkt
  BY PidFacts DEF Packet, PsiPkt, PatPkt, PmtPkt, PesPkt, AllPids, IsPes

LEMMA SeqPackets == Seq(PsiPkt) \subseteq Seq(Packet) /\ Seq(PesPkt) \subseteq Seq(Packet)
  BY DEF Packet

LEMMA CounterFacts ==
  ASSUME NEW m, MuxerOK(m)
  PROVE  /\ \A i \in DOMAIN m.audio_streams :
              At(m, m.audio_streams[i].pid) = i /\ Counter(m, m.audio_streams[i].pid) = m.audio_streams[i].cc
         /\ \A pid : Counter(m, pid) \in Cc
<1>1. m.audio_streams \in Seq(Stream) /\ m.pat_cc \in Cc /\ m.pmt_cc \in Cc /\ m.video_cc \in Cc /\ 0 \in Cc
  BY CcFacts DEF MuxerOK, Muxer
<1>2. \A i \in DOMAIN m.audio_streams : m.audio_streams[i].pid \in StreamPids /\ m.audio_streams[i].cc \in Cc
  <2>1. \A i \in DOMAIN m.audio_streams : m.audio_streams[i] \in Stream
    BY <1>1
  <2>2. QED
    BY <2>1 DEF Stream
<1>3. ASSUME NEW i \in DOMAIN m.audio_streams
      PROVE  At(m, m.audio_streams[i].pid) = i /\ Counter(m, m.audio_streams[i].pid) = m.audio_streams[i].cc
  <2>1. At(m, m.audio_streams[i].pid) = i
    BY DEF At, MuxerOK
  <2>2. QED
    BY <1>2, <2>1, PidFacts DEF Counter
<1>4. ASSUME NEW pid PROVE Counter(m, pid) \in Cc
  <2>1. CASE \E i \in DOMAIN m.audio_streams : m.audio_streams[i].pid = pid
    BY <1>2, <1>3, <2>1
  <2>2. CASE ~\E i \in DOMAIN m.audio_streams : m.audio_streams[i].pid = pid
    BY <1>1, <2>2 DEF Counter
  <2>3. QED
    BY <2>1, <2>2
<1>5. QED
  BY <1>3, <1>4

(* A section takes the packets that its bytes need.                         *)
LEMMA PsiPartsFacts ==
  ASSUME NEW size \in Nat, size >= 16
  PROVE  /\ PsiParts(size) \in 1..size
         /\ (PsiParts(size) - 1) * (PacketSize - 4) < size + 1
         /\ size + 1 <= PsiParts(size) * (PacketSize - 4)
<1> DEFINE K == PacketSize - 4
           P(n) == (n - 1) * K < size + 1 /\ size + 1 <= n * K
<1>1. K \in Nat /\ K > 28
  BY MuxerAssumption
<1> HIDE DEF K
<1> DEFINE q == size \div K
<1>2. q \in Nat /\ K * q <= size /\ size < K * q + K
  <2>1. q \in Nat /\ size = K * q + (size % K) /\ size % K \in 0..(K - 1)
    BY <1>1
  <2>2. K * q \in Int
    BY <1>1, <2>1
  <2> HIDE DEF q
  <2>3. QED
    BY <1>1, <2>1, <2>2
<1> HIDE DEF q
<1>3. K * q >= 28 * q
  <2>1. q * (K - 28) \in Nat
    BY <1>1, <1>2
  <2>2. q * (K - 28) = K * q - 28 * q
    BY <1>1, <1>2
  <2>3. QED
    BY <1>1, <1>2, <2>1, <2>2
<1>4. q + 1 \in 1..size
  BY <1>1, <1>2, <1>3
<1>5. P(q + 1)
  <2>1. (q + 1 - 1) * K = K * q /\ (q + 1) * K = K * q + K
    BY <1>1, <1>2
  <2>2. QED
    BY <1>1, <1>2, <2>1
<1>6. \E n \in 1..size : P(n)
  BY <1>4, <1>5
<1>7. PsiParts(size) = CHOOSE n \in 1..size : P(n)
  BY DEF PsiParts, K
<1>8. QED
  BY <1>6, <1>7 DEF K

LEMMA PesPartsFacts ==
  ASSUME NEW size \in Nat, size >= 14, NEW pcr \in BOOLEAN
  PROVE  LET n == PesParts(size, pcr) IN
         n \in 1..size /\ Offset(n, pcr) < size /\ size <= Offset(n + 1, pcr)
<1> DEFINE A == Room(1, pcr)
           B == Room(2, pcr)
           P(n) == Offset(n, pcr) < size /\ size <= Offset(n + 1, pcr)
<1>1. A \in Nat /\ B \in Nat /\ A > 20 /\ B > 20
  BY MuxerAssumption DEF Room
<1>2. CASE size <= A
  <2>1. Offset(1, pcr) = 0 /\ Offset(2, pcr) = A + (2 - 2) * B /\ (2 - 2) * B = 0
    BY <1>1 DEF Offset
  <2>2. P(1) /\ 1 \in 1..size
    BY <1>1, <1>2, <2>1
  <2>3. QED
    BY <2>2 DEF PesParts
<1>3. CASE size > A
  <2> DEFINE rest == size - A - 1
             q == rest \div B
  <2>1. rest \in Nat
    BY <1>1, <1>3
  <2>2. q \in Nat /\ B * q <= rest /\ rest < B * q + B
    <3>1. q \in Nat /\ rest = B * q + (rest % B) /\ rest % B \in 0..(B - 1)
      BY SMTT(40), <1>1, <2>1
    <3>2. B * q \in Int
      BY <1>1, <3>1
    <3> HIDE DEF q, B, rest
    <3>3. QED
      BY <1>1, <2>1, <3>1, <3>2
  <2>3. /\ Offset(q + 2, pcr) = A + (q + 2 - 2) * B
        /\ Offset(q + 2 + 1, pcr) = A + (q + 2 + 1 - 2) * B
    BY <2>2 DEF Offset
  <2> HIDE DEF q, A, B
  <2>4. (q + 2 - 2) * B = B * q /\ (q + 2 + 1 - 2) * B = B * q + B
    BY <1>1, <2>2
  <2>5. B * q >= q
    <3>1. q * (B - 1) \in Nat
      BY <1>1, <2>2
    <3>2. q * (B - 1) = B * q - q
      BY <1>1, <2>2
    <3>3. QED
      BY <1>1, <2>2, <3>1, <3>2
  <2>6. P(q + 2) /\ q + 2 \in 1..size
    BY <1>1, <1>3, <2>1, <2>2, <2>3, <2>4, <2>5
  <2>7. QED
    BY <2>6 DEF PesParts
<1>4. QED
  BY <1>1, <1>2, <1>3

(* The packets of a PES leave no gap.                                       *)
LEMMA OffsetFacts ==
  ASSUME NEW pcr \in BOOLEAN, NEW i \in Nat \ {0}
  PROVE  /\ Room(i, pcr) \in Nat /\ Room(i, pcr) > 20 /\ Offset(i, pcr) \in Int
         /\ Offset(i + 1, pcr) = Offset(i, pcr) + Room(i, pcr) /\ Offset(1, pcr) = 0
         /\ \A j \in Nat : j > i => Offset(i + 1, pcr) <= Offset(j, pcr)
<1> DEFINE A == Room(1, pcr)
           B == Room(2, pcr)
<1>1. /\ A \in Nat /\ B \in Nat /\ A > 20 /\ B > 20 /\ (i # 1 => Room(i, pcr) = B)
      /\ (i = 1 => Room(i, pcr) = A)
  BY MuxerAssumption DEF Room
<1>2. \A j \in Nat \ {0} : Offset(j, pcr) = IF j = 1 THEN 0 ELSE A + (j - 2) * B
  BY DEF Offset
<1> HIDE DEF A, B
<1>3. \A j \in Int : (j - 2) * B \in Int
  BY <1>1
<1>4. Offset(i, pcr) \in Int /\ Offset(1, pcr) = 0
  BY <1>1, <1>2, <1>3
<1>5. Offset(i + 1, pcr) = Offset(i, pcr) + Room(i, pcr)
  <2>1. Offset(i + 1, pcr) = A + (i - 1) * B
    BY <1>2
  <2>2. CASE i = 1
    <3>1. (i - 1) * B = 0
      BY <1>1, <2>2
    <3>2. QED
      BY <1>1, <1>4, <2>1, <2>2, <3>1
  <2>3. CASE i # 1
    <3>1. (i - 1) * B = (i - 2) * B + B
      BY <1>1
    <3>2. QED
      BY <1>1, <1>2, <1>3, <2>1, <2>3, <3>1
  <2>4. QED
    BY <2>2, <2>3
<1>6. ASSUME NEW j \in Nat, j > i PROVE Offset(i + 1, pcr) <= Offset(j, pcr)
  <2>1. Offset(i + 1, pcr) = A + (i - 1) * B /\ Offset(j, pcr) = A + (j - 2) * B
    BY <1>2, <1>6
  <2>2. (j - 1 - i) * B \in Nat
    <3>1. j - 1 - i \in Nat
      BY <1>6
    <3>2. QED
      BY <1>1, <3>1
  <2>3. (j - 2) * B = (i - 1) * B + (j - 1 - i) * B
    BY <1>1
  <2>4. (i - 1) * B \in Int
    BY <1>1
  <2>5. QED
    BY <1>1, <2>1, <2>2, <2>3, <2>4
<1>7. QED
  BY <1>1, <1>4, <1>5, <1>6

LEMMA ChunkFacts ==
  ASSUME NEW size \in Nat, size >= 14, NEW pcr \in BOOLEAN, NEW i \in 1..PesParts(size, pcr)
  PROVE  LET from == Offset(i, pcr)
             len == Chunk(i, size, pcr)
         IN  /\ from \in Int /\ len \in Int /\ len > 0
             /\ i = 1 => from = 0 /\ (size > 14 => len > 14)
             /\ IF i = PesParts(size, pcr) THEN from + len = size
                ELSE from + len < size /\ Offset(i + 1, pcr) = from + len
<1> DEFINE n == PesParts(size, pcr)
<1>1. n \in Nat \ {0} /\ Offset(n, pcr) < size /\ size <= Offset(n + 1, pcr) /\ i \in Nat \ {0} /\ i <= n
  BY PesPartsFacts
<1>2. /\ Room(i, pcr) \in Nat /\ Room(i, pcr) > 20 /\ Offset(i, pcr) \in Int
      /\ Offset(i + 1, pcr) = Offset(i, pcr) + Room(i, pcr) /\ Offset(1, pcr) = 0
      /\ \A j \in Nat : j > i => Offset(i + 1, pcr) <= Offset(j, pcr)
  BY <1>1, OffsetFacts
<1>3. Offset(n, pcr) \in Int
  BY <1>1, OffsetFacts
<1> HIDE DEF n
<1>4. CASE i = n
  BY <1>1, <1>2, <1>4 DEF Chunk, n
<1>5. CASE i # n
  <2>1. Offset(i + 1, pcr) <= Offset(n, pcr)
    BY <1>1, <1>2, <1>5
  <2>2. QED
    BY <1>1, <1>2, <1>3, <1>5, <2>1 DEF Chunk, n
<1>6. QED
  BY <1>4, <1>5

-----------------------------------------------------------------------------
LEMMA StreamFacts ==
  ASSUME NEW m, MuxerOK(m)
  PROVE  /\ m \in Muxer /\ m.audio_streams \in Seq(Stream) /\ Len(m.audio_streams) \in Nat \ {0}
         /\ DOMAIN m.audio_streams = 1..Len(m.audio_streams)
         /\ \A i \in DOMAIN m.audio_streams : m.audio_streams[i] \in Stream
         /\ m.audio_streams[1].pid = FirstAudio /\ m.output \in Seq(Packet)
<1>1. m \in Muxer /\ m.audio_streams # <<>> /\ m.audio_streams[1].pid = FirstAudio
  BY DEF MuxerOK
<1>2. m.audio_streams \in Seq(Stream) /\ m.output \in Seq(Packet)
  BY <1>1 DEF Muxer
<1>3. QED
  BY <1>1, <1>2

LEMMA KnownStill ==
  ASSUME NEW m, MuxerOK(m), NEW n, SameStreams(m, n)
  PROVE  Known(n)
<1>1. PICK c \in Muxers : SameStreams(c, m)
  BY DEF MuxerOK, Known
<1>2. DOMAIN m.audio_streams = 1..Len(m.audio_streams)
  BY StreamFacts
<1>3. DOMAIN c.audio_streams = 1..Len(c.audio_streams)
  <2> DEFINE s == c.audio_streams
  <2>1. s = [i \in 1..Len(s) |-> AudioStream(s[i].pid, s[i].kind)]
    BY <1>1, PathAssumption DEF Configured
  <2> HIDE DEF s
  <2>2. DOMAIN s = 1..Len(s)
    BY <2>1
  <2>3. QED
    BY SMTT(30), <2>2 DEF s
<1>4. SameStreams(c, n)
  BY <1>1, <1>2, <1>3 DEF SameStreams
<1>5. QED
  BY <1>4 DEF Known

(* The table of a muxer has its entries, and the PID of its clock.          *)
LEMMA TableFacts ==
  ASSUME NEW m, MuxerOK(m)
  PROVE  /\ TableOf(m) \in Table
         /\ TableOf(m).entries = Entries(m) /\ TableOf(m).pcr = PcrPid(m)
<1> DEFINE active == ActiveAudio(m)
           audio == {[pid |-> m.audio_streams[i].pid, kind |-> m.audio_streams[i].kind] : i \in active}
           video == IF m.video_enabled THEN {[pid |-> Video, kind |-> m.video_codec]} ELSE {}
           some(n) == {e \in Entries(m) : EntrySize(e.kind) = n}
<1>1. active \subseteq 1..Len(m.audio_streams) /\ active \subseteq Nat /\ active \subseteq DOMAIN m.audio_streams
  BY StreamFacts DEF ActiveAudio
<1>2. IsFiniteSet(active)
  <2>1. IsFiniteSet(1..Len(m.audio_streams))
    BY StreamFacts, FS_Interval
  <2>2. QED
    BY <1>1, <2>1, FS_Subset
<1>3. IsFiniteSet(audio)
  <2> DEFINE f == [i \in active |-> [pid |-> m.audio_streams[i].pid, kind |-> m.audio_streams[i].kind]]
  <2>1. f \in Surjection(active, audio)
    BY DEF Surjection
  <2>2. QED
    BY <1>2, <2>1, FS_Surjection
<1>4. IsFiniteSet(video)
  BY FS_Singleton, FS_EmptySet
<1>5. IsFiniteSet(Entries(m))
  BY <1>3, <1>4, FS_Union DEF Entries
<1>6. Entries(m) \subseteq Entry
  <2>1. audio \subseteq Entry
    BY <1>1, StreamFacts DEF Entry, Stream, TablePids
  <2>2. video \subseteq Entry
    BY StreamFacts DEF Entry, Muxer, TablePids
  <2>3. QED
    BY <2>1, <2>2 DEF Entries
<1>7. \A n \in Nat : Cardinality(some(n)) \in Nat
  <2>1. \A n \in Nat : IsFiniteSet(some(n))
    BY <1>5, FS_Subset
  <2>2. QED
    BY <2>1, FS_CardinalityType
<1>8. PcrPid(m) \in TablePids
  <2>1. CASE active = {}
    BY <2>1 DEF PcrPid, TablePids
  <2>2. CASE active # {}
    <3>1. Min(active) \in DOMAIN m.audio_streams
      BY <1>1, <2>2, Least
    <3>2. m.audio_streams[Min(active)].pid \in StreamPids
      BY <3>1, StreamFacts DEF Stream
    <3>3. QED
      BY <3>2 DEF PcrPid, TablePids
  <2>3. QED
    BY <2>1, <2>2
<1>9. m.pmt_version \in Version
  BY StreamFacts DEF Muxer
<1>10. 16 + 5 * Cardinality(some(5)) + 11 * Cardinality(some(11)) + 15 * Cardinality(some(15)) \in {n \in Nat : n >= 16}
  <2>1. Cardinality(some(5)) \in Nat /\ Cardinality(some(11)) \in Nat /\ Cardinality(some(15)) \in Nat
    BY <1>7
  <2> HIDE DEF some
  <2>2. QED
    BY <2>1
<1>11. TableOf(m) = [version |-> m.pmt_version, pcr |-> PcrPid(m), entries |-> Entries(m),
          size |-> 16 + 5 * Cardinality(some(5)) + 11 * Cardinality(some(11)) + 15 * Cardinality(some(15))]
  BY DEF TableOf
<1> HIDE DEF some
<1>12. QED
  BY <1>6, <1>8, <1>9, <1>10, <1>11 DEF Table

(* A muxer of which no stream is dropped has them all in its table.         *)
LEMMA FullEntries ==
  ASSUME NEW c \in Muxers
  PROVE  /\ DOMAIN c.audio_streams = 1..Len(c.audio_streams)
         /\ Entries(SetSparseEnabled(c, FALSE)) =
              {[pid |-> c.audio_streams[i].pid, kind |-> c.audio_streams[i].kind] : i \in DOMAIN c.audio_streams}
                \cup (IF c.video_enabled THEN {[pid |-> Video, kind |-> c.video_codec]} ELSE {})
         /\ IsFiniteSet(Entries(SetSparseEnabled(c, FALSE)))
<1> DEFINE f == SetSparseEnabled(c, FALSE)
           s == c.audio_streams
           audio == {[pid |-> s[i].pid, kind |-> s[i].kind] : i \in DOMAIN s}
           video == IF c.video_enabled THEN {[pid |-> Video, kind |-> c.video_codec]} ELSE {}
<1>1. Configured(c)
  BY PathAssumption
<1>2. DOMAIN s = 1..Len(s) /\ Len(s) \in Nat
  <2>1. s = [i \in 1..Len(s) |-> AudioStream(s[i].pid, s[i].kind)] /\ Len(s) \in Nat
    BY <1>1 DEF Configured
  <2> HIDE DEF s
  <2>2. QED
    BY <2>1
<1>3. /\ f.audio_streams = s /\ f.video_enabled = c.video_enabled /\ f.video_codec = c.video_codec
      /\ f.sparse_enabled = FALSE
  <2> DEFINE e == c.video_enabled
             x == c.sparse_enabled
             k == c.video_codec
  <2>1. c = [NewMuxer EXCEPT !.video_enabled = e, !.sparse_enabled = x, !.video_codec = k, !.audio_streams = s]
    BY <1>1 DEF Configured
  <2> HIDE DEF e, x, k, s
  <2>2. c = [video_enabled |-> e, video_codec |-> k, video_cc |-> 0, audio_streams |-> s,
             pat_cc |-> 0, pmt_cc |-> 0, output |-> <<>>, pat_pmt_emitted |-> FALSE, last_psi_pts |-> 0,
             sparse_enabled |-> x, pmt_dirty |-> FALSE, pmt_resend_count |-> 0, pmt_version |-> 0]
    BY <2>1 DEF NewMuxer
  <2>3. f.audio_streams = s /\ f.video_enabled = e /\ f.video_codec = k /\ f.sparse_enabled = FALSE
    BY <2>2 DEF SetSparseEnabled
  <2>4. QED
    BY <2>3 DEF e, k
<1> HIDE DEF f
<1>4. Entries(f) = audio \cup video
  <2>1. ActiveAudio(f) = DOMAIN s
    BY <1>3 DEF ActiveAudio
  <2>2. QED
    BY <1>3, <2>1 DEF Entries
<1>5. IsFiniteSet(Entries(f))
  <2> DEFINE g == [i \in DOMAIN s |-> [pid |-> s[i].pid, kind |-> s[i].kind]]
  <2>1. g \in Surjection(DOMAIN s, audio)
    BY DEF Surjection
  <2>2. IsFiniteSet(DOMAIN s)
    <3>1. \A n \in Nat : IsFiniteSet(1..n)
      BY FS_Interval
    <3>2. QED
      BY <1>2, <3>1
  <2>3. IsFiniteSet(audio)
    BY <2>1, <2>2, FS_Surjection
  <2>4. IsFiniteSet(video)
    BY FS_Singleton, FS_EmptySet
  <2>5. QED
    BY <1>4, <2>3, <2>4, FS_Union
<1>6. QED
  BY <1>2, <1>4, <1>5 DEF f

(* The entries of a set that take n bytes.                                  *)
Sized(E, n) == Cardinality({e \in E : EntrySize(e.kind) = n})
SizeOf(E) == 16 + 5 * Sized(E, 5) + 11 * Sized(E, 11) + 15 * Sized(E, 15)
LEMMA SizesCompared ==
  ASSUME NEW F, IsFiniteSet(F)
  PROVE  /\ SizeOf(F) \in Nat /\ SizeOf(F) >= 16
         /\ \A E : E \subseteq F => SizeOf(E) <= SizeOf(F)
<1>1. ASSUME NEW E, E \subseteq F, NEW n \in Nat
      PROVE  Sized(E, n) \in Nat /\ Sized(F, n) \in Nat /\ Sized(E, n) <= Sized(F, n)
  <2> DEFINE M == {e \in E : EntrySize(e.kind) = n}
             N == {e \in F : EntrySize(e.kind) = n}
  <2>1. M \subseteq N /\ N \subseteq F
    BY <1>1
  <2>2. IsFiniteSet(N)
    BY <2>1, FS_Subset
  <2> HIDE DEF M, N
  <2>3. IsFiniteSet(M) /\ Cardinality(M) <= Cardinality(N)
    BY <2>1, <2>2, FS_Subset
  <2>4. Cardinality(M) \in Nat /\ Cardinality(N) \in Nat
    BY <2>2, <2>3, FS_CardinalityType
  <2>5. QED
    BY <2>3, <2>4 DEF M, N, Sized
<1>2. ASSUME NEW E, E \subseteq F
      PROVE  SizeOf(F) \in Nat /\ SizeOf(F) >= 16 /\ SizeOf(E) <= SizeOf(F)
  <2>1. /\ Sized(E, 5) \in Nat /\ Sized(F, 5) \in Nat /\ Sized(E, 5) <= Sized(F, 5)
        /\ Sized(E, 11) \in Nat /\ Sized(F, 11) \in Nat /\ Sized(E, 11) <= Sized(F, 11)
        /\ Sized(E, 15) \in Nat /\ Sized(F, 15) \in Nat /\ Sized(E, 15) <= Sized(F, 15)
    BY <1>1, <1>2
  <2>2. QED
    BY <2>1 DEF SizeOf
<1>3. QED
  BY <1>2

LEMMA TableSize == \A m : TableOf(m).size = SizeOf(Entries(m))
  BY DEF TableOf, SizeOf, Sized

LEMMA FullTableSize ==
  ASSUME NEW c \in Muxers
  PROVE  FullTable(c).size \in Nat /\ FullTable(c).size >= 16
  BY FullEntries, SizesCompared, TableSize DEF FullTable

LEMMA TableBounded ==
  ASSUME NEW m, MuxerOK(m)
  PROVE  Bounded(TableOf(m))
<1>1. PICK c \in Muxers : SameStreams(c, m)
  BY DEF MuxerOK, Known
<1> DEFINE f == SetSparseEnabled(c, FALSE)
           s == c.audio_streams
<1>2. /\ DOMAIN m.audio_streams = DOMAIN s /\ m.video_enabled = c.video_enabled /\ m.video_codec = c.video_codec
      /\ \A i \in DOMAIN s : m.audio_streams[i].pid = s[i].pid /\ m.audio_streams[i].kind = s[i].kind
  BY <1>1, FullEntries, StreamFacts DEF SameStreams
<1>3. ActiveAudio(m) \subseteq DOMAIN s
  BY <1>2 DEF ActiveAudio
<1> HIDE DEF f
<1>4. /\ IsFiniteSet(Entries(f))
      /\ Entries(f) = {[pid |-> s[i].pid, kind |-> s[i].kind] : i \in DOMAIN s}
                         \cup (IF c.video_enabled THEN {[pid |-> Video, kind |-> c.video_codec]} ELSE {})
  BY FullEntries DEF f
<1>5. Entries(m) \subseteq Entries(f)
  <2> HIDE DEF s
  <2>1. QED
    BY <1>2, <1>3, <1>4 DEF Entries
<1>6. TableOf(m).size <= FullTable(c).size
  BY <1>4, <1>5, SizesCompared, TableSize DEF FullTable, f
<1>7. QED
  BY <1>6 DEF Bounded

(* Nothing a push does changes what a muxer can announce at all.  Its table *)
(* is of that, and the whole of it as long as no stream is suppressed.      *)
LEMMA AllEntriesFacts ==
  ASSUME NEW m, MuxerOK(m)
  PROVE  /\ AllEntries(m) =
              {[pid |-> m.audio_streams[i].pid, kind |-> m.audio_streams[i].kind] : i \in DOMAIN m.audio_streams}
                \cup (IF m.video_enabled THEN {[pid |-> Video, kind |-> m.video_codec]} ELSE {})
         /\ IsFiniteSet(AllEntries(m)) /\ FullTable(m).size = SizeOf(AllEntries(m))
         /\ Entries(m) \subseteq AllEntries(m)
         /\ (\A i \in DOMAIN m.audio_streams : ~m.audio_streams[i].suppressed) => Entries(m) = AllEntries(m)
         /\ \A e, f \in AllEntries(m) : e.pid = f.pid => e = f
<1> DEFINE f == SetSparseEnabled(m, FALSE)
           s == m.audio_streams
           audio == {[pid |-> s[i].pid, kind |-> s[i].kind] : i \in DOMAIN s}
           video == IF m.video_enabled THEN {[pid |-> Video, kind |-> m.video_codec]} ELSE {}
<1>1. /\ m \in Muxer /\ s \in Seq(Stream) /\ DOMAIN s = 1..Len(s) /\ Len(s) \in Nat
      /\ \A i \in DOMAIN s : s[i] \in Stream
  BY StreamFacts
<1>2. /\ f.audio_streams = s /\ f.video_enabled = m.video_enabled /\ f.video_codec = m.video_codec
      /\ f.sparse_enabled = FALSE
  BY <1>1 DEF SetSparseEnabled, Muxer
<1> HIDE DEF f
<1>3. AllEntries(m) = Entries(f) /\ FullTable(m).size = SizeOf(Entries(f))
  BY TableSize DEF AllEntries, FullTable, TableOf, f
<1>4. Entries(f) = audio \cup video
  <2>1. ActiveAudio(f) = DOMAIN s
    BY <1>2 DEF ActiveAudio
  <2>2. QED
    BY <1>2, <2>1 DEF Entries
<1>5. IsFiniteSet(Entries(f))
  <2> DEFINE g == [i \in DOMAIN s |-> [pid |-> s[i].pid, kind |-> s[i].kind]]
  <2>1. g \in Surjection(DOMAIN s, audio)
    BY DEF Surjection
  <2>2. IsFiniteSet(DOMAIN s)
    <3>1. \A n \in Nat : IsFiniteSet(1..n)
      BY FS_Interval
    <3>2. QED
      BY <1>1, <3>1
  <2>3. IsFiniteSet(audio)
    BY <2>1, <2>2, FS_Surjection
  <2>4. IsFiniteSet(video)
    BY FS_Singleton, FS_EmptySet
  <2> HIDE DEF audio, video
  <2>5. QED
    BY <1>4, <2>3, <2>4, FS_Union
<1>6. Entries(m) \subseteq audio \cup video
  <2>1. ActiveAudio(m) \subseteq DOMAIN s
    BY DEF ActiveAudio
  <2>2. QED
    BY <2>1 DEF Entries
<1>7. ASSUME \A i \in DOMAIN s : ~s[i].suppressed PROVE Entries(m) = audio \cup video
  <2>1. ActiveAudio(m) = DOMAIN s
    BY <1>7 DEF ActiveAudio
  <2>2. QED
    BY <2>1 DEF Entries
<1>8. ASSUME NEW x \in audio \cup video, NEW y \in audio \cup video, x.pid = y.pid PROVE x = y
  <2>1. \A i \in DOMAIN s : s[i].pid # Video
    <3>1. \A i \in DOMAIN s : s[i].pid \in StreamPids
      BY <1>1 DEF Stream
    <3>2. QED
      BY <3>1, PidFacts
  <2>2. CASE x \in audio
    <3>1. PICK i \in DOMAIN s : x = [pid |-> s[i].pid, kind |-> s[i].kind]
      BY <2>2
    <3>2. y \in audio
      BY <1>8, <2>1, <3>1
    <3>3. PICK j \in DOMAIN s : y = [pid |-> s[j].pid, kind |-> s[j].kind]
      BY <3>2
    <3>4. i = j
      BY <1>8, <3>1, <3>3 DEF MuxerOK
    <3>5. QED
      BY <3>1, <3>3, <3>4
  <2>3. CASE x \in video
    <3>1. y \in video
      BY <1>8, <2>1, <2>3
    <3>2. QED
      BY <2>3, <3>1
  <2>4. QED
    BY <1>8, <2>2, <2>3
<1> HIDE DEF audio, video
<1>9. QED
  BY <1>3, <1>4, <1>5, <1>6, <1>7, <1>8 DEF audio, video

LEMMA SameAll ==
  ASSUME NEW m, NEW n, MuxerOK(m), MuxerOK(n), SameStreams(m, n)
  PROVE  AllEntries(n) = AllEntries(m) /\ FullTable(n).size = FullTable(m).size
<1> DEFINE audio(x) ==
             {[pid |-> x.audio_streams[i].pid, kind |-> x.audio_streams[i].kind] : i \in DOMAIN x.audio_streams}
           video(x) == IF x.video_enabled THEN {[pid |-> Video, kind |-> x.video_codec]} ELSE {}
<1>1. /\ DOMAIN n.audio_streams = DOMAIN m.audio_streams
      /\ \A i \in DOMAIN m.audio_streams :
           n.audio_streams[i].pid = m.audio_streams[i].pid /\ n.audio_streams[i].kind = m.audio_streams[i].kind
  BY StreamFacts DEF SameStreams
<1>2. audio(n) = audio(m)
  BY <1>1
<1>3. video(n) = video(m)
  BY DEF SameStreams
<1>4. AllEntries(n) = AllEntries(m)
  <2>1. AllEntries(m) = audio(m) \cup video(m) /\ AllEntries(n) = audio(n) \cup video(n)
    BY AllEntriesFacts
  <2> HIDE DEF audio, video
  <2>2. QED
    BY <1>2, <1>3, <2>1
<1>5. QED
  BY <1>4, AllEntriesFacts

LEMMA TableLists ==
  ASSUME NEW m, MuxerOK(m), NEW E, E \subseteq Entries(m)
  PROVE  Lists(TableOf(m), E, m)
<1>1. TableOf(m).size <= FullTable(m).size
  BY AllEntriesFacts, SizesCompared, TableSize
<1>2. QED
  BY <1>1, AllEntriesFacts, TableFacts DEF Lists

LEMMA PacketsAssociate ==
  ASSUME NEW s \in Seq(Packet), NEW t \in Seq(Packet), NEW u \in Seq(Packet)
  PROVE  (s \o t) \o u = s \o (t \o u)
<1> DEFINE a == (s \o t) \o u
           b == s \o (t \o u)
<1>1. /\ a \in Seq(Packet) /\ b \in Seq(Packet)
      /\ Len(a) = Len(s) + Len(t) + Len(u) /\ Len(b) = Len(s) + Len(t) + Len(u)
  OBVIOUS
<1>2. ASSUME NEW i \in 1..Len(a) PROVE a[i] = b[i]
  <2>1. CASE i <= Len(s)
    BY <2>1
  <2>2. CASE i > Len(s) /\ i <= Len(s) + Len(t)
    BY <2>2
  <2>3. CASE i > Len(s) + Len(t)
    BY <2>3
  <2>4. QED
    BY <2>1, <2>2, <2>3
<1> HIDE DEF a, b
<1>3. a = b
  BY <1>1, <1>2, SeqEqual
<1>4. QED
  BY <1>3 DEF a, b

(* What a muxer writes is written after what it wrote before.               *)
LEMMA WritesConcat ==
  ASSUME NEW k, NEW m, NEW n, NEW u \in Seq(Packet), NEW w \in Seq(Packet),
         MuxerOK(k), Writes(k, u, m), Writes(m, w, n)
  PROVE  Writes(k, u \o w, n)
<1>1. n.output = k.output \o (u \o w)
  <2>1. k.output \in Seq(Packet)
    BY StreamFacts
  <2>2. (k.output \o u) \o w = k.output \o (u \o w)
    BY <2>1, PacketsAssociate
  <2>3. QED
    BY <2>2 DEF Writes
<1>2. SameStreams(k, n)
  <2>1. DOMAIN k.audio_streams = DOMAIN m.audio_streams
    BY StreamFacts DEF Writes, SameStreams
  <2>2. QED
    BY <2>1 DEF Writes, SameStreams
<1>3. \A pid \in AllPids : Chained(u \o w, pid, Counter(k, pid), Counter(n, pid))
  BY ChainConcat DEF Writes
<1>4. QED
  BY <1>1, <1>2, <1>3 DEF Writes

LEMMA WholeConcat ==
  ASSUME NEW u \in Seq(PsiPkt), NEW w \in Seq(PsiPkt), Whole(u), Whole(w)
  PROVE  Whole(u \o w)
<1> DEFINE n == Len(u)
           x == u \o w
<1>1. /\ n \in Nat /\ Len(w) \in Nat /\ Len(x) = n + Len(w) /\ x \in Seq(PsiPkt)
      /\ DOMAIN u = 1..n /\ DOMAIN w = 1..Len(w) /\ DOMAIN x = 1..Len(x)
      /\ \A i \in 1..n : x[i] = u[i]
      /\ \A i \in 1..Len(w) : x[n + i] = w[i]
  OBVIOUS
<1> SUFFICES ASSUME NEW i \in DOMAIN x, x[i].pid = PmtPid
             PROVE  /\ Bounded(x[i].table)
                    /\ x[i].part = 1 => i > 1 /\ x[i - 1].pid = Pat
                    /\ x[i].part <= PsiParts(x[i].table.size)
                    /\ x[i].part > 1 =>
                         i > 1 /\ x[i - 1].pid = PmtPid /\ x[i - 1].part = x[i].part - 1 /\ x[i - 1].table = x[i].table
                    /\ x[i].part < PsiParts(x[i].table.size) =>
                         i < Len(x) /\ x[i + 1].pid = PmtPid /\ x[i + 1].part = x[i].part + 1 /\ x[i + 1].table = x[i].table
                    /\ \E j \in 1..(i - 1) : x[j].pid = Pat
  BY DEF Whole
<1> HIDE DEF x
<1>2. CASE i <= n
  <2>1. i \in DOMAIN u /\ x[i] = u[i] /\ (i > 1 => x[i - 1] = u[i - 1]) /\ (i < n => x[i + 1] = u[i + 1])
    BY <1>1, <1>2
  <2>2. \A j \in 1..(i - 1) : x[j] = u[j]
    BY <1>1, <1>2
  <2>3. \E j \in 1..(i - 1) : x[j].pid = Pat
    <3>1. PICK j \in 1..(i - 1) : u[j].pid = Pat
      BY <2>1 DEF Whole
    <3>2. QED
      BY <2>2, <3>1
  <2>4. i < n => i < Len(x)
    BY <1>1
  <2>5. QED
    BY <1>1, <2>1, <2>3, <2>4 DEF Whole
<1>3. CASE i > n
  <2>1. PICK k \in 1..Len(w) : i = n + k
    <3>1. i - n \in 1..Len(w) /\ i = n + (i - n)
      BY <1>1, <1>3
    <3>2. QED
      BY <3>1
  <2>2. /\ x[i] = w[k] /\ (k > 1 => i > 1 /\ x[i - 1] = w[k - 1])
        /\ k < Len(w) => i < Len(x) /\ x[i + 1] = w[k + 1]
    <3>1. k > 1 => k - 1 \in 1..Len(w) /\ n + (k - 1) = i - 1
      BY <1>1, <2>1
    <3>2. k < Len(w) => k + 1 \in 1..Len(w) /\ n + (k + 1) = i + 1
      BY <1>1, <2>1
    <3>3. x[i] = w[k]
      BY <1>1, <2>1
    <3>4. k > 1 => i > 1 /\ x[i - 1] = w[k - 1]
      <4>1. k > 1 => x[n + (k - 1)] = w[k - 1]
        BY <1>1, <3>1
      <4>2. k > 1 => i > 1
        BY <1>1, <2>1
      <4>3. QED
        BY <3>1, <4>1, <4>2
    <3>5. k < Len(w) => i < Len(x) /\ x[i + 1] = w[k + 1]
      <4>1. k < Len(w) => x[n + (k + 1)] = w[k + 1]
        BY <1>1, <3>2
      <4>2. k < Len(w) => i < Len(x)
        BY <1>1, <2>1
      <4>3. QED
        BY <3>2, <4>1, <4>2
    <3>6. QED
      BY <3>3, <3>4, <3>5
  <2>3. k \in DOMAIN w
    BY <1>1
  <2>4. \E j \in 1..(i - 1) : x[j].pid = Pat
    <3>1. PICK j \in 1..(k - 1) : w[j].pid = Pat
      BY <2>2, <2>3 DEF Whole
    <3>2. n + j \in 1..(i - 1) /\ x[n + j] = w[j]
      BY <1>1, <2>1
    <3>3. QED
      BY <3>1, <3>2
  <2>5. QED
    BY <2>2, <2>3, <2>4 DEF Whole
<1>4. QED
  BY <1>1, <1>2, <1>3

LEMMA TimesConcat ==
  ASSUME NEW u \in Seq(PsiPkt), NEW w \in Seq(PsiPkt), NEW i \in Nat, NEW j \in Nat, Times(u, i), Times(w, j)
  PROVE  Times(u \o w, i + j)
<1> DEFINE n == Len(u)
           x == u \o w
<1>1. /\ n \in Nat /\ DOMAIN u = 1..n /\ DOMAIN w = 1..Len(w) /\ DOMAIN x = 1..(n + Len(w)) /\ Len(w) \in Nat
      /\ \A a \in 1..n : a \in DOMAIN x /\ x[a] = u[a]
      /\ \A a \in 1..Len(w) : n + a \in DOMAIN x /\ x[n + a] = w[a]
  OBVIOUS
<1> HIDE DEF x, n
<1>2. (Comes(u) \/ Comes(w) => Comes(x)) /\ (Again(u) => Again(x))
  BY <1>1 DEF Comes, Again
<1>3. Again(w) => Again(x)
  <2>1. SUFFICES ASSUME Again(w) PROVE Again(x)
    OBVIOUS
  <2>2. PICK a, b \in 1..Len(w) : a < b /\ w[a].pid = PmtPid /\ w[b].pid = PmtPid
    BY <1>1, <2>1 DEF Again
  <2>3. n + a < n + b /\ n + a \in DOMAIN x /\ n + b \in DOMAIN x /\ x[n + a].pid = PmtPid /\ x[n + b].pid = PmtPid
    BY <1>1, <2>2
  <2>4. QED
    BY <2>3 DEF Again
<1>4. Comes(u) /\ Comes(w) => Again(x)
  <2>1. SUFFICES ASSUME Comes(u), Comes(w) PROVE Again(x)
    OBVIOUS
  <2>2. PICK a \in 1..n : u[a].pid = PmtPid
    BY <1>1, <2>1 DEF Comes
  <2>3. PICK b \in 1..Len(w) : w[b].pid = PmtPid
    BY <1>1, <2>1 DEF Comes
  <2>4. a < n + b /\ a \in DOMAIN x /\ n + b \in DOMAIN x /\ x[a].pid = PmtPid /\ x[n + b].pid = PmtPid
    BY <1>1, <2>2, <2>3
  <2>5. QED
    BY <2>4 DEF Again
<1>5. /\ i + j >= 1 => i >= 1 \/ j >= 1
      /\ i + j >= 2 => i >= 2 \/ j >= 2 \/ (i >= 1 /\ j >= 1)
  OBVIOUS
<1>6. QED
  BY <1>2, <1>3, <1>4, <1>5 DEF Times, x

LEMMA WritesTablesTwice ==
  ASSUME NEW k, NEW m, NEW n, NEW E, NEW i \in Nat, NEW j \in Nat,
         MuxerOK(k), WritesTables(k, m, E, i), WritesTables(m, n, E, j)
  PROVE  WritesTables(k, n, E, i + j)
<1>1. PICK u \in Seq(PsiPkt) : Whole(u) /\ Writes(k, u, m) /\ Listing(u, E, k) /\ Times(u, i)
  BY DEF WritesTables
<1>2. PICK w \in Seq(PsiPkt) : Whole(w) /\ Writes(m, w, n) /\ Listing(w, E, m) /\ Times(w, j)
  BY DEF WritesTables
<1>3. u \o w \in Seq(PsiPkt) /\ u \in Seq(Packet) /\ w \in Seq(Packet)
  BY SeqPackets
<1>4. Listing(u \o w, E, k)
  <2>1. AllEntries(m) = AllEntries(k) /\ FullTable(m).size = FullTable(k).size
    BY <1>1, SameAll DEF Writes
  <2>2. ASSUME NEW a \in DOMAIN (u \o w), (u \o w)[a].pid = PmtPid
        PROVE  Lists((u \o w)[a].table, E, k)
    <3>1. \/ a \in DOMAIN u /\ (u \o w)[a] = u[a]
          \/ a - Len(u) \in DOMAIN w /\ (u \o w)[a] = w[a - Len(u)]
      <4>1. a \in 1..(Len(u) + Len(w)) /\ Len(u) \in Nat /\ Len(w) \in Nat /\ DOMAIN u = 1..Len(u) /\ DOMAIN w = 1..Len(w)
        BY <1>3
      <4>2. CASE a <= Len(u)
        BY <4>1, <4>2
      <4>3. CASE a > Len(u)
        BY <4>1, <4>3
      <4>4. QED
        BY <4>1, <4>2, <4>3
    <3>2. CASE a \in DOMAIN u /\ (u \o w)[a] = u[a]
      BY <1>1, <2>2, <3>2 DEF Listing
    <3>3. CASE a - Len(u) \in DOMAIN w /\ (u \o w)[a] = w[a - Len(u)]
      BY <1>2, <2>1, <2>2, <3>3 DEF Listing, Lists
    <3>4. QED
      BY <3>1, <3>2, <3>3
  <2>3. QED
    BY <2>2 DEF Listing
<1>5. Times(u \o w, i + j)
  BY <1>1, <1>2, TimesConcat
<1>6. Whole(u \o w) /\ Writes(k, u \o w, n)
  BY <1>1, <1>2, <1>3, WholeConcat, WritesConcat
<1>7. QED
  BY <1>3, <1>4, <1>5, <1>6 DEF WritesTables

(* A change of neither the output nor a counter.                            *)
Alike(m, n) ==
  /\ MuxerOK(n) /\ SameStreams(m, n) /\ n.output = m.output
  /\ n.pat_cc = m.pat_cc /\ n.pmt_cc = m.pmt_cc /\ n.video_cc = m.video_cc
  /\ \A i \in DOMAIN m.audio_streams : n.audio_streams[i].cc = m.audio_streams[i].cc

LEMMA SameCounters ==
  ASSUME NEW m, NEW n, MuxerOK(m), MuxerOK(n), SameStreams(m, n)
  PROVE  /\ DOMAIN n.audio_streams = DOMAIN m.audio_streams
         /\ \A pid : pid \notin {Pat, PmtPid, Video} =>
              ((\A i \in DOMAIN m.audio_streams :
                  m.audio_streams[i].pid = pid => n.audio_streams[i].cc = m.audio_streams[i].cc)
               => Counter(n, pid) = Counter(m, pid))
<1>1. DOMAIN n.audio_streams = DOMAIN m.audio_streams
  BY StreamFacts DEF SameStreams
<1>2. ASSUME NEW pid, pid \notin {Pat, PmtPid, Video},
             \A i \in DOMAIN m.audio_streams :
               m.audio_streams[i].pid = pid => n.audio_streams[i].cc = m.audio_streams[i].cc
      PROVE  Counter(n, pid) = Counter(m, pid)
  <2>1. CASE \E i \in DOMAIN m.audio_streams : m.audio_streams[i].pid = pid
    <3>1. PICK i \in DOMAIN m.audio_streams : m.audio_streams[i].pid = pid
      BY <2>1
    <3>2. n.audio_streams[i].pid = pid /\ n.audio_streams[i].cc = m.audio_streams[i].cc
      BY <1>2, <3>1 DEF SameStreams
    <3>3. Counter(m, pid) = m.audio_streams[i].cc /\ Counter(n, pid) = n.audio_streams[i].cc
      BY <1>1, <3>1, <3>2, CounterFacts
    <3>4. QED
      BY <3>2, <3>3
  <2>2. CASE ~\E i \in DOMAIN m.audio_streams : m.audio_streams[i].pid = pid
    BY <1>1, <1>2, <2>2 DEF Counter, SameStreams
  <2>3. QED
    BY <2>1, <2>2
<1>3. QED
  BY <1>1, <1>2

LEMMA AlikeWritesTables ==
  ASSUME NEW m, NEW n, NEW E, MuxerOK(m), Alike(m, n)
  PROVE  WritesTables(m, n, E, 0)
<1>1. \A pid : Counter(n, pid) = Counter(m, pid)
  <2>1. ASSUME NEW pid, pid \in {Pat, PmtPid, Video} PROVE Counter(n, pid) = Counter(m, pid)
    BY <2>1 DEF Counter, Alike
  <2>2. QED
    BY <2>1, SameCounters DEF Alike
<1>2. \A pid \in AllPids : Chained(<<>>, pid, Counter(m, pid), Counter(n, pid))
  <2>1. <<>> \in Seq(Packet) /\ \A i \in 1..Len(<<>>) : FALSE
    OBVIOUS
  <2>2. QED
    BY <1>1, <2>1, ChainNone, CounterFacts
<1>3. n.output = m.output \o <<>>
  BY StreamFacts, ConcatEmptySeq DEF Alike
<1>4. Writes(m, <<>>, n)
  BY <1>2, <1>3 DEF Writes, Alike
<1>5. <<>> \in Seq(PsiPkt) /\ Whole(<<>>) /\ Listing(<<>>, E, m) /\ Times(<<>>, 0)
  BY DEF Whole, Listing, Times
<1>6. QED
  BY <1>4, <1>5 DEF WritesTables

-----------------------------------------------------------------------------
(* One PAT, and the parts of one PMT.                                       *)
Psi(m) == <<PatPacket(m)>> \o PmtPackets(m)

LEMMA PmtPacketsFacts ==
  ASSUME NEW m, MuxerOK(m)
  PROVE  LET k == PsiParts(TableOf(m).size)
         IN  /\ k \in Nat \ {0}
             /\ PmtPackets(m) \in Seq(PsiPkt) /\ Len(PmtPackets(m)) = k
             /\ \A i \in 1..k :
                  /\ PmtPackets(m)[i].pid = PmtPid /\ PmtPackets(m)[i].cc = Mod(m.pmt_cc + i - 1)
                  /\ PmtPackets(m)[i].part = i /\ PmtPackets(m)[i].table = TableOf(m)
<1> DEFINE k == PsiParts(TableOf(m).size)
           packet(i) == [pid |-> PmtPid, cc |-> Mod(m.pmt_cc + i - 1), part |-> i, table |-> TableOf(m)]
<1>1. k \in Nat \ {0} /\ TableOf(m) \in Table
  <2>1. TableOf(m) \in Table
    BY TableFacts
  <2>2. TableOf(m).size \in Nat /\ TableOf(m).size >= 16
    BY <2>1 DEF Table
  <2>3. QED
    BY <2>1, <2>2, PsiPartsFacts
<1>2. PmtPackets(m) = [i \in 1..k |-> packet(i)]
  BY DEF PmtPackets, Mod
<1>3. ASSUME NEW i \in 1..k PROVE packet(i) \in PsiPkt
  <2>1. m.pmt_cc + i - 1 \in Nat
    BY <1>1 DEF MuxerOK, Muxer, Cc
  <2>2. Mod(m.pmt_cc + i - 1) \in Cc
    BY <2>1, CcFacts
  <2>3. QED
    BY <1>1, <2>2 DEF PsiPkt, PmtPkt
<1>4. \A i \in 1..k : /\ packet(i).pid = PmtPid /\ packet(i).cc = Mod(m.pmt_cc + i - 1)
                       /\ packet(i).part = i /\ packet(i).table = TableOf(m)
  OBVIOUS
<1> HIDE DEF k, packet
<1>5. PmtPackets(m) \in Seq(PsiPkt) /\ Len(PmtPackets(m)) = k /\ \A i \in 1..k : PmtPackets(m)[i] = packet(i)
  BY <1>1, <1>2, <1>3
<1>6. QED
  BY <1>1, <1>4, <1>5 DEF k

LEMMA PatFacts ==
  ASSUME NEW m, MuxerOK(m)
  PROVE  /\ <<PatPacket(m)>> \in Seq(PsiPkt) /\ Len(<<PatPacket(m)>>) = 1 /\ PatPacket(m) \in PsiPkt
         /\ PatPacket(m).pid = Pat /\ PatPacket(m).cc = m.pat_cc
<1>1. PatPacket(m) \in PsiPkt /\ PatPacket(m).pid = Pat /\ PatPacket(m).cc = m.pat_cc
  BY DEF MuxerOK, Muxer, PatPacket, PsiPkt, PatPkt
<1>2. QED
  BY <1>1

LEMMA PsiFacts ==
  ASSUME NEW m, MuxerOK(m)
  PROVE  /\ Psi(m) \in Seq(PsiPkt) /\ Len(Psi(m)) = 1 + PsiParts(TableOf(m).size)
         /\ Psi(m)[1].pid = Pat
         /\ \A i \in 2..Len(Psi(m)) :
              Psi(m)[i].pid = PmtPid /\ Psi(m)[i].part = i - 1 /\ Psi(m)[i].table = TableOf(m)
         /\ Whole(Psi(m))
<1> DEFINE n == PsiParts(TableOf(m).size)
           x == Psi(m)
           pmt == PmtPackets(m)
<1>1. n \in Nat \ {0} /\ pmt \in Seq(PsiPkt) /\ Len(pmt) = n
  BY PmtPacketsFacts
<1>2. \A i \in 1..n : pmt[i].pid = PmtPid /\ pmt[i].part = i /\ pmt[i].table = TableOf(m)
  BY PmtPacketsFacts
<1> HIDE DEF n, pmt
<1>3. x \in Seq(PsiPkt) /\ Len(x) = 1 + n /\ x[1] = PatPacket(m) /\ \A i \in 2..(1 + n) : x[i] = pmt[i - 1]
  BY <1>1, PatFacts DEF Psi, pmt
<1>4. ASSUME NEW i \in 2..(1 + n)
      PROVE  x[i].pid = PmtPid /\ x[i].part = i - 1 /\ x[i].table = TableOf(m)
  <2>1. i - 1 \in 1..n
    BY <1>1
  <2>2. QED
    BY <1>2, <1>3, <2>1
<1>5. x[1].pid = Pat /\ x[1].pid # PmtPid
  BY <1>3, PatFacts, PidFacts
<1> HIDE DEF x
<1>6. Whole(x)
  <2>1. DOMAIN x = 1..(1 + n)
    BY <1>1, <1>3
  <2> SUFFICES ASSUME NEW i \in 1..(1 + n), x[i].pid = PmtPid
               PROVE  /\ Bounded(x[i].table)
                      /\ x[i].part = 1 => i > 1 /\ x[i - 1].pid = Pat
                      /\ x[i].part <= PsiParts(x[i].table.size)
                      /\ x[i].part > 1 =>
                           i > 1 /\ x[i - 1].pid = PmtPid /\ x[i - 1].part = x[i].part - 1 /\ x[i - 1].table = x[i].table
                      /\ x[i].part < PsiParts(x[i].table.size) =>
                           i < Len(x) /\ x[i + 1].pid = PmtPid /\ x[i + 1].part = x[i].part + 1 /\ x[i + 1].table = x[i].table
                      /\ \E j \in 1..(i - 1) : x[j].pid = Pat
    BY <2>1 DEF Whole
  <2>2. i \in 2..(1 + n) /\ 1 \in 1..(i - 1)
    BY <1>1, <1>5
  <2>3. x[i].part = i - 1 /\ PsiParts(x[i].table.size) = n
    BY <1>4, <2>2 DEF n
  <2>4. i > 2 => i - 1 \in 2..(1 + n)
    BY <1>1, <2>2
  <2>5. i < 1 + n => i + 1 \in 2..(1 + n)
    BY <1>1, <2>2
  <2>6. x[i].part > 1 => x[i - 1].pid = PmtPid /\ x[i - 1].part = i - 2 /\ x[i - 1].table = x[i].table
    <3>1. SUFFICES ASSUME x[i].part > 1 PROVE x[i - 1].pid = PmtPid /\ x[i - 1].part = i - 2 /\ x[i - 1].table = x[i].table
      OBVIOUS
    <3>2. i - 1 \in 2..(1 + n) /\ (i - 1) - 1 = i - 2
      BY <1>1, <2>2, <2>3, <2>4, <3>1
    <3>3. QED
      BY <1>4, <2>2, <3>2
  <2>7. x[i].part < n => x[i + 1].pid = PmtPid /\ x[i + 1].part = i /\ x[i + 1].table = x[i].table
    <3>1. SUFFICES ASSUME x[i].part < n PROVE x[i + 1].pid = PmtPid /\ x[i + 1].part = i /\ x[i + 1].table = x[i].table
      OBVIOUS
    <3>2. i + 1 \in 2..(1 + n) /\ (i + 1) - 1 = i
      BY <1>1, <2>2, <2>3, <2>5, <3>1
    <3>3. QED
      BY <1>4, <2>2, <3>2
  <2>8. Bounded(x[i].table)
    BY <1>4, <2>2, TableBounded
  <2>9. x[i].part = 1 => i > 1 /\ x[i - 1].pid = Pat
    <3>1. SUFFICES ASSUME x[i].part = 1 PROVE i > 1 /\ x[i - 1].pid = Pat
      OBVIOUS
    <3>2. i = 2
      BY <1>1, <2>2, <2>3, <3>1
    <3>3. QED
      BY <1>5, <3>2
  <2>10. QED
    BY <1>1, <1>3, <1>5, <2>2, <2>3, <2>6, <2>7, <2>8, <2>9
<1>7. QED
  BY <1>3, <1>4, <1>5, <1>6 DEF x, n

LEMMA WritePsiFacts ==
  ASSUME NEW m, MuxerOK(m), NEW pts \in Nat
  PROVE  LET n == WritePsiAt(m, pts)
         IN  /\ Writes(m, Psi(m), n)
             /\ n.audio_streams = m.audio_streams /\ n.pmt_dirty = m.pmt_dirty
             /\ n.pat_pmt_emitted = m.pat_pmt_emitted /\ n.pmt_resend_count = m.pmt_resend_count
<1> DEFINE k == PsiParts(TableOf(m).size)
           n == WritePsiAt(m, pts)
           out == m.output \o Psi(m)
<1>1. PatPacket(m) \in Packet /\ <<PatPacket(m)>> \in Seq(Packet) /\ PmtPackets(m) \in Seq(Packet)
      /\ k \in Nat \ {0}
  BY PatFacts, PmtPacketsFacts, SeqPackets DEF Packet
<1>2. Append(m.output, PatPacket(m)) \o PmtPackets(m) = out
  <2>1. m.output \in Seq(Packet)
    BY StreamFacts
  <2>2. Append(m.output, PatPacket(m)) = m.output \o <<PatPacket(m)>>
    BY <1>1, <2>1
  <2> DEFINE head == <<PatPacket(m)>>
             tail == PmtPackets(m)
             before == m.output
  <2>3. (before \o head) \o tail = before \o (head \o tail)
    <3>1. before \in Seq(Packet) /\ head \in Seq(Packet) /\ tail \in Seq(Packet)
      BY <1>1, <2>1
    <3> HIDE DEF before, head, tail
    <3>2. QED
      BY <3>1, PacketsAssociate
  <2>4. QED
    BY <2>2, <2>3 DEF Psi
<1>3. n = [m EXCEPT !.output = out, !.pat_cc = Mod(m.pat_cc + 1), !.pmt_cc = Mod(m.pmt_cc + k), !.last_psi_pts = pts]
  BY <1>2 DEF WritePsiAt, WritePsi, MuxerOK, Muxer, Mod
<1>4. k \in Nat \ {0} /\ Psi(m) \in Seq(Packet) /\ out \in Seq(Packet)
  BY <1>1, PsiFacts, SeqPackets, StreamFacts
<1>5. Mod(m.pat_cc + 1) \in Cc /\ Mod(m.pmt_cc + k) \in Cc
  <2>1. m.pat_cc + 1 \in Nat /\ m.pmt_cc + k \in Nat
    BY <1>4 DEF MuxerOK, Muxer, Cc
  <2>2. QED
    BY <2>1, CcFacts
<1> HIDE DEF out, k, n
<1>6. /\ n \in Muxer
      /\ n.audio_streams = m.audio_streams /\ n.video_enabled = m.video_enabled
      /\ n.video_codec = m.video_codec /\ n.sparse_enabled = m.sparse_enabled
      /\ n.video_cc = m.video_cc /\ n.pat_cc = Mod(m.pat_cc + 1) /\ n.pmt_cc = Mod(m.pmt_cc + k)
      /\ n.output = out /\ n.pmt_dirty = m.pmt_dirty
      /\ n.pat_pmt_emitted = m.pat_pmt_emitted /\ n.pmt_resend_count = m.pmt_resend_count
  BY <1>3, <1>4, <1>5 DEF MuxerOK, Muxer
<1>7. MuxerOK(n) /\ SameStreams(m, n)
  <2>1. SameStreams(m, n)
    BY <1>6 DEF SameStreams
  <2>2. Known(n)
    BY <2>1, KnownStill
  <2>3. QED
    BY <1>6, <2>1, <2>2 DEF MuxerOK
<1>8. ASSUME NEW pid \in AllPids PROVE Chained(Psi(m), pid, Counter(m, pid), Counter(n, pid))
  <2> DEFINE tail == PmtPackets(m)
             head == <<PatPacket(m)>>
  <2>1. head \in Seq(Packet) /\ Len(head) = 1 /\ head[1].pid = Pat /\ head[1].cc = m.pat_cc
    BY <1>1, PatFacts
  <2>2. Len(tail) = k /\ \A i \in 1..k : tail[i].pid = PmtPid /\ tail[i].cc = Mod(m.pmt_cc + i - 1)
    BY PmtPacketsFacts DEF k
  <2>3. tail \in Seq(Packet) /\ Counter(m, pid) \in Cc
    BY <1>1, CounterFacts
  <2>4. Psi(m) = head \o tail
    BY DEF Psi
  <2> HIDE DEF head, tail
  <2>5. CASE pid = Pat
    <3>1. Counter(m, pid) = m.pat_cc /\ Counter(n, pid) = Mod(m.pat_cc + 1) /\ m.pat_cc \in Cc
      BY <1>6, <2>5 DEF Counter, MuxerOK, Muxer
    <3>2. Chained(head, pid, m.pat_cc, Mod(m.pat_cc + 1))
      <4>1. m.pat_cc + 1 - 1 = m.pat_cc /\ Mod(m.pat_cc) = m.pat_cc
        BY <3>1, CcFacts
      <4>2. \A i \in 1..Len(head) : head[i].pid = pid /\ head[i].cc = Mod(m.pat_cc + i - 1)
        BY <2>1, <2>5, <4>1
      <4>3. QED
        BY <2>1, <3>1, <4>2, ChainBlock
    <3>3. Chained(tail, pid, Mod(m.pat_cc + 1), Mod(m.pat_cc + 1))
      BY <1>5, <2>2, <2>3, <2>5, PidFacts, ChainNone
    <3>4. QED
      BY <2>1, <2>3, <2>4, <3>1, <3>2, <3>3, ChainConcat
  <2>6. CASE pid = PmtPid
    <3>1. Counter(m, pid) = m.pmt_cc /\ Counter(n, pid) = Mod(m.pmt_cc + k) /\ m.pmt_cc \in Cc
      BY <1>6, <2>6, PidFacts DEF Counter, MuxerOK, Muxer
    <3>2. Chained(head, pid, m.pmt_cc, m.pmt_cc)
      <4>1. \A i \in 1..Len(head) : head[i].pid # pid
        BY <2>1, <2>6, PidFacts
      <4>2. QED
        BY <2>1, <3>1, <4>1, ChainNone
    <3>3. Chained(tail, pid, m.pmt_cc, Mod(m.pmt_cc + k))
      <4>1. \A i \in 1..Len(tail) : tail[i].pid = pid /\ tail[i].cc = Mod(m.pmt_cc + i - 1)
        BY <2>2, <2>6
      <4>2. QED
        BY <2>2, <2>3, <3>1, <4>1, ChainBlock
    <3>4. QED
      BY <2>1, <2>3, <2>4, <3>1, <3>2, <3>3, ChainConcat
  <2>7. CASE pid \notin {Pat, PmtPid}
    <3>1. Counter(n, pid) = Counter(m, pid)
      BY <1>6, <2>7 DEF Counter, At
    <3>2. \A i \in 1..Len(Psi(m)) : Psi(m)[i].pid # pid
      <4>1. \A i \in 1..Len(Psi(m)) : Psi(m)[i].pid \in {Pat, PmtPid}
        BY PsiFacts, PacketFacts
      <4>2. QED
        BY <2>7, <4>1
    <3>3. QED
      BY <1>4, <2>3, <3>1, <3>2, ChainNone
  <2>8. QED
    BY <2>5, <2>6, <2>7
<1>9. QED
  BY <1>6, <1>7, <1>8 DEF Writes, n, out

-----------------------------------------------------------------------------
(* Which streams are announced depends on which are suppressed.             *)
LEMMA SameTables ==
  ASSUME NEW m, NEW n, MuxerOK(m), MuxerOK(n), SameStreams(m, n),
         \A i \in DOMAIN m.audio_streams :
           n.audio_streams[i].suppressed = m.audio_streams[i].suppressed
  PROVE  /\ ActiveAudio(n) = ActiveAudio(m) /\ Entries(n) = Entries(m) /\ PcrPid(n) = PcrPid(m)
         /\ \A T : UpToDate(T, m) <=> UpToDate(T, n)
<1>1. DOMAIN n.audio_streams = DOMAIN m.audio_streams
  BY SameCounters
<1>2. ActiveAudio(n) = ActiveAudio(m)
  BY <1>1 DEF ActiveAudio, SameStreams
<1>3. ActiveAudio(m) \subseteq DOMAIN m.audio_streams /\ ActiveAudio(m) \subseteq Nat
  BY StreamFacts DEF ActiveAudio
<1>4. Entries(n) = Entries(m)
  BY <1>2, <1>3 DEF Entries, SameStreams
<1>5. PcrPid(n) = PcrPid(m)
  <2>1. CASE ActiveAudio(m) = {}
    BY <1>2, <2>1 DEF PcrPid, SameStreams
  <2>2. CASE ActiveAudio(m) # {}
    <3>1. Min(ActiveAudio(m)) \in DOMAIN m.audio_streams
      BY <1>3, <2>2, Least
    <3>2. QED
      BY <1>2, <2>2, <3>1 DEF PcrPid, SameStreams
  <2>3. QED
    BY <2>1, <2>2
<1>6. QED
  BY <1>2, <1>4, <1>5 DEF UpToDate

LEMMA SaysIsAnnounce ==
  ASSUME NEW u \in Seq(Packet), NEW old, NEW T, Says(u, old, T)
  PROVE  Announce(old, u) = T
<1>1. CASE TableStarts(u) = {} /\ T = old
  BY <1>1 DEF Announce
<1>2. CASE \E i \in TableStarts(u) : (\A j \in TableStarts(u) : j <= i) /\ T = u[i].table
  <2>1. PICK i \in TableStarts(u) : (\A j \in TableStarts(u) : j <= i) /\ T = u[i].table
    BY <1>2
  <2>2. TableStarts(u) \subseteq Nat
    BY DEF TableStarts
  <2>3. Max(TableStarts(u)) = i
    BY <2>1, <2>2 DEF Max
  <2>4. QED
    BY <2>1, <2>3 DEF Announce
<1>3. QED
  BY <1>1, <1>2 DEF Says

(* What is not of a PMT announces nothing.                                  *)
LEMMA SaysNothing ==
  ASSUME NEW s \in Seq(Packet), NEW u \in Seq(Packet), NEW old, NEW T, Says(s, old, T),
         \A i \in 1..Len(u) : u[i].pid # PmtPid
  PROVE  Says(s \o u, old, T)
<1> DEFINE n == Len(s)
           x == s \o u
<1>1. /\ n \in Nat /\ Len(u) \in Nat /\ DOMAIN x = 1..(n + Len(u)) /\ DOMAIN s = 1..n
      /\ \A i \in 1..n : x[i] = s[i]
      /\ \A i \in 1..(n + Len(u)) : i > n => i - n \in 1..Len(u) /\ x[i] = u[i - n]
  OBVIOUS
<1> HIDE DEF x, n
<1>2. TableStarts(x) = TableStarts(s)
  <2>1. ASSUME NEW i \in TableStarts(x) PROVE i \in TableStarts(s)
    <3>1. i \in 1..(n + Len(u)) /\ x[i].pid = PmtPid /\ x[i].part = 1
      BY <1>1 DEF TableStarts
    <3>2. i <= n
      BY <1>1, <3>1
    <3>3. QED
      BY <1>1, <3>1, <3>2 DEF TableStarts
  <2>2. ASSUME NEW i \in TableStarts(s) PROVE i \in TableStarts(x)
    BY <1>1 DEF TableStarts
  <2>3. QED
    BY <2>1, <2>2
<1>3. \A i \in TableStarts(s) : x[i] = s[i]
  BY <1>1 DEF TableStarts
<1>4. QED
  BY <1>2, <1>3 DEF Says, x

(* The tables that were written are what is announced from then on.         *)
LEMMA PsiSays ==
  ASSUME NEW m, MuxerOK(m), NEW pts \in Nat, NEW old
  PROVE  /\ Says(WritePsiAt(m, pts).output, old, TableOf(m))
         /\ Announced(WritePsiAt(m, pts), old)
<1> DEFINE n == WritePsiAt(m, pts)
           l == Len(m.output)
           x == m.output \o Psi(m)
<1>1. Writes(m, Psi(m), n) /\ n.audio_streams = m.audio_streams
  BY WritePsiFacts
<1>2. n.output = x /\ SameStreams(m, n) /\ MuxerOK(n)
  BY <1>1 DEF Writes
<1> HIDE DEF n
<1>3. /\ l \in Nat /\ Len(Psi(m)) \in Nat /\ Len(Psi(m)) >= 2 /\ DOMAIN x = 1..(l + Len(Psi(m)))
      /\ x[l + 1].pid = Pat
      /\ \A i \in (l + 2)..(l + Len(Psi(m))) : x[i].pid = PmtPid /\ x[i].part = i - l - 1 /\ x[i].table = TableOf(m)
  <2> DEFINE p == Psi(m)
             o == m.output
             k == PsiParts(TableOf(m).size)
  <2>1. /\ p \in Seq(Packet) /\ o \in Seq(Packet) /\ Len(p) = 1 + k /\ k \in Nat \ {0} /\ p[1].pid = Pat
        /\ \A i \in 2..(1 + k) : p[i].pid = PmtPid /\ p[i].part = i - 1 /\ p[i].table = TableOf(m)
    BY PsiFacts, PmtPacketsFacts, SeqPackets, StreamFacts
  <2> HIDE DEF p, o, k
  <2>2. x = o \o p /\ l = Len(o)
    BY DEF o, p
  <2> HIDE DEF x, l
  <2>3. l \in Nat /\ Len(x) = l + Len(p) /\ DOMAIN x = 1..(l + Len(p)) /\ x[l + 1] = p[1]
    <3>0. o \in Seq(Packet) /\ p \in Seq(Packet) /\ 1 \in 1..Len(p)
      BY <2>1
    <3>1. x \in Seq(Packet) /\ l \in Nat /\ Len(p) \in Nat /\ Len(x) = l + Len(p) /\ 1 \in 1..Len(p)
      BY <2>2, <3>0
    <3>2. x[l + 1] = p[1]
      BY <2>2, <3>0, <3>1
    <3>3. QED
      BY <3>1, <3>2
  <2>4. ASSUME NEW i \in (l + 2)..(l + Len(p)) PROVE x[i].pid = PmtPid /\ x[i].part = i - l - 1 /\ x[i].table = TableOf(m)
    <3>1. i - l \in 2..(1 + k) /\ x[i] = p[i - l]
      BY <2>1, <2>2, <2>3
    <3>2. QED
      BY <2>1, <3>1
  <2>5. QED
    BY <2>1, <2>3, <2>4 DEF p
<1> HIDE DEF x, l
<1>4. l + 2 \in TableStarts(x) /\ x[l + 2].table = TableOf(m)
  <2>1. l + 2 \in (l + 2)..(l + Len(Psi(m))) /\ l + 2 - l - 1 = 1 /\ l + 2 \in 1..(l + Len(Psi(m)))
    BY <1>3
  <2>2. QED
    BY <1>3, <2>1 DEF TableStarts
<1>5. ASSUME NEW j \in TableStarts(x) PROVE j <= l + 2
  <2>1. SUFFICES ASSUME j > l + 2 PROVE FALSE
    BY <1>3 DEF TableStarts
  <2>2. j \in (l + 2)..(l + Len(Psi(m))) /\ x[j].part = 1
    BY <1>3, <2>1 DEF TableStarts
  <2>3. QED
    BY <1>3, <2>1, <2>2
<1>6. Says(n.output, old, TableOf(m))
  BY <1>2, <1>4, <1>5 DEF Says
<1>7. UpToDate(TableOf(m), n)
  BY <1>1, <1>2, SameTables, TableFacts DEF UpToDate
<1>8. QED
  BY <1>6, <1>7 DEF Announced, n

-----------------------------------------------------------------------------
(* The packets of a PES.  They have it all, one after the other.            *)
Unbroken(w) ==
  \A i \in 1..Len(w) :
    /\ w[i].pes = w[1].pes /\ w[i].len > 0
    /\ i = 1 => w[i].from = 0 /\ (w[i].pes.size > PesHeader => w[i].len > PesHeader)
    /\ IF i = Len(w) THEN w[i].from + w[i].len = w[i].pes.size
       ELSE w[i].from + w[i].len < w[i].pes.size /\ w[i + 1].from = w[i].from + w[i].len

LEMMA PesPacketsFacts ==
  ASSUME NEW pid \in Pids, NEW cc \in Cc, NEW pes \in Pes, pes.size >= 14,
         NEW pcr \in BOOLEAN, NEW ra \in BOOLEAN, NEW u, u = Packetize(pid, cc, pes, pcr, ra)
  PROVE  /\ u \in Seq(PesPkt) /\ Len(u) \in Nat \ {0} /\ Unbroken(u)
         /\ \A i \in 1..Len(u) :
              /\ u[i].pid = pid /\ u[i].cc = Mod(cc + i - 1) /\ u[i].part = i /\ u[i].pes = pes
              /\ u[i].pcr = (pcr /\ i = 1)
              /\ u[i].random_access = (ra /\ i = 1 /\ HasAdaptation(i, pes.size, pcr))
<1> DEFINE k == PesParts(pes.size, pcr)
           packet(i) ==
             [pid |-> pid, cc |-> Mod(cc + i - 1), part |-> i, pes |-> pes,
              from |-> Offset(i, pcr), len |-> Chunk(i, pes.size, pcr), pcr |-> pcr /\ i = 1,
              random_access |-> ra /\ i = 1 /\ HasAdaptation(i, pes.size, pcr)]
<1>1. pes.size \in Nat
  BY DEF Pes
<1>2. k \in Nat \ {0}
  BY <1>1, PesPartsFacts
<1>3. u = [i \in 1..k |-> packet(i)]
  BY DEF Packetize, PesPackets, Mod
<1>4. ASSUME NEW i \in 1..k PROVE packet(i) \in PesPkt
  <2>1. cc + i - 1 \in Nat
    BY <1>2 DEF Cc
  <2>2. Mod(cc + i - 1) \in Cc
    BY <2>1, CcFacts
  <2>3. \A j \in Nat : Room(j, pcr) \in Int
    BY MuxerAssumption DEF Room
  <2>4. i \in Nat \ {0} /\ Room(1, pcr) \in Int /\ Room(2, pcr) \in Int /\ Room(i, pcr) \in Int
    BY <1>2, <2>3
  <2>5. Offset(i, pcr) \in Int
    <3>1. (i - 2) * Room(2, pcr) \in Int
      BY <2>4
    <3>2. QED
      BY <2>4, <3>1 DEF Offset
  <2>6. Chunk(i, pes.size, pcr) \in Int
    BY <1>1, <2>4, <2>5 DEF Chunk
  <2>7. HasAdaptation(i, pes.size, pcr) \in BOOLEAN
    BY DEF HasAdaptation
  <2>8. QED
    BY <2>2, <2>4, <2>5, <2>6, <2>7 DEF PesPkt
<1>5. \A i \in 1..k :
        /\ packet(i).pid = pid /\ packet(i).cc = Mod(cc + i - 1) /\ packet(i).part = i /\ packet(i).pes = pes
        /\ packet(i).pcr = (pcr /\ i = 1)
        /\ packet(i).random_access = (ra /\ i = 1 /\ HasAdaptation(i, pes.size, pcr))
        /\ packet(i).from = Offset(i, pcr) /\ packet(i).len = Chunk(i, pes.size, pcr)
  OBVIOUS
<1>6. ASSUME NEW i \in 1..k
      PROVE  LET from == Offset(i, pcr)
                 len == Chunk(i, pes.size, pcr)
             IN  /\ from \in Int /\ len \in Int /\ len > 0
                 /\ i = 1 => from = 0 /\ (pes.size > 14 => len > 14)
                 /\ IF i = k THEN from + len = pes.size
                    ELSE from + len < pes.size /\ Offset(i + 1, pcr) = from + len
  BY <1>1, ChunkFacts
<1> HIDE DEF k, packet
<1>7. u \in Seq(PesPkt) /\ Len(u) = k /\ \A i \in 1..k : u[i] = packet(i)
  BY <1>2, <1>3, <1>4
<1>8. Unbroken(u)
  <2>1. \A i \in 1..k : u[i].from = Offset(i, pcr) /\ u[i].len = Chunk(i, pes.size, pcr) /\ u[i].pes = pes
    BY <1>5, <1>7
  <2>2. 1 \in 1..k /\ \A i \in 1..k : i # k => i + 1 \in 1..k
    BY <1>2
  <2> HIDE DEF Offset, Chunk
  <2>3. QED
    BY <1>6, <1>7, <2>1, <2>2 DEF Unbroken, PesHeader
<1>9. QED
  BY <1>2, <1>5, <1>7, <1>8

(* They run on the counter of their PID.                                    *)
LEMMA PesChained ==
  ASSUME NEW pid \in Pids, NEW cc \in Cc, NEW u \in Seq(PesPkt),
         \A i \in 1..Len(u) : u[i].pid = pid /\ u[i].cc = Mod(cc + i - 1)
  PROVE  /\ Chained(u, pid, cc, Mod(cc + Len(u))) /\ Mod(cc + Len(u)) \in Cc
         /\ \A other \in AllPids, c \in Cc : other # pid => Chained(u, other, c, c)
<1>1. Chained(u, pid, cc, Mod(cc + Len(u)))
  BY ChainBlock
<1>2. ASSUME NEW other \in AllPids, NEW c \in Cc, other # pid PROVE Chained(u, other, c, c)
  BY <1>2, ChainNone
<1>3. Mod(cc + Len(u)) \in Cc
  <2>1. cc + Len(u) \in Nat
    BY DEF Cc
  <2>2. QED
    BY <2>1, CcFacts
<1>4. QED
  BY <1>1, <1>2, <1>3

(* The PIDs of which every PES has bytes of an access unit: those of audio  *)
(* always do.                                                               *)
Tracked == {pid \in Pids : pid = Video => 0 \notin Lens}

(* w holds a PES of au, all of it, on a PID that m announces.               *)
Carries(w, m, pid, au, key) ==
  /\ w \in Seq(PesPkt) /\ Unbroken(w)
  /\ w # <<>> => \E e \in Entries(m) : e.pid = pid
  /\ \A i \in 1..Len(w) :
       /\ w[i].pid = pid /\ w[i].part = i /\ w[i].pes.au = au
       /\ w[i].pcr => PcrPid(m) = pid
       /\ w[i].random_access <=> (key /\ i = 1)
       /\ w[i].pes.bounded <=> pid # Video
       /\ pid \in Tracked => w[i].pes.size > PesHeader

AudioWritten(m, n, pid, au) ==
  /\ \E w : Carries(w, n, pid, au, FALSE) /\ Writes(m, w, n)
  /\ \A T : UpToDate(T, m) => UpToDate(T, n)
  /\ n.pmt_dirty = m.pmt_dirty /\ Entries(n) = Entries(m) /\ (Fresh(m) => Fresh(n))

LEMMA WriteAudioFacts ==
  ASSUME NEW m, MuxerOK(m), NEW i \in DOMAIN m.audio_streams, NEW pid \in Pids, m.audio_streams[i].pid = pid,
         NEW au \in Pids \X (Nat \ {0}), NEW len \in Nat \ {0},
         ~(m.sparse_enabled /\ m.audio_streams[i].suppressed)
  PROVE  AudioWritten(m, WriteAudio(m, i, au, len), pid, au)
<1> DEFINE s == m.audio_streams[i]
           n == WriteAudio(m, i, au, len)
           pes == BuildPes(au, len, TRUE)
           pcr == pid = PcrPid(m)
           c == s.cc
           w == Packetize(pid, c, pes, pcr, FALSE)
           cc == Mod(s.cc + Len(w))
           out == m.output \o w
           streams == [m.audio_streams EXCEPT ![i].cc = cc]
<1>1. pes \in Pes /\ pes.size >= 14 /\ pes.au = au /\ pes.bounded /\ pes.size > PesHeader
  <2>1. pes = [au |-> au, size |-> 14 + len, bounded |-> TRUE]
    BY DEF BuildPes, PesHeader
  <2> HIDE DEF pes
  <2>2. pes.au = au /\ pes.size = 14 + len /\ pes.bounded = TRUE
    BY <2>1
  <2>3. pes \in Pes
    BY <2>1 DEF Pes
  <2>4. QED
    BY <2>2, <2>3 DEF PesHeader
<1>2. s \in Stream /\ s.cc \in Cc /\ s.pid = pid
  BY StreamFacts DEF Stream
<1> HIDE DEF pes, pcr
<1>3. pcr \in BOOLEAN
  BY DEF pcr
<1>4. /\ w \in Seq(PesPkt) /\ Len(w) \in Nat \ {0} /\ Unbroken(w)
      /\ \A j \in 1..Len(w) :
           /\ w[j].pid = pid /\ w[j].cc = Mod(s.cc + j - 1) /\ w[j].part = j /\ w[j].pes = pes
           /\ w[j].pcr = (pcr /\ j = 1)
           /\ w[j].random_access = (FALSE /\ j = 1 /\ HasAdaptation(j, pes.size, pcr))
  <2>1. c \in Cc /\ c = s.cc
    BY <1>2
  <2> DEFINE ra == FALSE
  <2>0. w = Packetize(pid, c, pes, pcr, ra) /\ ra \in BOOLEAN /\ ra = FALSE
    OBVIOUS
  <2> HIDE DEF c, w, ra
  <2>2. /\ w \in Seq(PesPkt) /\ Len(w) \in Nat \ {0} /\ Unbroken(w)
        /\ \A j \in 1..Len(w) :
             /\ w[j].pid = pid /\ w[j].cc = Mod(c + j - 1) /\ w[j].part = j /\ w[j].pes = pes
             /\ w[j].pcr = (pcr /\ j = 1)
             /\ w[j].random_access = (ra /\ j = 1 /\ HasAdaptation(j, pes.size, pcr))
    BY SMTT(40), <1>1, <1>3, <2>0, <2>1, PesPacketsFacts
  <2>3. ra = FALSE
    BY DEF ra
  <2>4. s.cc = c
    BY DEF c
  <2> HIDE DEF s, pes, pcr
  <2>5. QED
    BY <2>2, <2>3, <2>4
<1>5. n = [m EXCEPT !.output = out, !.audio_streams = streams]
  BY <1>2 DEF WriteAudio, MuxerOK, Muxer, pes, pcr, Mod
<1> HIDE DEF w
<1>6. cc \in Cc
  BY SMTT(90), <1>2, <1>4, PesChained
<1>7. out \in Seq(Packet)
  BY <1>4, StreamFacts, SeqPackets
<1> HIDE DEF cc, out, n
<1>8. /\ streams \in Seq(Stream) /\ Len(streams) = Len(m.audio_streams)
      /\ \A j \in DOMAIN m.audio_streams :
           /\ streams[j].pid = m.audio_streams[j].pid /\ streams[j].kind = m.audio_streams[j].kind
           /\ streams[j].suppressed = m.audio_streams[j].suppressed
           /\ streams[j].cc = IF j = i THEN cc ELSE m.audio_streams[j].cc
  <2> DEFINE new == [s EXCEPT !.cc = cc]
  <2>1. /\ new \in Stream /\ new.pid = s.pid /\ new.kind = s.kind /\ new.suppressed = s.suppressed /\ new.cc = cc
    BY <1>2, <1>6 DEF Stream
  <2>2. streams = [m.audio_streams EXCEPT ![i] = new]
    OBVIOUS
  <2> HIDE DEF new
  <2>3. QED
    BY <2>1, <2>2, StreamFacts, SMTT(30)
<1> HIDE DEF streams
<1>9. /\ n \in Muxer /\ n.audio_streams = streams /\ n.output = out
      /\ n.video_enabled = m.video_enabled /\ n.video_codec = m.video_codec
      /\ n.sparse_enabled = m.sparse_enabled /\ n.pmt_dirty = m.pmt_dirty
      /\ n.pat_cc = m.pat_cc /\ n.pmt_cc = m.pmt_cc /\ n.video_cc = m.video_cc
      /\ n.pat_pmt_emitted = m.pat_pmt_emitted
  BY <1>5, <1>7, <1>8, StreamFacts DEF Muxer
<1>10. SameStreams(m, n)
  BY <1>8, <1>9 DEF SameStreams
<1>11. MuxerOK(n)
  <2>1. DOMAIN streams = DOMAIN m.audio_streams /\ streams # <<>> /\ 1 \in DOMAIN m.audio_streams
    BY <1>8, StreamFacts
  <2>2. Known(n)
    BY <1>10, KnownStill
  <2>3. QED
    BY <1>8, <1>9, <2>1, <2>2 DEF MuxerOK
<1>12. ActiveAudio(n) = ActiveAudio(m) /\ Entries(n) = Entries(m) /\ PcrPid(n) = PcrPid(m)
       /\ \A T : UpToDate(T, m) <=> UpToDate(T, n)
  <2>1. \A j \in DOMAIN m.audio_streams : n.audio_streams[j].suppressed = m.audio_streams[j].suppressed
    BY <1>8, <1>9
  <2>2. QED
    BY <1>10, <1>11, <2>1, SameTables
<1>13. Carries(w, n, pid, au, FALSE)
  <2>1. i \in ActiveAudio(m)
    BY DEF ActiveAudio
  <2>2. \E e \in Entries(m) : e.pid = pid
    <3>1. [pid |-> m.audio_streams[i].pid, kind |-> m.audio_streams[i].kind] \in Entries(m)
      BY <2>1 DEF Entries
    <3>2. QED
      BY <3>1
  <2>3. pid # Video
    <3>1. pid \in StreamPids
      BY <1>2 DEF Stream
    <3>2. QED
      BY <3>1, PidFacts
  <2>4. QED
    BY <1>1, <1>4, <1>12, <2>2, <2>3 DEF Carries, pcr
<1>14. Writes(m, w, n)
  <2>1. ASSUME NEW other \in AllPids PROVE Chained(w, other, Counter(m, other), Counter(n, other))
    <3>1. CASE other = pid
      <4>1. Counter(m, pid) = s.cc
        BY CounterFacts
      <4>2. Counter(n, pid) = cc
        <5>1. i \in DOMAIN n.audio_streams /\ n.audio_streams[i].pid = pid /\ n.audio_streams[i].cc = cc
          BY <1>8, <1>9, StreamFacts
        <5>2. QED
          BY <1>11, <5>1, CounterFacts
      <4>3. QED
        BY <1>2, <1>4, <3>1, <4>1, <4>2, PesChained DEF cc
    <3>2. CASE other # pid
      <4>1. Counter(n, other) = Counter(m, other)
        <5>1. CASE other \in {Pat, PmtPid, Video}
          BY <1>9, <5>1 DEF Counter
        <5>2. CASE other \notin {Pat, PmtPid, Video}
          <6>1. \A j \in DOMAIN m.audio_streams :
                  m.audio_streams[j].pid = other => n.audio_streams[j].cc = m.audio_streams[j].cc
            BY <1>8, <1>9, <3>2
          <6>2. QED
            BY <1>10, <1>11, <5>2, <6>1, SameCounters
        <5>3. QED
          BY <5>1, <5>2
      <4>2. Counter(m, other) \in Cc
        BY CounterFacts
      <4>3. QED
        BY <1>2, <1>4, <3>2, <4>1, <4>2, PesChained
    <3>3. QED
      BY <3>1, <3>2
  <2>2. QED
    BY <1>9, <1>10, <1>11, <2>1 DEF Writes, out
<1>15. Fresh(m) => Fresh(n)
  <2>1. DOMAIN n.audio_streams = DOMAIN m.audio_streams
    BY <1>10, <1>11, SameCounters
  <2>2. QED
    BY <1>8, <1>9, <2>1 DEF Fresh
<1>16. QED
  BY <1>9, <1>12, <1>13, <1>14, <1>15 DEF n, AudioWritten

-----------------------------------------------------------------------------
(* The PES of a video frame, as push_video writes it.                       *)
WriteVideo(m, au, len, key) ==
  LET w == Packetize(Video, m.video_cc, BuildPes(au, len, FALSE), TRUE, key)
  IN [m EXCEPT !.output = @ \o w, !.video_cc = (@ + Len(w)) % CcModulus]
VideoWritten(m, n, au, key) ==
  /\ \E w : Carries(w, n, Video, au, key) /\ Writes(m, w, n)
  /\ \A T : UpToDate(T, m) => UpToDate(T, n)
  /\ n.pmt_dirty = m.pmt_dirty /\ Entries(n) = Entries(m) /\ (Fresh(m) => Fresh(n))

LEMMA WriteVideoFacts ==
  ASSUME NEW k, MuxerOK(k), k.video_enabled, NEW au \in Pids \X (Nat \ {0}), NEW len \in Lens,
         NEW key \in BOOLEAN
  PROVE  VideoWritten(k, WriteVideo(k, au, len, key), au, key)
<1> DEFINE pes == BuildPes(au, len, FALSE)
           yes == TRUE
           c == k.video_cc
           w == Packetize(Video, c, pes, yes, key)
           cc == Mod(c + Len(w))
           out == k.output \o w
           n == [k EXCEPT !.output = @ \o w, !.video_cc = (@ + Len(w)) % CcModulus]
<1>1. /\ pes \in Pes /\ pes.size >= 14 /\ pes.au = au /\ ~pes.bounded
      /\ Video \in Tracked => pes.size > PesHeader
  <2>1. pes = [au |-> au, size |-> 14 + len, bounded |-> FALSE]
    BY DEF BuildPes, PesHeader
  <2> HIDE DEF pes
  <2>2. pes.au = au /\ pes.size = 14 + len /\ ~pes.bounded /\ len \in Nat
    BY <2>1, PathAssumption
  <2>3. pes \in Pes
    BY <2>1, <2>2 DEF Pes
  <2>4. Video \in Tracked => len # 0
    BY DEF Tracked
  <2>5. QED
    BY <2>2, <2>3, <2>4 DEF PesHeader
<1>2. c \in Cc /\ k \in Muxer
  BY DEF MuxerOK, Muxer
<1>3. yes = TRUE
  OBVIOUS
<1>4. n = [k EXCEPT !.output = out, !.video_cc = cc]
  BY DEF MuxerOK, Muxer, Mod
<1> HIDE DEF pes, yes, w, n
<1>5. /\ w \in Seq(PesPkt) /\ Len(w) \in Nat \ {0} /\ Unbroken(w)
      /\ \A j \in 1..Len(w) :
           /\ w[j].pid = Video /\ w[j].cc = Mod(c + j - 1) /\ w[j].part = j /\ w[j].pes = pes
           /\ w[j].pcr = (yes /\ j = 1)
           /\ w[j].random_access = (key /\ j = 1 /\ HasAdaptation(j, pes.size, yes))
  <2> DEFINE pid == Video
  <2>0. yes \in BOOLEAN
    BY <1>3
  <2>1. pid \in Pids /\ w = Packetize(pid, c, pes, yes, key) /\ c \in Cc
    BY <1>2, PidFacts DEF w
  <2> HIDE DEF c, pid
  <2>2. /\ w \in Seq(PesPkt) /\ Len(w) \in Nat \ {0} /\ Unbroken(w)
        /\ \A j \in 1..Len(w) :
             /\ w[j].pid = pid /\ w[j].cc = Mod(c + j - 1) /\ w[j].part = j /\ w[j].pes = pes
             /\ w[j].pcr = (yes /\ j = 1)
             /\ w[j].random_access = (key /\ j = 1 /\ HasAdaptation(j, pes.size, yes))
    BY SMTT(90), <1>1, <2>0, <2>1, PesPacketsFacts
  <2>3. QED
    BY <2>2 DEF pid
<1>6. /\ Chained(w, Video, c, cc) /\ cc \in Cc
      /\ \A other \in AllPids, x \in Cc : other # Video => Chained(w, other, x, x)
  <2> DEFINE pid == Video
  <2>1. pid \in Pids
    BY PidFacts
  <2>2. w \in Seq(PesPkt) /\ c \in Cc /\ \A j \in 1..Len(w) : w[j].pid = pid /\ w[j].cc = Mod(c + j - 1)
    BY <1>2, <1>5
  <2> HIDE DEF c, pid
  <2>3. /\ Chained(w, pid, c, Mod(c + Len(w))) /\ Mod(c + Len(w)) \in Cc
        /\ \A other \in AllPids, x \in Cc : other # pid => Chained(w, other, x, x)
    BY <2>1, <2>2, PesChained
  <2>4. QED
    BY <2>3 DEF cc, pid
<1>7. cc \in Cc /\ out \in Seq(Packet)
  <2>1. cc \in Cc
    BY <1>6
  <2>2. out \in Seq(Packet)
    BY <1>5, StreamFacts, SeqPackets
  <2>3. QED
    BY <2>1, <2>2
<1> HIDE DEF cc, out
<1>8. /\ n \in Muxer /\ n.audio_streams = k.audio_streams /\ n.output = out
      /\ n.video_enabled = k.video_enabled /\ n.video_codec = k.video_codec
      /\ n.sparse_enabled = k.sparse_enabled /\ n.pmt_dirty = k.pmt_dirty
      /\ n.pat_cc = k.pat_cc /\ n.pmt_cc = k.pmt_cc /\ n.video_cc = cc
      /\ n.pat_pmt_emitted = k.pat_pmt_emitted
  BY <1>2, <1>4, <1>7 DEF Muxer
<1>9. MuxerOK(n) /\ SameStreams(k, n)
  <2>1. SameStreams(k, n)
    BY <1>8 DEF SameStreams
  <2>2. Known(n)
    BY <2>1, KnownStill
  <2>3. QED
    BY <1>8, <2>1, <2>2 DEF MuxerOK
<1>10. Entries(n) = Entries(k) /\ PcrPid(n) = PcrPid(k) /\ \A T : UpToDate(T, k) <=> UpToDate(T, n)
  <2>1. \A j \in DOMAIN k.audio_streams : n.audio_streams[j].suppressed = k.audio_streams[j].suppressed
    BY <1>8
  <2>2. QED
    BY <1>9, <2>1, SameTables
<1>11. Carries(w, n, Video, au, key)
  <2>1. PcrPid(n) = Video
    BY <1>8 DEF PcrPid
  <2>2. \E e \in Entries(n) : e.pid = Video
    <3>1. [pid |-> Video, kind |-> n.video_codec] \in Entries(n)
      BY <1>8 DEF Entries
    <3>2. QED
      BY <3>1
  <2>3. \A j \in 1..Len(w) : w[j].random_access <=> (key /\ j = 1)
    BY <1>3, <1>5 DEF HasAdaptation
  <2>4. \A j \in 1..Len(w) : w[j].pes = pes /\ w[j].pid = Video /\ w[j].part = j
    BY <1>5
  <2>5. QED
    BY <1>1, <1>5, <2>1, <2>2, <2>3, <2>4 DEF Carries
<1>12. Writes(k, w, n)
  <2>1. ASSUME NEW other \in AllPids PROVE Chained(w, other, Counter(k, other), Counter(n, other))
    <3>1. CASE other = Video
      <4>1. Counter(k, Video) = c /\ Counter(n, Video) = cc
        BY <1>8, PidFacts DEF Counter
      <4>2. QED
        BY <1>6, <3>1, <4>1
    <3>2. CASE other # Video
      <4>1. Counter(n, other) = Counter(k, other)
        BY <1>8, <3>2 DEF Counter, At
      <4>2. Counter(k, other) \in Cc
        BY CounterFacts
      <4>3. QED
        BY <1>6, <3>2, <4>1, <4>2
    <3>3. QED
      BY <3>1, <3>2
  <2>2. QED
    BY <1>8, <1>9, <2>1 DEF Writes, out
<1>13. VideoWritten(k, n, au, key)
  <2>1. Fresh(k) => Fresh(n)
    BY <1>8 DEF Fresh
  <2>2. QED
    BY <1>8, <1>10, <1>11, <1>12, <2>1 DEF VideoWritten
<1>14. QED
  BY <1>13 DEF n, w, pes, yes, WriteVideo

-----------------------------------------------------------------------------
LEMMA WritesTablesNothing == \A m, E : MuxerOK(m) => WritesTables(m, m, E, 0)
<1> SUFFICES ASSUME NEW m, NEW E, MuxerOK(m) PROVE WritesTables(m, m, E, 0)
  OBVIOUS
<1>1. Alike(m, m)
  BY DEF Alike, SameStreams
<1>2. QED
  BY <1>1, AlikeWritesTables

(* The tables are up to date when they have been written.                   *)
AfterTables(m, pts, e, d, r) ==
  [WritePsiAt(m, pts) EXCEPT !.pat_pmt_emitted = e, !.pmt_dirty = d, !.pmt_resend_count = r]

Refreshed(m, n, e, d, r) ==
  /\ MuxerOK(n) /\ Writes(m, Psi(m), n) /\ Listing(Psi(m), Entries(m), m)
  /\ \A E : E \subseteq Entries(m) => WritesTables(m, n, E, 0) /\ WritesTables(m, n, E, 1)
  /\ n.pat_pmt_emitted = e /\ n.pmt_dirty = d /\ n.pmt_resend_count = r
  /\ n.audio_streams = m.audio_streams /\ n.video_cc = m.video_cc /\ Entries(n) = Entries(m)
  /\ \A old : Announced(n, old)

LEMMA TablesWritten ==
  ASSUME NEW m, MuxerOK(m), NEW pts \in Nat, NEW e \in BOOLEAN, NEW d \in BOOLEAN, NEW r \in Nat
  PROVE  Refreshed(m, AfterTables(m, pts, e, d, r), e, d, r)
<1> DEFINE k == WritePsiAt(m, pts)
           n == [k EXCEPT !.pat_pmt_emitted = e, !.pmt_dirty = d, !.pmt_resend_count = r]
<1>1. /\ Writes(m, Psi(m), k) /\ MuxerOK(k) /\ k.audio_streams = m.audio_streams
      /\ \A old : Announced(k, old)
  BY WritePsiFacts, PsiSays DEF Writes
<1>2. k.video_cc = m.video_cc
  BY DEF WritePsiAt, WritePsi, MuxerOK, Muxer
<1> HIDE DEF k
<1>3. /\ n \in Muxer /\ n.audio_streams = k.audio_streams /\ n.output = k.output
      /\ n.video_enabled = k.video_enabled /\ n.video_codec = k.video_codec
      /\ n.sparse_enabled = k.sparse_enabled /\ n.pmt_dirty = d
      /\ n.pat_pmt_emitted = e /\ n.pmt_resend_count = r
      /\ n.pat_cc = k.pat_cc /\ n.pmt_cc = k.pmt_cc /\ n.video_cc = k.video_cc
  BY <1>1 DEF Muxer, MuxerOK
<1> HIDE DEF n
<1>4. MuxerOK(n) /\ SameStreams(k, n) /\ Alike(k, n)
  <2>1. SameStreams(k, n)
    BY <1>3 DEF SameStreams
  <2>2. Known(n)
    BY <1>1, <2>1, KnownStill
  <2>3. MuxerOK(n)
    BY <1>1, <1>3, <2>2 DEF MuxerOK
  <2>4. QED
    BY <1>1, <1>3, <2>1, <2>3 DEF SameStreams, Alike
<1>5. \A pid : Counter(n, pid) = Counter(k, pid)
  BY <1>3 DEF Counter, At
<1>6. Writes(m, Psi(m), n)
  BY <1>1, <1>3, <1>4, <1>5 DEF Writes, SameStreams
<1>7. /\ Listing(Psi(m), Entries(m), m)
      /\ \A E : E \subseteq Entries(m) => WritesTables(m, n, E, 0) /\ WritesTables(m, n, E, 1)
  <2>1. /\ Psi(m) \in Seq(PsiPkt) /\ Len(Psi(m)) = 1 + PsiParts(TableOf(m).size) /\ Whole(Psi(m))
        /\ Psi(m)[1].pid = Pat /\ Pat # PmtPid /\ PsiParts(TableOf(m).size) \in Nat \ {0}
        /\ \A i \in 2..Len(Psi(m)) : Psi(m)[i].pid = PmtPid /\ Psi(m)[i].table = TableOf(m)
    BY PsiFacts, PidFacts, PmtPacketsFacts
  <2>2. ASSUME NEW E, E \subseteq Entries(m) PROVE Listing(Psi(m), E, m)
    <3>1. Lists(TableOf(m), E, m)
      BY <2>2, TableLists
    <3>2. \A i \in DOMAIN Psi(m) : Psi(m)[i].pid = PmtPid => i \in 2..Len(Psi(m))
      BY <2>1
    <3>3. QED
      BY <2>1, <3>1, <3>2 DEF Listing
  <2>3. Times(Psi(m), 0) /\ Times(Psi(m), 1)
    <3>1. 2 \in 2..Len(Psi(m)) /\ 2 \in DOMAIN Psi(m)
      BY <2>1
    <3>2. Psi(m)[2].pid = PmtPid
      BY <2>1, <3>1
    <3>3. QED
      BY <3>1, <3>2 DEF Times, Comes
  <2>4. QED
    BY <1>6, <2>1, <2>2, <2>3 DEF WritesTables
<1>8. ASSUME NEW old PROVE Announced(n, old)
  <2>1. \A T : UpToDate(T, k) => UpToDate(T, n)
    BY <1>1, <1>3, <1>4, SameTables
  <2>2. QED
    BY <1>1, <1>3, <2>1 DEF Announced
<1>9. Entries(n) = Entries(m)
  <2>1. n.audio_streams = m.audio_streams /\ SameStreams(m, n) /\ MuxerOK(n)
    BY <1>1, <1>3, <1>4, <1>6 DEF Writes
  <2>2. QED
    BY <2>1, SameTables
<1>10. QED
  BY <1>1, <1>2, <1>3, <1>4, <1>6, <1>7, <1>8, <1>9 DEF n, k, AfterTables, Refreshed

(* After the accounting of a stream the tables are as they were, or dirty.  *)
LEMMA AccountFacts ==
  ASSUME NEW m, MuxerOK(m), NEW i \in DOMAIN m.audio_streams, m.audio_streams[i].kind = "s302m",
         NEW silent \in BOOLEAN
  PROVE  LET n == Account(m, i, silent)
         IN  /\ Alike(m, n) /\ n.pat_pmt_emitted = m.pat_pmt_emitted
             /\ \/ n.pmt_dirty /\ n.pmt_resend_count = ResendCount
                \/ /\ n.pmt_dirty = m.pmt_dirty
                   /\ \A j \in DOMAIN m.audio_streams :
                        n.audio_streams[j].suppressed = m.audio_streams[j].suppressed
<1> DEFINE s == m.audio_streams[i]
           quiet == IF silent THEN s.silence + 1 ELSE 0
           counted == [m EXCEPT !.audio_streams[i].silence = quiet]
           new(b) == [s EXCEPT !.silence = quiet, !.suppressed = b]
           state(b, v, d, r) ==
             [m EXCEPT !.audio_streams = [m.audio_streams EXCEPT ![i] = new(b)], !.pmt_version = v,
                       !.pmt_dirty = d, !.pmt_resend_count = r]
           v2 == (m.pmt_version + 1) % VersionModulus
           n == Account(m, i, silent)
<1>1. s \in Stream /\ s.kind = "s302m" /\ m \in Muxer /\ m.audio_streams \in Seq(Stream) /\ i \in 1..Len(m.audio_streams)
  BY StreamFacts
<1>2. ASSUME NEW b \in BOOLEAN
      PROVE  /\ new(b) \in Stream /\ new(b).pid = s.pid /\ new(b).kind = "s302m"
             /\ new(b).cc = s.cc /\ new(b).suppressed = b
  <2>1. quiet \in Nat
    BY <1>1 DEF Stream
  <2> HIDE DEF quiet
  <2>2. QED
    BY <1>1, <2>1 DEF Stream
<1>3. v2 \in Version /\ m.pmt_version \in Version /\ ResendCount \in Nat
  BY SMTT(40), <1>1, MuxerAssumption DEF Version, Muxer
<1>4. \/ n = state(TRUE, v2, TRUE, ResendCount)
      \/ n = state(FALSE, v2, TRUE, ResendCount)
      \/ n = state(s.suppressed, m.pmt_version, m.pmt_dirty, m.pmt_resend_count)
  <2>1. counted = state(s.suppressed, m.pmt_version, m.pmt_dirty, m.pmt_resend_count)
    <3>1. [s EXCEPT !.silence = quiet] = new(s.suppressed)
      BY <1>1 DEF Stream
    <3>2. counted = [m EXCEPT !.audio_streams = [m.audio_streams EXCEPT ![i] = [s EXCEPT !.silence = quiet]]]
      BY <1>1 DEF Muxer
    <3> DEFINE t == [m.audio_streams EXCEPT ![i] = new(s.suppressed)]
    <3>3. counted = [m EXCEPT !.audio_streams = t]
      BY <3>1, <3>2
    <3> HIDE DEF t
    <3>4. [m EXCEPT !.audio_streams = t] =
            [m EXCEPT !.audio_streams = t, !.pmt_version = m.pmt_version, !.pmt_dirty = m.pmt_dirty,
                      !.pmt_resend_count = m.pmt_resend_count]
      BY <1>1 DEF Muxer
    <3>5. QED
      BY <3>3, <3>4 DEF t
  <2>2. ASSUME NEW b \in BOOLEAN
        PROVE  Resend([counted EXCEPT !.audio_streams[i].suppressed = b]) = state(b, v2, TRUE, ResendCount)
    <3> DEFINE a == [m.audio_streams EXCEPT ![i] = [s EXCEPT !.silence = quiet]]
               t == [m.audio_streams EXCEPT ![i] = new(b)]
    <3>1. counted = [m EXCEPT !.audio_streams = a]
      BY <1>1 DEF Muxer
    <3>2. a[i] = [s EXCEPT !.silence = quiet] /\ a \in Seq(Stream)
      <4>1. [s EXCEPT !.silence = quiet] \in Stream
        BY <1>1 DEF Stream
      <4>2. QED
        BY <1>1, <4>1
    <3>3. [a EXCEPT ![i].suppressed = b] = t
      <4>1. [[s EXCEPT !.silence = quiet] EXCEPT !.suppressed = b] = new(b)
        BY <1>1 DEF Stream
      <4>2. [a EXCEPT ![i].suppressed = b] = [a EXCEPT ![i] = [[s EXCEPT !.silence = quiet] EXCEPT !.suppressed = b]]
        BY <1>1, <3>2
      <4> DEFINE x == new(b)
                 y == [s EXCEPT !.silence = quiet]
      <4> HIDE DEF x, y
      <4>3. [[m.audio_streams EXCEPT ![i] = y] EXCEPT ![i] = x] = [m.audio_streams EXCEPT ![i] = x]
        BY <1>1
      <4>4. QED
        BY <4>1, <4>2, <4>3 DEF x, y
    <3> HIDE DEF a, t
    <3>4. [counted EXCEPT !.audio_streams[i].suppressed = b] = [m EXCEPT !.audio_streams = t]
      BY ZenonT(40), <1>1, <3>1, <3>3 DEF Muxer
    <3>5. Resend([m EXCEPT !.audio_streams = t]) =
            [m EXCEPT !.audio_streams = t, !.pmt_version = v2, !.pmt_dirty = TRUE, !.pmt_resend_count = ResendCount]
      BY <1>1 DEF Resend, NewVersion, Muxer
    <3>6. QED
      BY <3>4, <3>5 DEF t
  <2>4. n = Suppressed(counted, i) \/ n = Resumed(counted, i) \/ n = counted
    BY DEF Account
  <2>5. QED
    BY <2>1, <2>2, <2>4 DEF Suppressed, Resumed
<1> HIDE DEF n, new, quiet, v2
<1>5. ASSUME NEW b \in BOOLEAN, NEW v \in Version, NEW d \in BOOLEAN, NEW r \in Nat, n = state(b, v, d, r)
      PROVE  /\ Alike(m, n) /\ n.pat_pmt_emitted = m.pat_pmt_emitted
             /\ n.pmt_dirty = d /\ n.pmt_resend_count = r
             /\ \A j \in DOMAIN m.audio_streams :
                  n.audio_streams[j].suppressed = IF j = i THEN b ELSE m.audio_streams[j].suppressed
  <2> DEFINE t == [m.audio_streams EXCEPT ![i] = new(b)]
  <2>1. /\ t \in Seq(Stream) /\ Len(t) = Len(m.audio_streams) /\ DOMAIN t = DOMAIN m.audio_streams
        /\ \A j \in DOMAIN m.audio_streams : t[j] = IF j = i THEN new(b) ELSE m.audio_streams[j]
    BY <1>1, <1>2
  <2> HIDE DEF t
  <2>2. \A j \in DOMAIN m.audio_streams :
          /\ t[j].pid = m.audio_streams[j].pid /\ t[j].kind = m.audio_streams[j].kind
          /\ t[j].cc = m.audio_streams[j].cc
          /\ t[j].suppressed = IF j = i THEN b ELSE m.audio_streams[j].suppressed
    BY <1>1, <1>2, <2>1
  <2>3. /\ n \in Muxer /\ n.audio_streams = t /\ n.output = m.output
        /\ n.video_enabled = m.video_enabled /\ n.video_codec = m.video_codec
        /\ n.sparse_enabled = m.sparse_enabled /\ n.pmt_dirty = d
        /\ n.pat_pmt_emitted = m.pat_pmt_emitted /\ n.pmt_resend_count = r
        /\ n.pat_cc = m.pat_cc /\ n.pmt_cc = m.pmt_cc /\ n.video_cc = m.video_cc
    <3>1. n = [m EXCEPT !.audio_streams = t, !.pmt_version = v, !.pmt_dirty = d, !.pmt_resend_count = r]
      BY <1>5 DEF t
    <3>2. QED
      BY <1>1, <2>1, <3>1 DEF Muxer
  <2>4. MuxerOK(n)
    <3>1. t # <<>> /\ 1 \in DOMAIN m.audio_streams
      BY <2>1, StreamFacts
    <3>2. SameStreams(m, n)
      BY <2>1, <2>2, <2>3 DEF SameStreams
    <3>3. Known(n)
      BY <3>2, KnownStill
    <3>4. QED
      BY <1>1, <2>1, <2>2, <2>3, <3>1, <3>3 DEF MuxerOK
  <2>5. QED
    BY <2>1, <2>2, <2>3, <2>4 DEF Alike, SameStreams
<1> HIDE DEF state
<1>6. /\ Alike(m, n) /\ n.pat_pmt_emitted = m.pat_pmt_emitted
      /\ \/ n.pmt_dirty /\ n.pmt_resend_count = ResendCount
         \/ /\ n.pmt_dirty = m.pmt_dirty
            /\ \A j \in DOMAIN m.audio_streams :
                 n.audio_streams[j].suppressed = m.audio_streams[j].suppressed
  <2>1. s.suppressed \in BOOLEAN /\ m.pmt_dirty \in BOOLEAN /\ m.pmt_resend_count \in Nat
    BY <1>1 DEF Stream, Muxer
  <2>2. CASE n = state(TRUE, v2, TRUE, ResendCount)
    BY <1>3, <1>5, <2>2
  <2>3. CASE n = state(FALSE, v2, TRUE, ResendCount)
    BY <1>3, <1>5, <2>3
  <2>4. CASE n = state(s.suppressed, m.pmt_version, m.pmt_dirty, m.pmt_resend_count)
    <3>1. /\ Alike(m, n) /\ n.pat_pmt_emitted = m.pat_pmt_emitted /\ n.pmt_dirty = m.pmt_dirty
          /\ \A j \in DOMAIN m.audio_streams :
               n.audio_streams[j].suppressed = IF j = i THEN s.suppressed ELSE m.audio_streams[j].suppressed
      BY <1>3, <1>5, <2>1, <2>4
    <3>2. QED
      BY <3>1
  <2>5. QED
    BY <1>4, <2>2, <2>3, <2>4
<1>7. QED
  BY <1>6 DEF n

-----------------------------------------------------------------------------
(* A muxer that may have written tables, and is otherwise as it was.        *)
Retabled(m, n) ==
  /\ MuxerOK(n) /\ \A E : E \subseteq Entries(m) => WritesTables(m, n, E, 0)
  /\ n.audio_streams = m.audio_streams /\ n.pmt_dirty = m.pmt_dirty /\ Entries(n) = Entries(m)
  /\ m.pat_pmt_emitted => n.pat_pmt_emitted
  /\ \A old : Announced(m, old) => Announced(n, old)

LEMMA RetabledFacts ==
  ASSUME NEW m, MuxerOK(m), NEW pts \in Nat
  PROVE  /\ Retabled(m, FirstTables(m, pts)) /\ FirstTables(m, pts).pat_pmt_emitted
         /\ Retabled(m, ResentTables(m, pts))
         /\ m.pmt_resend_count > 0 =>
              \A E : E \subseteq Entries(m) => WritesTables(m, ResentTables(m, pts), E, 1)
         /\ Retabled(m, PeriodicTables(m, pts))
<1> DEFINE state(e, d, r) == AfterTables(m, pts, e, d, r)
<1>1. m.pat_pmt_emitted \in BOOLEAN /\ m.pmt_dirty \in BOOLEAN /\ m.pmt_resend_count \in Nat
  BY DEF MuxerOK, Muxer
<1>2. Retabled(m, m)
  BY WritesTablesNothing DEF Retabled
<1>3. ASSUME NEW e \in BOOLEAN, NEW r \in Nat, m.pat_pmt_emitted => e
      PROVE  LET n == state(e, m.pmt_dirty, r) IN
             /\ Retabled(m, n) /\ n.pat_pmt_emitted = e
             /\ \A E : E \subseteq Entries(m) => WritesTables(m, n, E, 1)
  <2> DEFINE d == m.pmt_dirty
             n == state(e, d, r)
  <2>1. d \in BOOLEAN
    BY <1>1
  <2> HIDE DEF d
  <2>2. Refreshed(m, n, e, d, r)
    BY <1>3, <2>1, TablesWritten
  <2> HIDE DEF n
  <2>3. Retabled(m, n)
    BY <1>3, <2>2 DEF Retabled, Refreshed, d
  <2>4. QED
    BY <2>2, <2>3 DEF Refreshed, n, d
<1>4. /\ WritePsiAt(m, pts) \in Muxer /\ WritePsiAt(m, pts).pmt_dirty = m.pmt_dirty
      /\ WritePsiAt(m, pts).pat_pmt_emitted = m.pat_pmt_emitted
      /\ WritePsiAt(m, pts).pmt_resend_count = m.pmt_resend_count
  BY WritePsiFacts DEF Writes, MuxerOK
<1>5. Retabled(m, FirstTables(m, pts)) /\ FirstTables(m, pts).pat_pmt_emitted
  <2>1. [WritePsiAt(m, pts) EXCEPT !.pat_pmt_emitted = TRUE] = state(TRUE, m.pmt_dirty, m.pmt_resend_count)
    <3> DEFINE k == WritePsiAt(m, pts)
    <3> HIDE DEF k
    <3>1. [k EXCEPT !.pat_pmt_emitted = TRUE] =
            [k EXCEPT !.pat_pmt_emitted = TRUE, !.pmt_dirty = k.pmt_dirty, !.pmt_resend_count = k.pmt_resend_count]
      BY <1>4 DEF Muxer, k
    <3>2. QED
      BY <1>4, <3>1 DEF k, AfterTables
  <2>2. CASE m.pat_pmt_emitted
    BY <1>2, <2>2 DEF FirstTables
  <2>3. CASE ~m.pat_pmt_emitted
    <3> DEFINE e == TRUE
               c == m.pmt_resend_count
    <3>1. e \in BOOLEAN /\ c \in Nat /\ e = TRUE
      BY <1>1
    <3>2. FirstTables(m, pts) = state(e, m.pmt_dirty, c)
      BY <2>1, <2>3 DEF FirstTables
    <3> HIDE DEF e, c, state
    <3>3. QED
      BY <1>3, <3>1, <3>2
  <2>4. QED
    BY <2>2, <2>3
<1>6. /\ Retabled(m, ResentTables(m, pts))
      /\ m.pmt_resend_count > 0 =>
           \A E : E \subseteq Entries(m) => WritesTables(m, ResentTables(m, pts), E, 1)
  <2>1. SUFFICES ASSUME m.pmt_resend_count > 0
                 PROVE  /\ Retabled(m, ResentTables(m, pts))
                        /\ \A E : E \subseteq Entries(m) => WritesTables(m, ResentTables(m, pts), E, 1)
    BY <1>2 DEF ResentTables
  <2> DEFINE k == WritePsiAt(m, pts)
             r == m.pmt_resend_count - 1
  <2>2. r \in Nat
    BY <1>1, <2>1
  <2>3. ResentTables(m, pts) = [k EXCEPT !.pmt_resend_count = r]
    BY <1>4, <2>1 DEF ResentTables
  <2> HIDE DEF k, r
  <2>4. [k EXCEPT !.pmt_resend_count = r] =
          [k EXCEPT !.pat_pmt_emitted = k.pat_pmt_emitted, !.pmt_dirty = k.pmt_dirty, !.pmt_resend_count = r]
    BY <1>4 DEF Muxer, k
  <2>5. ResentTables(m, pts) = state(m.pat_pmt_emitted, m.pmt_dirty, r)
    BY <1>4, <2>3, <2>4 DEF k, AfterTables
  <2> HIDE DEF state
  <2>6. QED
    BY <1>1, <1>3, <2>2, <2>5
<1>7. Retabled(m, PeriodicTables(m, pts))
  <2> DEFINE k == WritePsiAt(m, pts)
  <2> HIDE DEF k
  <2>1. k = [k EXCEPT !.pat_pmt_emitted = k.pat_pmt_emitted, !.pmt_dirty = k.pmt_dirty,
                      !.pmt_resend_count = k.pmt_resend_count]
    BY <1>4 DEF Muxer, k
  <2>2. k = state(m.pat_pmt_emitted, m.pmt_dirty, m.pmt_resend_count)
    BY <1>4, <2>1 DEF k, AfterTables
  <2>3. Retabled(m, k)
    BY <1>1, <1>3, <2>2
  <2>4. PeriodicTables(m, pts) = m \/ PeriodicTables(m, pts) = k
    BY DEF PeriodicTables, k
  <2>5. QED
    BY <1>2, <2>3, <2>4
<1>8. QED
  BY <1>5, <1>6, <1>7

(* A push: tables, then the PES of au, on a PID that they announce.  Those  *)
(* of a keyframe announce the video; all of them list what is announced     *)
(* after the push, and there are two where that is more than before it.     *)
EndsTableOfVideo(p) ==
  /\ p.pid = PmtPid /\ p.part = PsiParts(p.table.size)
  /\ \E e \in p.table.entries : e.pid = Video
Renews(u, m, n) ==
  /\ Listing(u, Entries(n), m)
  /\ ResendCount > 0 => Entries(n) \subseteq Entries(m) \/ Again(u)
Pushed(m, n, pid, au, key, old) ==
  \E k : \E u \in Seq(PsiPkt) : \E w \in Seq(PesPkt) :
    /\ Whole(u) /\ Writes(m, u, k) /\ Writes(k, w, n) /\ Carries(w, n, pid, au, key)
    /\ Announced(n, old) /\ ~n.pmt_dirty /\ Fresh(n) /\ Renews(u, m, n)
    /\ key => \E i \in DOMAIN u : EndsTableOfVideo(u[i])

LEMMA AnnouncedStill ==
  ASSUME NEW k, NEW n, NEW w \in Seq(PesPkt), NEW old, MuxerOK(k), Writes(k, w, n), Announced(k, old),
         \A T : UpToDate(T, k) => UpToDate(T, n)
  PROVE  Announced(n, old)
<1>1. PICK T : Says(k.output, old, T) /\ UpToDate(T, k)
  BY DEF Announced
<1>2. k.output \in Seq(Packet) /\ w \in Seq(Packet) /\ n.output = k.output \o w
  BY StreamFacts, SeqPackets DEF Writes
<1>3. \A i \in 1..Len(w) : w[i].pid # PmtPid
  <2>1. \A p \in PesPkt : p.pid # PmtPid
    BY PidFacts DEF PesPkt
  <2>2. QED
    BY <2>1
<1>4. Says(n.output, old, T)
  BY <1>1, <1>2, <1>3, SaysNothing
<1>5. QED
  BY <1>1, <1>4 DEF Announced

LEMMA CarriesNothing ==
  ASSUME NEW m, MuxerOK(m), NEW pid, NEW au
  PROVE  <<>> \in Seq(PesPkt) /\ Carries(<<>>, m, pid, au, FALSE) /\ Writes(m, <<>>, m)
<1>1. <<>> \in Seq(PesPkt) /\ Carries(<<>>, m, pid, au, FALSE)
  BY DEF Carries, Unbroken
<1>2. <<>> \in Seq(Packet) /\ \A i \in 1..Len(<<>>) : FALSE
  OBVIOUS
<1>3. \A p \in AllPids : Chained(<<>>, p, Counter(m, p), Counter(m, p))
  BY <1>2, ChainNone, CounterFacts
<1>4. m.output = m.output \o <<>>
  BY StreamFacts, ConcatEmptySeq
<1>5. QED
  BY <1>1, <1>3, <1>4 DEF Writes, SameStreams

LEMMA PcmPushed ==
  ASSUME NEW m, MuxerOK(m), ~m.pmt_dirty, Fresh(m), NEW i \in DOMAIN m.audio_streams,
         m.audio_streams[i].kind = "s302m", NEW pid \in Pids, m.audio_streams[i].pid = pid,
         NEW au \in Pids \X (Nat \ {0}), NEW len \in Nat, NEW pts \in Nat, NEW silent \in BOOLEAN,
         NEW old, Announced(m, old)
  PROVE  Pushed(m, PushPcmStream(m, i, au, len, pts, silent), pid, au, FALSE, old)
<1> DEFINE l == 4 + len
           first == FirstTables(m, pts)
           counted == IF first.sparse_enabled THEN Account(first, i, silent) ELSE first
           dirty == DirtyTables(counted, pts)
           resent == ResentTables(dirty, pts)
           tables == PeriodicTables(resent, pts)
           n == PushPcmStream(m, i, au, len, pts, silent)
           E == Entries(counted)
<1>1. /\ Retabled(m, first) /\ first.pat_pmt_emitted /\ MuxerOK(first)
      /\ first = m \/ Entries(m) = AllEntries(m)
  <2>1. Retabled(m, first) /\ first.pat_pmt_emitted
    BY RetabledFacts
  <2>2. CASE m.pat_pmt_emitted
    BY <2>1, <2>2 DEF FirstTables, Retabled
  <2>3. CASE ~m.pat_pmt_emitted
    BY <2>1, <2>3, AllEntriesFacts DEF Fresh, Retabled
  <2>4. QED
    BY <2>2, <2>3
<1>2. first.sparse_enabled = m.sparse_enabled /\ SameStreams(m, first)
  <2>1. WritesTables(m, first, {}, 0)
    BY <1>1 DEF Retabled
  <2>2. QED
    BY <2>1 DEF WritesTables, Writes, SameStreams
<1>3. n = IF m.sparse_enabled /\ counted.audio_streams[i].suppressed THEN tables
          ELSE WriteAudio(tables, i, au, l)
  BY <1>2 DEF PushPcmStream
<1>4. l \in Nat \ {0}
  OBVIOUS
<1> HIDE DEF first, n, l, E
<1>5. /\ Alike(first, counted) /\ counted.pat_pmt_emitted
      /\ \/ counted.pmt_dirty /\ counted.pmt_resend_count = ResendCount
         \/ \A j \in DOMAIN first.audio_streams :
              counted.audio_streams[j].suppressed = first.audio_streams[j].suppressed
  <2>1. CASE first.sparse_enabled
    <3>1. MuxerOK(first) /\ i \in DOMAIN first.audio_streams /\ first.audio_streams[i].kind = "s302m"
      BY <1>1 DEF Retabled
    <3>2. QED
      BY <1>1, <2>1, <3>1, AccountFacts
  <2>2. CASE ~first.sparse_enabled
    BY <1>1, <2>2 DEF Retabled, Alike, SameStreams
  <2>3. QED
    BY <2>1, <2>2
<1> HIDE DEF counted
<1>6. MuxerOK(counted) /\ WritesTables(m, counted, E, 0)
  <2>1. MuxerOK(counted) /\ SameStreams(first, counted)
    BY <1>5 DEF Alike
  <2>2. WritesTables(m, first, E, 0)
    <3>1. CASE first = m
      BY <3>1, WritesTablesNothing
    <3>2. CASE Entries(m) = AllEntries(m)
      <4>1. AllEntries(counted) = AllEntries(m)
        BY <1>1, <1>2, <2>1, SameAll
      <4>2. E \subseteq Entries(m)
        BY <2>1, <3>2, <4>1, AllEntriesFacts DEF E
      <4>3. QED
        BY <1>1, <4>2 DEF Retabled
    <3>3. QED
      BY <1>1, <3>1, <3>2
  <2>3. WritesTables(first, counted, E, 0)
    BY <1>1, <1>5, AlikeWritesTables
  <2>4. WritesTables(m, counted, E, 0 + 0)
    <3> DEFINE z == 0
    <3>1. z \in Nat /\ WritesTables(m, first, E, z) /\ WritesTables(first, counted, E, z)
      BY <2>2, <2>3
    <3> HIDE DEF z
    <3>2. WritesTables(m, counted, E, z + z)
      BY <3>1, WritesTablesTwice
    <3>3. QED
      BY <3>2 DEF z
  <2>5. QED
    BY <2>1, <2>4
<1> DEFINE t == IF counted.pmt_dirty THEN 1 ELSE 0
<1>7. /\ MuxerOK(dirty) /\ WritesTables(counted, dirty, E, t) /\ dirty.audio_streams = counted.audio_streams
      /\ ~dirty.pmt_dirty /\ Announced(dirty, old) /\ dirty.pat_pmt_emitted /\ Entries(dirty) = E
      /\ \/ t = 1 /\ dirty.pmt_resend_count = ResendCount
         \/ E = Entries(m)
  <2>1. CASE counted.pmt_dirty
    <3> DEFINE k == WritePsiAt(counted, pts)
               no == FALSE
               e == counted.pat_pmt_emitted
               r == counted.pmt_resend_count
               d == AfterTables(counted, pts, e, no, r)
    <3>1. e \in BOOLEAN /\ r \in Nat /\ no \in BOOLEAN
      BY <1>6 DEF MuxerOK, Muxer
    <3>2. k \in Muxer /\ k.pat_pmt_emitted = e /\ k.pmt_resend_count = r
      BY <1>6, WritePsiFacts DEF Writes, MuxerOK
    <3>3. /\ MuxerOK(d) /\ WritesTables(counted, d, E, 1) /\ d.audio_streams = counted.audio_streams
          /\ d.pmt_dirty = no /\ Announced(d, old) /\ d.pat_pmt_emitted = e /\ d.pmt_resend_count = r
          /\ Entries(d) = E
      <4> HIDE DEF e, r, no
      <4>1. MuxerOK(counted)
        BY <1>6
      <4>2. Refreshed(counted, d, e, no, r)
        BY <3>1, <4>1, TablesWritten
      <4>3. QED
        BY <4>2 DEF Refreshed, E
    <3>4. dirty = [k EXCEPT !.pmt_dirty = no]
      BY <2>1 DEF DirtyTables
    <3> HIDE DEF k, d
    <3>5. [k EXCEPT !.pmt_dirty = no] = d
      <4> HIDE DEF e, r
      <4>1. d = [k EXCEPT !.pat_pmt_emitted = e, !.pmt_dirty = no, !.pmt_resend_count = r]
        BY DEF AfterTables, k, d
      <4>2. QED
        BY <3>2, <4>1 DEF Muxer
    <3>6. t = 1 /\ ((e /\ r = ResendCount) \/ E = Entries(m))
      <4>1. CASE r = ResendCount
        BY <1>5, <2>1, <4>1
      <4>2. CASE \A j \in DOMAIN first.audio_streams :
                   counted.audio_streams[j].suppressed = first.audio_streams[j].suppressed
        <5>1. Entries(counted) = Entries(first)
          BY <1>1, <1>5, <1>6, <4>2, SameTables DEF Alike
        <5>2. QED
          BY <1>1, <2>1, <5>1 DEF Retabled, E
      <4>3. QED
        BY <1>5, <4>1, <4>2
    <3>7. QED
      BY <1>5, <3>3, <3>4, <3>5, <3>6
  <2>2. CASE ~counted.pmt_dirty
    <3>1. dirty = counted
      BY <2>2 DEF DirtyTables
    <3>2. Announced(first, old) /\ MuxerOK(first) /\ Entries(first) = Entries(m)
      BY <1>1 DEF Retabled
    <3>3. Entries(counted) = Entries(first) /\ \A T : UpToDate(T, first) => UpToDate(T, counted)
      <4>1. \A j \in DOMAIN first.audio_streams :
              counted.audio_streams[j].suppressed = first.audio_streams[j].suppressed
        BY <1>5, <2>2
      <4>2. QED
        BY <1>5, <1>6, <3>2, <4>1, SameTables DEF Alike
    <3>4. Announced(counted, old)
      BY <1>5, <3>2, <3>3 DEF Announced, Alike
    <3>5. WritesTables(counted, counted, E, t)
      BY <1>6, <2>2, WritesTablesNothing
    <3>6. QED
      BY <1>5, <1>6, <2>2, <3>1, <3>2, <3>3, <3>4, <3>5 DEF E
  <2>3. QED
    BY <2>1, <2>2
<1> HIDE DEF dirty
<1> DEFINE r == IF dirty.pmt_resend_count > 0 THEN 1 ELSE 0
<1>8. /\ Retabled(dirty, resent) /\ MuxerOK(resent) /\ WritesTables(dirty, resent, E, r)
      /\ Entries(resent) = E
  <2>1. Retabled(dirty, resent) /\ MuxerOK(resent)
    <3>1. Retabled(dirty, resent)
      BY <1>7, RetabledFacts
    <3>2. QED
      BY <3>1 DEF Retabled
  <2>2. CASE dirty.pmt_resend_count > 0
    BY <1>7, <2>1, <2>2, RetabledFacts DEF Retabled
  <2>3. CASE ~(dirty.pmt_resend_count > 0)
    BY <1>7, <2>1, <2>3 DEF Retabled
  <2>4. QED
    BY <2>2, <2>3
<1> HIDE DEF resent
<1>9. Retabled(resent, tables)
  BY <1>8, RetabledFacts
<1> HIDE DEF tables
<1>10. /\ MuxerOK(tables) /\ tables.audio_streams = counted.audio_streams /\ ~tables.pmt_dirty
       /\ Announced(tables, old) /\ Entries(tables) = E /\ tables.pat_pmt_emitted
  BY <1>7, <1>8, <1>9 DEF Retabled
<1>11. WritesTables(m, tables, E, t + r)
  <2> DEFINE z == 0
  <2>1. t \in Nat /\ r \in Nat /\ z \in Nat /\ z + t = t /\ (t + r) + z = t + r /\ t + r \in Nat
    OBVIOUS
  <2>2. WritesTables(m, counted, E, z) /\ WritesTables(resent, tables, E, z)
    BY <1>6, <1>8, <1>9 DEF Retabled
  <2> HIDE DEF z, t, r
  <2>3. WritesTables(m, dirty, E, z + t)
    BY <1>6, <1>7, <2>1, <2>2, WritesTablesTwice
  <2>4. WritesTables(m, resent, E, t + r)
    BY <1>7, <1>8, <2>1, <2>3, WritesTablesTwice
  <2>5. WritesTables(m, tables, E, (t + r) + z)
    <3> DEFINE x == t + r
    <3>1. x \in Nat /\ WritesTables(m, resent, E, x)
      BY <2>1, <2>4
    <3> HIDE DEF x
    <3>2. WritesTables(m, tables, E, x + z)
      BY <1>8, <2>1, <2>2, <3>1, WritesTablesTwice
    <3>3. QED
      BY <3>2 DEF x
  <2>6. QED
    BY <2>1, <2>5
<1>12. PICK u \in Seq(PsiPkt) : Whole(u) /\ Writes(m, u, tables) /\ Listing(u, E, m) /\ Times(u, t + r)
  BY <1>11 DEF WritesTables
<1>13. ResendCount > 0 => E \subseteq Entries(m) \/ Again(u)
  <2>1. SUFFICES ASSUME ResendCount > 0, E # Entries(m) PROVE Again(u)
    OBVIOUS
  <2>2. t = 1 /\ r = 1
    BY <1>7, <2>1
  <2>3. QED
    BY <1>12, <2>2 DEF Times
<1>14. Fresh(tables)
  BY <1>10 DEF Fresh
<1> HIDE DEF t, r
<1>15. CASE m.sparse_enabled /\ counted.audio_streams[i].suppressed
  <2>1. n = tables
    BY <1>3, <1>15
  <2>2. <<>> \in Seq(PesPkt) /\ Carries(<<>>, n, pid, au, FALSE) /\ Writes(tables, <<>>, n)
    BY <1>10, <2>1, CarriesNothing
  <2>3. QED
    BY <1>10, <1>12, <1>13, <1>14, <2>1, <2>2 DEF Pushed, Renews, n
<1>16. CASE ~(m.sparse_enabled /\ counted.audio_streams[i].suppressed)
  <2>1. n = WriteAudio(tables, i, au, l)
    BY <1>3, <1>16
  <2>2. SameStreams(m, tables)
    BY <1>12 DEF Writes
  <2>3. /\ i \in DOMAIN tables.audio_streams /\ tables.audio_streams[i].pid = pid
        /\ ~(tables.sparse_enabled /\ tables.audio_streams[i].suppressed)
    <3>1. DOMAIN tables.audio_streams = DOMAIN m.audio_streams
      BY <1>10, <2>2, SameCounters
    <3>2. QED
      BY <1>10, <1>16, <2>2, <3>1 DEF SameStreams
  <2>5. /\ \E w : Carries(w, n, pid, au, FALSE) /\ Writes(tables, w, n)
        /\ \A T : UpToDate(T, tables) => UpToDate(T, n)
        /\ n.pmt_dirty = tables.pmt_dirty /\ Entries(n) = E /\ Fresh(n)
    <3>1. MuxerOK(tables)
      BY <1>10
    <3>2. AudioWritten(tables, WriteAudio(tables, i, au, l), pid, au)
      BY <1>4, <2>3, <3>1, WriteAudioFacts
    <3>3. QED
      BY <1>10, <1>14, <2>1, <3>2 DEF AudioWritten
  <2>6. PICK w : Carries(w, n, pid, au, FALSE) /\ Writes(tables, w, n)
    BY <2>5
  <2>7. w \in Seq(PesPkt)
    BY <2>6 DEF Carries
  <2>8. Announced(n, old)
    BY <1>10, <2>5, <2>6, <2>7, AnnouncedStill
  <2>9. QED
    BY <1>10, <1>12, <1>13, <2>5, <2>6, <2>7, <2>8 DEF Pushed, Renews, n
<1>17. QED
  BY <1>15, <1>16

LEMMA VideoPushed ==
  ASSUME NEW m, MuxerOK(m), ~m.pmt_dirty, Fresh(m), m.video_enabled,
         NEW au \in Pids \X (Nat \ {0}), NEW len \in Lens, NEW pts \in Nat, NEW key \in BOOLEAN,
         NEW old, Announced(m, old)
  PROVE  Pushed(m, PushVideo(m, au, len, pts, key), Video, au, key, old)
<1> DEFINE k == IF key THEN [WritePsiAt(m, pts) EXCEPT !.pat_pmt_emitted = TRUE] ELSE m
           n == PushVideo(m, au, len, pts, key)
<1>1. /\ MuxerOK(k) /\ k.video_cc = m.video_cc /\ ~k.pmt_dirty /\ Announced(k, old)
      /\ Fresh(k) /\ Entries(k) = Entries(m)
      /\ \E u \in Seq(PsiPkt) : /\ Whole(u) /\ Writes(m, u, k) /\ Listing(u, Entries(m), m)
                                /\ key => \E i \in DOMAIN u : EndsTableOfVideo(u[i])
  <2>1. CASE key
    <3> DEFINE p == WritePsiAt(m, pts)
               d == m.pmt_dirty
               r == m.pmt_resend_count
               e == TRUE
    <3>1. k = AfterTables(m, pts, e, d, r)
      <4>1. k = [p EXCEPT !.pat_pmt_emitted = e]
        BY <2>1
      <4>2. p \in Muxer /\ p.pmt_dirty = d /\ p.pmt_resend_count = r
        BY WritePsiFacts DEF Writes, MuxerOK
      <4>3. AfterTables(m, pts, e, d, r) = [p EXCEPT !.pat_pmt_emitted = e, !.pmt_dirty = d, !.pmt_resend_count = r]
        BY DEF AfterTables
      <4> HIDE DEF p, d, r, e, k
      <4>4. [p EXCEPT !.pat_pmt_emitted = e] = [p EXCEPT !.pat_pmt_emitted = e, !.pmt_dirty = d, !.pmt_resend_count = r]
        BY <4>2 DEF Muxer
      <4>5. QED
        BY <4>1, <4>3, <4>4
    <3>2. e \in BOOLEAN /\ d \in BOOLEAN /\ r \in Nat
      BY DEF MuxerOK, Muxer
    <3> HIDE DEF e, d, r, k
    <3>3. Refreshed(m, k, e, d, r) /\ e
      BY <3>1, <3>2, TablesWritten DEF e
    <3>4. \E i \in DOMAIN Psi(m) : EndsTableOfVideo(Psi(m)[i])
      <4> DEFINE l == PsiParts(TableOf(m).size)
                 x == Psi(m)[1 + l]
      <4>1. l \in Nat \ {0} /\ Len(Psi(m)) = 1 + l /\ 1 + l \in 2..Len(Psi(m)) /\ 1 + l \in DOMAIN Psi(m)
        BY PmtPacketsFacts, PsiFacts
      <4>2. x.pid = PmtPid /\ x.part = l /\ x.table = TableOf(m)
        <5>1. x.pid = PmtPid /\ x.part = (1 + l) - 1 /\ x.table = TableOf(m)
          BY <4>1, PsiFacts
        <5>2. QED
          BY <4>1, <5>1
      <4>3. [pid |-> Video, kind |-> m.video_codec] \in TableOf(m).entries
        BY TableFacts DEF Entries
      <4>4. EndsTableOfVideo(x)
        BY <4>2, <4>3 DEF EndsTableOfVideo
      <4>5. QED
        BY <4>1, <4>4
    <3>5. QED
      BY <3>3, <3>4, PsiFacts DEF Refreshed, Fresh, d
  <2>2. CASE ~key
    <3>1. WritesTables(m, m, Entries(m), 0)
      BY WritesTablesNothing
    <3>2. QED
      BY <2>2, <3>1 DEF WritesTables
  <2>3. QED
    BY <2>1, <2>2
<1>2. k.video_enabled
  BY <1>1 DEF Writes, SameStreams
<1>3. n = WriteVideo(k, au, len, key)
  <2>1. n = LET w == Packetize(Video, m.video_cc, BuildPes(au, len, FALSE), TRUE, key)
            IN [k EXCEPT !.output = @ \o w, !.video_cc = (@ + Len(w)) % CcModulus]
    BY DEF PushVideo
  <2> HIDE DEF k, n
  <2>2. QED
    BY <1>1, <2>1 DEF WriteVideo
<1> HIDE DEF k, n
<1>4. VideoWritten(k, n, au, key)
  BY <1>1, <1>2, <1>3, WriteVideoFacts
<1>5. PICK w : Carries(w, n, Video, au, key) /\ Writes(k, w, n)
  BY <1>4 DEF VideoWritten
<1>6. w \in Seq(PesPkt)
  BY <1>5 DEF Carries
<1>7. Announced(n, old) /\ ~n.pmt_dirty /\ Fresh(n) /\ Entries(n) = Entries(m)
  BY <1>1, <1>4, <1>5, <1>6, AnnouncedStill DEF VideoWritten
<1>8. QED
  BY <1>1, <1>5, <1>6, <1>7 DEF Pushed, Renews, n

(* The first stream is the first of its kind.                               *)
LEMMA FirstOfFacts ==
  ASSUME NEW m, MuxerOK(m), NEW codec, m.audio_streams[1].kind = codec
  PROVE  FirstOf(m, codec) = 1
<1> DEFINE I == {i \in 1..Len(m.audio_streams) : m.audio_streams[i].kind = codec}
<1>1. 1 \in I /\ \A i \in I : i \in Nat /\ 1 <= i
  BY StreamFacts
<1>2. Min(I) = 1
  BY <1>1 DEF Min
<1>3. SelectInSeq(m.audio_streams, LAMBDA s : s.kind = codec) = 1
  BY <1>1, <1>2 DEF SelectInSeq
<1>4. QED
  BY <1>3 DEF FirstOf

LEMMA OpusPushed ==
  ASSUME NEW m, MuxerOK(m), ~m.pmt_dirty, Fresh(m), m.audio_streams[1].kind = "opus",
         NEW au \in Pids \X (Nat \ {0}), NEW len \in Nat, NEW old, Announced(m, old)
  PROVE  Pushed(m, PushAudio(m, au, len), FirstAudio, au, FALSE, old)
<1> DEFINE l == 2 + len
           i == 1
           pid == FirstAudio
           n == PushAudio(m, au, len)
<1>1. l \in Nat \ {0} /\ pid \in Pids /\ n = WriteAudio(m, i, au, l)
  BY FirstOfFacts, PidFacts DEF PushAudio
<1>2. i \in DOMAIN m.audio_streams /\ m.audio_streams[i].pid = pid /\ ~m.audio_streams[i].suppressed
  BY StreamFacts DEF MuxerOK, Stream
<1> HIDE DEF l, i, pid, n
<1>3. AudioWritten(m, n, pid, au)
  BY <1>1, <1>2, WriteAudioFacts
<1>4. PICK w : Carries(w, n, pid, au, FALSE) /\ Writes(m, w, n)
  BY <1>3 DEF AudioWritten
<1>5. w \in Seq(PesPkt)
  BY <1>4 DEF Carries
<1>6. Announced(n, old) /\ ~n.pmt_dirty /\ Fresh(n) /\ Entries(n) = Entries(m)
  BY <1>3, <1>4, <1>5, AnnouncedStill DEF AudioWritten
<1>7. PICK u \in Seq(PsiPkt) : Whole(u) /\ Writes(m, u, m) /\ Listing(u, Entries(m), m)
  BY WritesTablesNothing DEF WritesTables
<1>8. QED
  BY <1>4, <1>5, <1>6, <1>7 DEF Pushed, Renews, n, pid

LEMMA FirstPcmPushed ==
  ASSUME NEW m, MuxerOK(m), ~m.pmt_dirty, Fresh(m), m.audio_streams[1].kind = "s302m",
         NEW au \in Pids \X (Nat \ {0}), NEW len \in Nat, NEW pts \in Nat, NEW silent \in BOOLEAN,
         NEW old, Announced(m, old)
  PROVE  Pushed(m, PushPcm(m, au, len, pts, silent), FirstAudio, au, FALSE, old)
<1> DEFINE i == 1
           pid == FirstAudio
<1>1. pid \in Pids /\ PushPcm(m, au, len, pts, silent) = PushPcmStream(m, i, au, len, pts, silent)
  BY FirstOfFacts, PidFacts DEF PushPcm
<1>2. i \in DOMAIN m.audio_streams /\ m.audio_streams[i].pid = pid /\ m.audio_streams[i].kind = "s302m"
  BY StreamFacts
<1> HIDE DEF i, pid
<1>3. Pushed(m, PushPcmStream(m, i, au, len, pts, silent), pid, au, FALSE, old)
  BY <1>1, <1>2, PcmPushed
<1>4. QED
  BY <1>1, <1>3 DEF pid

LEMMA PcmPidPushed ==
  ASSUME NEW m, MuxerOK(m), ~m.pmt_dirty, Fresh(m), NEW i \in DOMAIN m.audio_streams,
         m.audio_streams[i].kind = "s302m", NEW pid \in Pids, m.audio_streams[i].pid = pid,
         NEW au \in Pids \X (Nat \ {0}), NEW len \in Nat, NEW pts \in Nat, NEW silent \in BOOLEAN,
         NEW old, Announced(m, old)
  PROVE  Pushed(m, PushPcmPid(m, pid, au, len, pts, silent), pid, au, FALSE, old)
<1>1. SelectInSeq(m.audio_streams, LAMBDA s : s.pid = pid) = i
  <2> DEFINE I == {j \in 1..Len(m.audio_streams) : m.audio_streams[j].pid = pid}
  <2>1. I = {i} /\ i \in Nat
    BY StreamFacts DEF MuxerOK
  <2>2. Min(I) = i
    BY <2>1 DEF Min
  <2>3. QED
    BY <2>1, <2>2 DEF SelectInSeq
<1>2. i # 0
  BY StreamFacts
<1>3. PushPcmPid(m, pid, au, len, pts, silent) = PushPcmStream(m, i, au, len, pts, silent)
  BY <1>1, <1>2 DEF PushPcmPid
<1>4. Pushed(m, PushPcmStream(m, i, au, len, pts, silent), pid, au, FALSE, old)
  BY PcmPushed
<1>5. QED
  BY <1>3, <1>4

-----------------------------------------------------------------------------
(* The inductive invariant, in parts.  First what is pushed, sent and lost. *)
Kind == {"h264", "hevc", "av1", "opus", "s302m"}
AccessUnit == [kind : Kind, key : BOOLEAN, parts : Nat]
Losses == Cardinality(lost) + psiLost

MuxerPart ==
  /\ MuxerOK(muxer) /\ muxer.output = <<>> /\ ~muxer.pmt_dirty /\ UpToDate(announced, muxer)
  /\ Fresh(muxer)
CountPart ==
  /\ now \in Nat /\ pushes \in 0..MaxPushes /\ psiLost \in Nat /\ Losses <= MaxLost
  /\ pushed \in [Pids -> Seq(AccessUnit)]
  /\ IsFiniteSet(lost) /\ lost \subseteq (Pids \X (Nat \ {0})) \X (Nat \ {0})
  /\ \A l \in lost : Sent(l[1])

(* What is on the wire is there once, and not lost.                         *)
Own(pid, au) == au[1] = pid /\ Sent(au)
WirePart ==
  /\ wire \in Seq(Packet)
  /\ \A i \in DOMAIN wire :
       IsPes(wire[i]) =>
         Own(wire[i].pid, wire[i].pes.au) /\ <<wire[i].pes.au, wire[i].part>> \notin lost
  /\ \A i, j \in DOMAIN wire :
       /\ IsPes(wire[i]) /\ IsPes(wire[j])
       /\ wire[i].pes.au = wire[j].pes.au /\ wire[i].part = wire[j].part
       => i = j

(* The wire counts on from what the check saw last, or from as many packets *)
(* later as were lost since.                                                *)
Behind(pid, from) ==
  checker.last[pid] # NoCc =>
    \E k \in 0..Losses : from = Mod(checker.last[pid] + 1 + k) /\ (k = 0 <=> ~upLost[pid])
ChainPart ==
  \A pid \in AllPids : \E from \in Cc :
    Chained(wire, pid, from, Counter(muxer, pid)) /\ Behind(pid, from)
CheckPart ==
  /\ checker \in [last : [AllPids -> Cc \cup {NoCc}], gaps : [AllPids -> Nat]]
  /\ upLost \in [AllPids -> BOOLEAN] /\ upRuns \in [AllPids -> Nat]

(* What is on the wire is announced.                                        *)
AnnouncedPart ==
  announced # NoTable =>
    \A i \in DOMAIN wire : IsPes(wire[i]) =>
      /\ \E e \in announced.entries : e.pid = wire[i].pid
      /\ wire[i].pcr => announced.pcr = wire[i].pid

LinkInv ==
  /\ MuxerPart /\ CountPart /\ WirePart /\ ChainPart /\ CheckPart /\ AnnouncedPart

(* Polling takes the output, and nothing else.                              *)
LEMMA PolledFacts ==
  ASSUME NEW n, MuxerOK(n)
  PROVE  /\ MuxerOK(Polled(n)) /\ Polled(n).output = <<>> /\ Polled(n).pmt_dirty = n.pmt_dirty
         /\ \A pid : Counter(Polled(n), pid) = Counter(n, pid)
         /\ \A T : UpToDate(T, n) => UpToDate(T, Polled(n))
         /\ SameStreams(n, Polled(n)) /\ Entries(Polled(n)) = Entries(n) /\ (Fresh(n) => Fresh(Polled(n)))
<1> DEFINE k == Polled(n)
<1>1. /\ k \in Muxer /\ k.output = <<>> /\ k.pmt_dirty = n.pmt_dirty
      /\ k.audio_streams = n.audio_streams /\ k.video_enabled = n.video_enabled
      /\ k.video_codec = n.video_codec /\ k.sparse_enabled = n.sparse_enabled
      /\ k.pat_cc = n.pat_cc /\ k.pmt_cc = n.pmt_cc /\ k.video_cc = n.video_cc
      /\ k.pat_pmt_emitted = n.pat_pmt_emitted
  <2>1. n \in Muxer /\ <<>> \in Seq(Packet) /\ k = [n EXCEPT !.output = <<>>]
    BY DEF Polled, MuxerOK
  <2> HIDE DEF k
  <2>2. QED
    BY <2>1 DEF Muxer
<1> HIDE DEF k
<1>2. MuxerOK(k) /\ SameStreams(n, k)
  <2>1. SameStreams(n, k)
    BY <1>1 DEF SameStreams
  <2>2. Known(k)
    BY <2>1, KnownStill
  <2>3. QED
    BY <1>1, <2>1, <2>2 DEF MuxerOK
<1>3. \A pid : Counter(k, pid) = Counter(n, pid)
  BY <1>1 DEF Counter, At
<1>4. Entries(k) = Entries(n) /\ \A T : UpToDate(T, n) => UpToDate(T, k)
  BY <1>1, <1>2, SameTables
<1>5. QED
  BY <1>1, <1>2, <1>3, <1>4 DEF k, Fresh

LEMMA IdFacts ==
  ASSUME LinkInv, NEW pid \in Pids
  PROVE  Id(pid) \in Pids \X (Nat \ {0}) /\ Id(pid)[1] = pid /\ Id(pid)[2] = Len(pushed[pid]) + 1
<1>1. pushed[pid] \in Seq(AccessUnit)
  BY DEF LinkInv, CountPart
<1>2. QED
  BY <1>1 DEF Id

(* Every push of Next is one of tables and a PES.                           *)
Pushes(m, pid, kind, key, step) ==
  /\ Push(m, pid, kind, key, step) /\ Pushed(muxer, m, pid, Id(pid), key, announced)
  /\ key => pid = Video
  /\ [pid |-> pid, kind |-> kind] \in AllEntries(muxer)

LEMMA NothingToSay == LinkInv => MuxerOK(muxer) /\ ~muxer.pmt_dirty /\ Announced(muxer, announced) /\ Fresh(muxer)
<1>1. LinkInv => Says(muxer.output, announced, announced)
  BY DEF LinkInv, MuxerPart, Says, TableStarts
<1>2. QED
  BY <1>1 DEF LinkInv, MuxerPart, Announced

LEMMA VideoFramePushed ==
  ASSUME LinkInv, NEW len \in Lens, NEW key \in BOOLEAN, NEW step \in Steps, VideoFrame(len, key, step)
  PROVE  \E kind \in Kind : \E m : Pushes(m, Video, kind, key, step)
<1>1. /\ MuxerOK(muxer) /\ ~muxer.pmt_dirty /\ muxer.video_enabled /\ Announced(muxer, announced)
      /\ muxer.video_codec \in Kind /\ Fresh(muxer)
  BY NothingToSay DEF VideoFrame, MuxerOK, Muxer, Kind
<1>2. Video \in Pids /\ Id(Video) \in Pids \X (Nat \ {0}) /\ len \in Nat /\ now + step \in Nat
  BY IdFacts, PidFacts, PathAssumption DEF LinkInv, CountPart
<1> DEFINE m == PushVideo(muxer, Id(Video), len, now + step, key)
           kind == muxer.video_codec
<1>3. Pushed(muxer, m, Video, Id(Video), key, announced)
  BY <1>1, <1>2, VideoPushed
<1>4. Push(m, Video, kind, key, step) /\ kind \in Kind
  BY <1>1 DEF VideoFrame
<1>5. [pid |-> Video, kind |-> kind] \in AllEntries(muxer)
  BY <1>1, AllEntriesFacts
<1> HIDE DEF m, kind
<1>6. QED
  BY <1>3, <1>4, <1>5 DEF Pushes

LEMMA OpusFramePushed ==
  ASSUME LinkInv, NEW len \in Lens, NEW step \in Steps, OpusFrame(len, step)
  PROVE  \E kind \in Kind : \E m : Pushes(m, FirstAudio, kind, FALSE, step)
<1>1. /\ MuxerOK(muxer) /\ ~muxer.pmt_dirty /\ Announced(muxer, announced)
      /\ muxer.audio_streams[1].kind = "opus" /\ Fresh(muxer)
  BY NothingToSay DEF OpusFrame
<1>2. FirstAudio \in Pids /\ Id(FirstAudio) \in Pids \X (Nat \ {0}) /\ len \in Nat
  BY IdFacts, PidFacts, PathAssumption
<1> DEFINE m == PushAudio(muxer, Id(FirstAudio), len)
           kind == "opus"
<1>3. Pushed(muxer, m, FirstAudio, Id(FirstAudio), FALSE, announced)
  BY <1>1, <1>2, OpusPushed
<1>4. Push(m, FirstAudio, kind, FALSE, step) /\ kind \in Kind
  BY DEF OpusFrame, Kind
<1>5. [pid |-> FirstAudio, kind |-> kind] \in AllEntries(muxer)
  <2>1. 1 \in DOMAIN muxer.audio_streams /\ muxer.audio_streams[1].pid = FirstAudio
    BY <1>1, StreamFacts
  <2>2. QED
    BY <1>1, <2>1, AllEntriesFacts
<1> HIDE DEF m, kind
<1>6. QED
  BY <1>3, <1>4, <1>5 DEF Pushes

LEMMA PcmFramePushed ==
  ASSUME LinkInv, NEW pid \in Pids, NEW len \in Lens, NEW silent \in BOOLEAN, NEW step \in Steps,
         PcmFrame(pid, len, silent, step)
  PROVE  \E kind \in Kind : \E m : Pushes(m, pid, kind, FALSE, step)
<1>1. MuxerOK(muxer) /\ ~muxer.pmt_dirty /\ Announced(muxer, announced) /\ Fresh(muxer)
  BY NothingToSay
<1>2. Id(pid) \in Pids \X (Nat \ {0}) /\ len \in Nat /\ now + step \in Nat
  BY IdFacts, PathAssumption DEF LinkInv, CountPart
<1>3. PICK i \in DOMAIN muxer.audio_streams :
        muxer.audio_streams[i].pid = pid /\ muxer.audio_streams[i].kind = "s302m"
  BY DEF PcmFrame
<1> DEFINE kind == "s302m"
<1>4. [pid |-> pid, kind |-> kind] \in AllEntries(muxer)
  BY <1>1, <1>3, AllEntriesFacts
<1>5. CASE pid = FirstAudio
  <2> DEFINE m == PushPcm(muxer, Id(pid), len, now + step, silent)
  <2>1. muxer.audio_streams[1].kind = "s302m"
    <3>1. 1 \in DOMAIN muxer.audio_streams /\ muxer.audio_streams[1].pid = pid
      BY <1>1, <1>5, StreamFacts
    <3>2. QED
      BY <1>1, <1>3, <3>1 DEF MuxerOK
  <2>2. Pushed(muxer, m, pid, Id(pid), FALSE, announced)
    BY <1>1, <1>2, <1>5, <2>1, FirstPcmPushed
  <2>3. Push(m, pid, kind, FALSE, step) /\ kind \in Kind
    BY <1>5 DEF PcmFrame, Kind
  <2> HIDE DEF m, kind
  <2>4. QED
    BY <1>4, <2>2, <2>3 DEF Pushes
<1>6. CASE pid # FirstAudio
  <2> DEFINE m == PushPcmPid(muxer, pid, Id(pid), len, now + step, silent)
  <2>1. Pushed(muxer, m, pid, Id(pid), FALSE, announced)
    BY <1>1, <1>2, <1>3, PcmPidPushed
  <2>2. Push(m, pid, kind, FALSE, step) /\ kind \in Kind
    BY <1>6 DEF PcmFrame, Kind
  <2> HIDE DEF m, kind
  <2>3. QED
    BY <1>4, <2>1, <2>2 DEF Pushes
<1>7. QED
  BY <1>5, <1>6

(* What a step is, to what is kept of the wire and of the demuxer.          *)
Step ==
  \/ \E pid \in Pids, kind \in Kind, key \in BOOLEAN, step \in Steps : \E m : Pushes(m, pid, kind, key, step)
  \/ LostOnUplink \/ LostOnDownlink \/ Carry \/ UNCHANGED vars
LEMMA NextIs == LinkInv /\ [Next]_vars => Step
<1> SUFFICES ASSUME LinkInv, [Next]_vars PROVE Step
  OBVIOUS
<1>1. ASSUME NEW len \in Lens, NEW key \in BOOLEAN, NEW step \in Steps, VideoFrame(len, key, step) PROVE Step
  BY <1>1, VideoFramePushed, PidFacts DEF Step
<1>2. ASSUME NEW len \in Lens, NEW step \in Steps, OpusFrame(len, step) PROVE Step
  BY <1>2, OpusFramePushed, PidFacts DEF Step
<1>3. ASSUME NEW pid \in Pids, NEW len \in Lens, NEW silent \in BOOLEAN, NEW step \in Steps,
             PcmFrame(pid, len, silent, step)
      PROVE  Step
  <2>1. \E kind \in Kind : \E m : Pushes(m, pid, kind, FALSE, step)
    BY <1>3, PcmFramePushed, Zenon
  <2>2. QED
    BY <2>1 DEF Step
<1>4. QED
  BY <1>1, <1>2, <1>3 DEF Next, Step

(* What a push leaves on the wire: u, of the tables, then w, of the PES.    *)
LEMMA PushedWire ==
  ASSUME NEW u \in Seq(PsiPkt), NEW w \in Seq(PesPkt)
  PROVE  LET x == u \o w IN
         /\ x \in Seq(Packet) /\ u \in Seq(Packet) /\ w \in Seq(Packet)
         /\ DOMAIN x = 1..(Len(u) + Len(w)) /\ Len(x) = Len(u) + Len(w)
         /\ \A i \in 1..Len(u) : i \in DOMAIN x /\ x[i] = u[i] /\ ~IsPes(x[i])
         /\ \A i \in 1..Len(w) : Len(u) + i \in DOMAIN x /\ x[Len(u) + i] = w[i] /\ IsPes(w[i])
         /\ \A i \in DOMAIN x : IsPes(x[i]) => i - Len(u) \in 1..Len(w) /\ x[i] = w[i - Len(u)]
<1> DEFINE x == u \o w
<1>1. u \in Seq(Packet) /\ w \in Seq(Packet)
  BY SeqPackets
<1>2. /\ x \in Seq(Packet) /\ DOMAIN x = 1..(Len(u) + Len(w)) /\ Len(x) = Len(u) + Len(w)
      /\ \A i \in 1..Len(u) : i \in DOMAIN x /\ x[i] = u[i]
      /\ \A i \in 1..Len(w) : Len(u) + i \in DOMAIN x /\ x[Len(u) + i] = w[i]
      /\ \A i \in DOMAIN x : i \in 1..Len(u) \/ (i - Len(u) \in 1..Len(w) /\ x[i] = w[i - Len(u)])
  BY <1>1
<1>3. (\A i \in 1..Len(u) : ~IsPes(u[i])) /\ (\A i \in 1..Len(w) : IsPes(w[i]))
  <2>1. \A i \in 1..Len(u) : u[i] \in PsiPkt
    OBVIOUS
  <2>2. \A i \in 1..Len(w) : w[i] \in PesPkt
    OBVIOUS
  <2>3. QED
    BY <2>1, <2>2, PacketFacts DEF PesPkt, IsPes
<1>4. QED
  BY <1>1, <1>2, <1>3

(* The units that were pushed stay, and a PES that is not empty is a new    *)
(* one.                                                                     *)
Units(m, pid, key) ==
  /\ pushed' \in [Pids -> Seq(AccessUnit)]
  /\ \A x \in Pids \X (Nat \ {0}) :
       Sent(x) => x[2] \in DOMAIN pushed'[x[1]] /\ pushed'[x[1]][x[2]] = Unit(x)
  /\ \A au : au = Id(pid) /\ (\E i \in DOMAIN m.output : m.output[i].pid = pid) =>
       au[2] \in DOMAIN pushed'[au[1]] /\ pushed'[au[1]][au[2]].key = key

LEMMA UnitsArePushed ==
  ASSUME LinkInv, NEW m, NEW pid \in Pids, NEW kind \in Kind, NEW key \in BOOLEAN, NEW step \in Steps,
         Push(m, pid, kind, key, step), m.output \in Seq(Packet)
  PROVE  Units(m, pid, key)
<1> DEFINE I == {i \in DOMAIN m.output : m.output[i].pid = pid}
           n == Parts(m.output, pid)
           new == [kind |-> kind, key |-> key, parts |-> n]
           l == Len(pushed[pid])
<1>1. n \in Nat /\ (I # {} => n # 0)
  <2>1. DOMAIN m.output = 1..Len(m.output) /\ Len(m.output) \in Nat
    OBVIOUS
  <2>2. IsFiniteSet(DOMAIN m.output)
    BY <2>1, FS_Interval
  <2>3. IsFiniteSet(I)
    BY <2>2, FS_Subset
  <2>4. QED
    BY <2>3, FS_CardinalityType, FS_EmptySet DEF Parts
<1>2. new \in AccessUnit /\ new.key = key
  BY <1>1 DEF AccessUnit
<1>3. pushed' = IF n = 0 THEN pushed ELSE [pushed EXCEPT ![pid] = Append(@, new)]
  BY DEF Push
<1>4. pushed \in [Pids -> Seq(AccessUnit)]
  BY DEF LinkInv, CountPart
<1> HIDE DEF n, new, I
<1>5. CASE n = 0
  <2>1. pushed' = pushed
    BY <1>3, <1>5
  <2>2. QED
    BY <1>1, <1>4, <1>5, <2>1 DEF Sent, Unit, Units, I
<1>6. CASE n # 0
  <2>1. pushed' = [pushed EXCEPT ![pid] = Append(@, new)] /\ pushed[pid] \in Seq(AccessUnit)
    BY <1>3, <1>4, <1>6
  <2>2. /\ Append(pushed[pid], new) \in Seq(AccessUnit) /\ l + 1 \in DOMAIN Append(pushed[pid], new)
        /\ Append(pushed[pid], new)[l + 1] = new
        /\ \A i \in DOMAIN pushed[pid] :
             i \in DOMAIN Append(pushed[pid], new) /\ Append(pushed[pid], new)[i] = pushed[pid][i]
    BY <1>2, <2>1
  <2>3. pushed' \in [Pids -> Seq(AccessUnit)] /\ pushed'[pid] = Append(pushed[pid], new)
    BY <1>4, <2>1, <2>2
  <2>4. \A x \in Pids \X (Nat \ {0}) :
          Sent(x) => x[2] \in DOMAIN pushed'[x[1]] /\ pushed'[x[1]][x[2]] = Unit(x)
    <3>1. ASSUME NEW x \in Pids \X (Nat \ {0}), Sent(x)
          PROVE  x[2] \in DOMAIN pushed'[x[1]] /\ pushed'[x[1]][x[2]] = Unit(x)
      <4>1. CASE x[1] = pid
        BY <2>2, <2>3, <3>1, <4>1 DEF Sent, Unit
      <4>2. CASE x[1] # pid
        <5>1. pushed'[x[1]] = pushed[x[1]]
          BY <1>4, <2>1, <4>2
        <5>2. QED
          BY <3>1, <5>1 DEF Sent, Unit
      <4>3. QED
        BY <4>1, <4>2
    <3>2. QED
      BY <3>1
  <2>5. QED
    BY <1>2, <2>2, <2>3, <2>4, IdFacts DEF Units
<1>7. QED
  BY <1>5, <1>6

(* What a push leaves on the wire, and what is announced then.              *)
Lays(u, w, m, pid, key) ==
  /\ Whole(u) /\ Renews(u, muxer, m) /\ Carries(w, m, pid, Id(pid), key)
  /\ key => \E i \in DOMAIN u : EndsTableOfVideo(u[i])
  /\ u \in Seq(Packet) /\ w \in Seq(Packet) /\ wire' \in Seq(Packet)
  /\ wire = <<>> /\ wire' = u \o w /\ wire' = m.output
  /\ Len(u) \in Nat /\ Len(w) \in Nat /\ DOMAIN u = 1..Len(u)
  /\ Len(wire') = Len(u) + Len(w) /\ DOMAIN wire' = 1..(Len(u) + Len(w))
  /\ \A i \in 1..Len(u) : i \in DOMAIN wire' /\ wire'[i] = u[i] /\ ~IsPes(wire'[i])
  /\ \A i \in 1..Len(w) : Len(u) + i \in DOMAIN wire' /\ wire'[Len(u) + i] = w[i]
  /\ \A i \in DOMAIN wire' : IsPes(wire'[i]) => i - Len(u) \in 1..Len(w) /\ wire'[i] = w[i - Len(u)]
  /\ \A i \in DOMAIN wire' : ~IsPes(wire'[i]) => i \in 1..Len(u)
Leaves(m) ==
  /\ MuxerOK(muxer) /\ MuxerOK(m) /\ SameStreams(muxer, m) /\ muxer' = Polled(m) /\ ~m.pmt_dirty /\ Fresh(m)
  /\ \A p \in AllPids : Chained(m.output, p, Counter(muxer, p), Counter(m, p))
  /\ Says(m.output, announced, announced') /\ UpToDate(announced', m)

LEMMA PushLays ==
  ASSUME LinkInv, NEW m, NEW pid \in Pids, NEW kind \in Kind, NEW key \in BOOLEAN, NEW step \in Steps,
         Pushes(m, pid, kind, key, step)
  PROVE  /\ \E u \in Seq(PsiPkt), w \in Seq(PesPkt) : Lays(u, w, m, pid, key)
         /\ Leaves(m) /\ Units(m, pid, key)
<1> DEFINE Q(k, u, w) ==
             /\ Whole(u) /\ Writes(muxer, u, k) /\ Writes(k, w, m) /\ Carries(w, m, pid, Id(pid), key)
             /\ Announced(m, announced) /\ ~m.pmt_dirty /\ Fresh(m) /\ Renews(u, muxer, m)
             /\ key => \E i \in DOMAIN u : EndsTableOfVideo(u[i])
<1>1. PICK k : \E u \in Seq(PsiPkt) : \E w \in Seq(PesPkt) : Q(k, u, w)
  BY DEF Pushes, Pushed
<1>2. PICK u \in Seq(PsiPkt) : \E w \in Seq(PesPkt) : Q(k, u, w)
  BY <1>1
<1>3. PICK w \in Seq(PesPkt) : Q(k, u, w)
  BY <1>2
<1> DEFINE x == u \o w
<1>4. u \in Seq(Packet) /\ w \in Seq(Packet) /\ x \in Seq(Packet)
  BY SeqPackets, ConcatProperties
<1>5. MuxerOK(muxer) /\ Writes(muxer, x, m)
  BY <1>3, <1>4, WritesConcat DEF LinkInv, MuxerPart
<1>6. m.output = x
  <2>1. m.output = <<>> \o x
    BY <1>5 DEF Writes, LinkInv, MuxerPart
  <2>2. QED
    BY <1>4, <2>1, ConcatEmptySeq
<1>7. /\ DOMAIN x = 1..(Len(u) + Len(w)) /\ Len(x) = Len(u) + Len(w)
      /\ \A i \in 1..Len(u) : i \in DOMAIN x /\ x[i] = u[i] /\ ~IsPes(x[i])
      /\ \A i \in 1..Len(w) : Len(u) + i \in DOMAIN x /\ x[Len(u) + i] = w[i] /\ IsPes(w[i])
      /\ \A i \in DOMAIN x : IsPes(x[i]) => i - Len(u) \in 1..Len(w) /\ x[i] = w[i - Len(u)]
  BY PushedWire
<1>8. Len(u) \in Nat /\ Len(w) \in Nat /\ DOMAIN u = 1..Len(u)
  OBVIOUS
<1> HIDE DEF x
<1>9. \A i \in DOMAIN x : ~IsPes(x[i]) => i \in 1..Len(u)
  <2>1. ASSUME NEW i \in DOMAIN x, ~IsPes(x[i]), i \notin 1..Len(u) PROVE FALSE
    <3>1. i - Len(u) \in 1..Len(w) /\ Len(u) + (i - Len(u)) = i
      BY <1>7, <1>8, <2>1
    <3>2. QED
      BY <1>7, <2>1, <3>1
  <2>2. QED
    BY <2>1
<1>10. wire = <<>> /\ wire' = x /\ muxer' = Polled(m) /\ announced' = Announce(announced, m.output)
  BY <1>6 DEF Pushes, Push
<1>11. Lays(u, w, m, pid, key)
  BY <1>3, <1>4, <1>6, <1>7, <1>8, <1>9, <1>10 DEF Lays, x
<1>12. Leaves(m)
  <2>1. PICK T : Says(m.output, announced, T) /\ UpToDate(T, m)
    BY <1>3 DEF Announced
  <2>2. announced' = T
    BY <1>4, <1>6, <1>10, <2>1, SaysIsAnnounce
  <2>3. QED
    BY <1>3, <1>5, <1>6, <1>10, <2>1, <2>2 DEF Leaves, Writes
<1>13. Units(m, pid, key)
  BY <1>4, <1>6, UnitsArePushed DEF Pushes
<1>14. QED
  BY <1>11, <1>12, <1>13

LEMMA PushKeepsLink ==
  ASSUME LinkInv, NEW m, NEW pid \in Pids, NEW kind \in Kind, NEW key \in BOOLEAN, NEW step \in Steps,
         Pushes(m, pid, kind, key, step)
  PROVE  LinkInv'
<1> DEFINE au == Id(pid)
<1>1. PICK u \in Seq(PsiPkt), w \in Seq(PesPkt) : Lays(u, w, m, pid, key)
  BY PushLays
<1>2. Leaves(m) /\ Units(m, pid, key)
  BY PushLays
<1>3. wire = <<>> /\ wire' = m.output /\ muxer' = Polled(m) /\ Carries(w, m, pid, au, key)
  BY <1>1, <1>2 DEF Lays, Leaves
<1>4. /\ wire' \in Seq(Packet)
      /\ \A i \in DOMAIN wire' : IsPes(wire'[i]) => i - Len(u) \in 1..Len(w) /\ wire'[i] = w[i - Len(u)]
      /\ \A i \in DOMAIN wire' : i \in Nat
      /\ Len(u) \in Nat
  BY <1>1 DEF Lays
<1>5. \A i \in DOMAIN wire' : IsPes(wire'[i]) =>
        /\ wire'[i].pid = pid /\ wire'[i].part = i - Len(u) /\ wire'[i].pes.au = au
        /\ wire'[i].pcr => PcrPid(m) = pid
        /\ \E e \in Entries(m) : e.pid = pid
  <2>1. ASSUME NEW i \in DOMAIN wire', IsPes(wire'[i])
        PROVE  /\ wire'[i].pid = pid /\ wire'[i].part = i - Len(u) /\ wire'[i].pes.au = au
               /\ wire'[i].pcr => PcrPid(m) = pid
               /\ \E e \in Entries(m) : e.pid = pid
    <3>1. i - Len(u) \in 1..Len(w) /\ wire'[i] = w[i - Len(u)]
      BY <1>4, <2>1
    <3>2. w # <<>>
      BY <3>1
    <3>3. QED
      BY <1>3, <3>1, <3>2 DEF Carries
  <2>2. QED
    BY <2>1
<1>6. /\ UNCHANGED <<demuxer, checker, lost, psiLost, upLost, upRuns>>
      /\ now' \in Nat /\ pushes' \in 0..MaxPushes
      /\ Losses' = Losses
  BY PathAssumption DEF Pushes, Push, LinkInv, CountPart, Losses
<1>7. /\ pushed' \in [Pids -> Seq(AccessUnit)]
      /\ \A x \in Pids \X (Nat \ {0}) : Sent(x) => Sent(x)'
      /\ (\E i \in DOMAIN wire' : IsPes(wire'[i])) => au[2] \in DOMAIN pushed'[au[1]]
  BY <1>2, <1>3, <1>5 DEF Sent, Units
<1>8. au \in Pids \X (Nat \ {0}) /\ ~Sent(au) /\ au[1] = pid
  <2>1. pushed[pid] \in Seq(AccessUnit)
    BY DEF LinkInv, CountPart
  <2>2. QED
    BY <2>1, IdFacts DEF Sent
<1> HIDE DEF au
<1>9. MuxerPart'
  BY <1>2, PolledFacts DEF MuxerPart, Leaves
<1>10. CountPart'
  BY <1>6, <1>7 DEF LinkInv, CountPart
<1>11. WirePart'
  <2>1. ASSUME NEW i \in DOMAIN wire', IsPes(wire'[i])
        PROVE  /\ wire'[i].pes.au[1] = wire'[i].pid
               /\ wire'[i].pes.au[2] \in DOMAIN pushed'[wire'[i].pes.au[1]]
               /\ <<wire'[i].pes.au, wire'[i].part>> \notin lost'
    <3>1. /\ wire'[i].pes.au = au /\ au[2] \in DOMAIN pushed'[au[1]]
          /\ wire'[i].pid = pid /\ au[1] = pid
      BY <1>5, <1>7, <1>8, <2>1
    <3>2. \A l \in lost : l[1] # au
      BY <1>8 DEF LinkInv, CountPart
    <3>3. QED
      BY <1>6, <3>1, <3>2
  <2>2. \A i, j \in DOMAIN wire' : IsPes(wire'[i]) /\ IsPes(wire'[j]) /\ wire'[i].part = wire'[j].part => i = j
    BY <1>4, <1>5
  <2>3. \A i, j \in DOMAIN wire' :
          /\ IsPes(wire'[i]) /\ IsPes(wire'[j])
          /\ wire'[i].pes.au = wire'[j].pes.au /\ wire'[i].part = wire'[j].part
          => i = j
    BY <2>2
  <2>4. QED
    BY <1>4, <2>1, <2>3 DEF WirePart, Own, Sent
<1>12. ChainPart'
  <2>1. ASSUME NEW p \in AllPids
        PROVE  \E from \in Cc : Chained(wire', p, from, Counter(muxer', p)) /\ Behind(p, from)'
    <3>1. PICK from \in Cc : Chained(wire, p, from, Counter(muxer, p)) /\ Behind(p, from)
      BY DEF LinkInv, ChainPart
    <3>2. from = Counter(muxer, p)
      BY <1>3, <3>1 DEF Chained
    <3>3. Chained(wire', p, from, Counter(m, p))
      BY <1>2, <1>3, <3>2 DEF Leaves
    <3>4. Counter(muxer', p) = Counter(m, p)
      BY <1>2, PolledFacts DEF Leaves
    <3>5. Behind(p, from)'
      BY <1>6, <3>1 DEF Behind
    <3>6. QED
      BY <3>3, <3>4, <3>5
  <2>2. QED
    BY <2>1 DEF ChainPart
<1>13. CheckPart'
  BY <1>6 DEF LinkInv, CheckPart
<1>14. AnnouncedPart'
  BY <1>2, <1>5 DEF AnnouncedPart, UpToDate, Leaves
<1>15. QED
  BY <1>9, <1>10, <1>11, <1>12, <1>13, <1>14 DEF LinkInv

(* What taking the first packet off the wire leaves.                        *)
LEMMA WireTail ==
  ASSUME LinkInv, wire # <<>>, wire' = Tail(wire)
  PROVE  /\ Head(wire) = wire[1] /\ wire[1] \in Packet /\ wire[1].pid \in AllPids /\ 1 \in DOMAIN wire
         /\ wire' \in Seq(Packet) /\ Len(wire') = Len(wire) - 1
         /\ \A i \in DOMAIN wire' : i \in Nat /\ i >= 1 /\ i + 1 \in DOMAIN wire /\ wire'[i] = wire[i + 1]
         /\ IsPes(wire[1]) =>
              /\ <<wire[1].pes.au, wire[1].part>> \in (Pids \X (Nat \ {0})) \X (Nat \ {0})
              /\ Own(wire[1].pid, wire[1].pes.au) /\ <<wire[1].pes.au, wire[1].part>> \notin lost
              /\ \A i \in DOMAIN wire' :
                   IsPes(wire'[i]) => <<wire'[i].pes.au, wire'[i].part>> # <<wire[1].pes.au, wire[1].part>>
<1>1. wire \in Seq(Packet)
  BY DEF LinkInv, WirePart
<1>2. /\ Head(wire) = wire[1] /\ wire[1] \in Packet /\ 1 \in DOMAIN wire
      /\ wire' \in Seq(Packet) /\ Len(wire') = Len(wire) - 1
      /\ \A i \in DOMAIN wire' : i \in Nat /\ i >= 1 /\ i + 1 \in DOMAIN wire /\ wire'[i] = wire[i + 1]
  BY <1>1
<1>3. wire[1].pid \in AllPids
  BY <1>2, PacketFacts
<1>4. ASSUME IsPes(wire[1])
      PROVE  /\ <<wire[1].pes.au, wire[1].part>> \in (Pids \X (Nat \ {0})) \X (Nat \ {0})
             /\ Own(wire[1].pid, wire[1].pes.au) /\ <<wire[1].pes.au, wire[1].part>> \notin lost
             /\ \A i \in DOMAIN wire' :
                  IsPes(wire'[i]) => <<wire'[i].pes.au, wire'[i].part>> # <<wire[1].pes.au, wire[1].part>>
  <2>1. wire[1] \in PesPkt
    BY <1>2, <1>4, PacketFacts
  <2>2. wire[1].pes.au \in Pids \X (Nat \ {0}) /\ wire[1].part \in Nat \ {0}
    BY <2>1 DEF PesPkt, Pes
  <2>3. Own(wire[1].pid, wire[1].pes.au) /\ <<wire[1].pes.au, wire[1].part>> \notin lost
    BY <1>2, <1>4 DEF LinkInv, WirePart
  <2>4. \A i \in DOMAIN wire' : IsPes(wire'[i]) => wire'[i].pes.au # wire[1].pes.au \/ wire'[i].part # wire[1].part
    <3>1. ASSUME NEW i \in DOMAIN wire', IsPes(wire'[i]), wire'[i].pes.au = wire[1].pes.au, wire'[i].part = wire[1].part
          PROVE  FALSE
      <4>1. i + 1 \in DOMAIN wire /\ wire[i + 1] = wire'[i] /\ i + 1 # 1
        BY <1>2
      <4>2. i + 1 = 1
        BY <1>2, <1>4, <3>1, <4>1 DEF LinkInv, WirePart
      <4>3. QED
        BY <4>1, <4>2
    <3>2. QED
      BY <3>1
  <2>5. QED
    BY <2>2, <2>3, <2>4
<1>5. QED
  BY <1>2, <1>3, <1>4

(* A loss is counted.                                                       *)
LEMMA LossCounts ==
  ASSUME LinkInv, wire # <<>>, Loss(Head(wire))
  PROVE  /\ Losses' = Losses + 1 /\ Losses' <= MaxLost /\ Losses \in Nat /\ psiLost' \in Nat
         /\ IsFiniteSet(lost') /\ wire' = Tail(wire)
         /\ lost' = lost \/ (IsPes(wire[1]) /\ lost' = lost \cup {<<wire[1].pes.au, wire[1].part>>})
<1>1. wire' = Tail(wire) /\ Head(wire) = wire[1]
  BY WireTail DEF Loss
<1>2. IsFiniteSet(lost) /\ Cardinality(lost) \in Nat /\ psiLost \in Nat /\ MaxLost \in Nat
  BY FS_CardinalityType, PathAssumption DEF LinkInv, CountPart
<1>3. CASE IsPes(wire[1])
  <2>1. lost' = lost \cup {<<wire[1].pes.au, wire[1].part>>} /\ psiLost' = psiLost
    BY <1>1, <1>3 DEF Loss, IsPsi
  <2>2. <<wire[1].pes.au, wire[1].part>> \notin lost
    BY <1>1, <1>3, WireTail
  <2>3. IsFiniteSet(lost') /\ Cardinality(lost') = Cardinality(lost) + 1
    BY <1>2, <2>1, <2>2, FS_AddElement
  <2>4. QED
    BY <1>1, <1>2, <1>3, <2>1, <2>3 DEF Loss, Losses
<1>4. CASE ~IsPes(wire[1])
  <2>1. lost' = lost /\ psiLost' = psiLost + 1
    BY <1>1, <1>4 DEF Loss, IsPsi
  <2>2. QED
    <3>1. Cardinality(lost) + psiLost < MaxLost
      BY DEF Loss
    <3>2. Losses' = Cardinality(lost) + psiLost + 1 /\ Losses = Cardinality(lost) + psiLost
      BY <1>2, <2>1 DEF Losses
    <3>3. QED
      BY <1>1, <1>2, <2>1, <3>1, <3>2
<1>5. QED
  BY <1>3, <1>4

(* The parts that a step keeps that takes a packet off the wire.            *)
LEMMA TakingKeeps ==
  ASSUME LinkInv, wire # <<>>, wire' = Tail(wire),
         UNCHANGED <<muxer, now, pushes, pushed, announced>>,
         \/ UNCHANGED <<lost, psiLost>>
         \/ Loss(Head(wire))
  PROVE  MuxerPart' /\ CountPart' /\ WirePart' /\ AnnouncedPart'
<1>1. /\ psiLost' \in Nat /\ Losses' <= MaxLost /\ IsFiniteSet(lost')
      /\ lost' = lost \/ (IsPes(wire[1]) /\ lost' = lost \cup {<<wire[1].pes.au, wire[1].part>>})
  <2>1. CASE UNCHANGED <<lost, psiLost>>
    BY <2>1 DEF LinkInv, CountPart, Losses
  <2>2. CASE Loss(Head(wire))
    BY <2>2, LossCounts
  <2>3. QED
    BY <2>1, <2>2
<1>2. \A x \in lost' : x \in lost \/ (IsPes(wire[1]) /\ x = <<wire[1].pes.au, wire[1].part>>)
  BY <1>1
<1>3. \A au : Sent(au)' = Sent(au)
  BY DEF Sent
<1>4. MuxerPart'
  BY DEF LinkInv, MuxerPart
<1>5. CountPart'
  <2>1. \A x \in lost' : x \in (Pids \X (Nat \ {0})) \X (Nat \ {0}) /\ Sent(x[1])
    <3>1. ASSUME NEW x \in lost' PROVE x \in (Pids \X (Nat \ {0})) \X (Nat \ {0}) /\ Sent(x[1])
      <4>1. CASE x \in lost
        BY <4>1 DEF LinkInv, CountPart
      <4>2. CASE IsPes(wire[1]) /\ x = <<wire[1].pes.au, wire[1].part>>
        BY <4>2, WireTail DEF Own
      <4>3. QED
        BY <1>2, <3>1, <4>1, <4>2
    <3>2. QED
      BY <3>1
  <2>2. lost' \subseteq (Pids \X (Nat \ {0})) \X (Nat \ {0}) /\ \A x \in lost' : Sent(x[1])'
    BY <1>3, <2>1
  <2>3. QED
    BY <1>1, <2>2 DEF LinkInv, CountPart
<1>6. WirePart'
  <2>1. ASSUME NEW i \in DOMAIN wire', IsPes(wire'[i])
        PROVE  /\ wire'[i].pes.au[1] = wire'[i].pid
               /\ wire'[i].pes.au[2] \in DOMAIN pushed'[wire'[i].pes.au[1]]
               /\ <<wire'[i].pes.au, wire'[i].part>> \notin lost'
    <3>1. i + 1 \in DOMAIN wire /\ wire'[i] = wire[i + 1]
      BY WireTail
    <3>2. Own(wire'[i].pid, wire'[i].pes.au) /\ <<wire'[i].pes.au, wire'[i].part>> \notin lost
      BY <2>1, <3>1 DEF LinkInv, WirePart
    <3>3. IsPes(wire[1]) => <<wire'[i].pes.au, wire'[i].part>> # <<wire[1].pes.au, wire[1].part>>
      BY <2>1, WireTail
    <3>4. QED
      <4>1. wire'[i].pes.au[2] \in DOMAIN pushed'[wire'[i].pes.au[1]]
        BY <3>1, <3>2 DEF Own, Sent
      <4>2. <<wire'[i].pes.au, wire'[i].part>> \notin lost
        BY <3>1, <3>2
      <4>3. QED
        BY <1>2, <3>2, <3>3, <4>1, <4>2 DEF Own
  <2>2. ASSUME NEW i \in DOMAIN wire', NEW j \in DOMAIN wire', IsPes(wire'[i]), IsPes(wire'[j]),
               wire'[i].pes.au = wire'[j].pes.au, wire'[i].part = wire'[j].part
        PROVE  i = j
    <3>1. /\ i + 1 \in DOMAIN wire /\ wire'[i] = wire[i + 1] /\ i \in Nat
          /\ j + 1 \in DOMAIN wire /\ wire'[j] = wire[j + 1] /\ j \in Nat
      BY WireTail
    <3>2. i + 1 = j + 1
      BY <2>2, <3>1 DEF LinkInv, WirePart
    <3>3. QED
      BY <3>1, <3>2
  <2>3. wire' \in Seq(Packet)
    BY WireTail
  <2>4. QED
    BY <2>1, <2>2, <2>3 DEF WirePart, Own, Sent
<1>7. AnnouncedPart'
  BY WireTail DEF LinkInv, AnnouncedPart
<1>8. QED
  BY <1>4, <1>5, <1>6, <1>7

LEMMA ModApart ==
  ASSUME NEW a \in Nat, NEW k \in 0..(CcModulus - 1), Mod(a + k) = Mod(a)
  PROVE  k = 0
<1> DEFINE M == CcModulus
           q == a \div M
           r == a % M
<1>1. M \in Nat \ {0} /\ q \in Int /\ r \in 0..(M - 1) /\ a = M * q + r
  BY CcFacts
<1>2. M * q \in Int /\ M * (q + 1) = M * q + M
  BY <1>1
<1>3. CASE r + k < M
  <2>1. r + k \in 0..(M - 1) /\ a + k = M * q + (r + k)
    BY <1>1, <1>2, <1>3
  <2>2. (M * q + (r + k)) % M = r + k
    BY <1>1, <2>1, RemainderIs
  <2>3. r + k = r
    BY <2>1, <2>2 DEF Mod
  <2>4. QED
    BY <1>1, <2>3
<1>4. CASE r + k >= M
  <2>1. r + k - M \in 0..(M - 1) /\ a + k = M * (q + 1) + (r + k - M) /\ q + 1 \in Int
    BY <1>1, <1>2, <1>4
  <2>2. (M * (q + 1) + (r + k - M)) % M = r + k - M
    BY <1>1, <2>1, RemainderIs
  <2>3. r + k - M = r
    BY <2>1, <2>2 DEF Mod
  <2>4. QED
    BY <1>1, <2>1, <2>3
<1>5. QED
  BY <1>1, <1>3, <1>4

(* A loss on the uplink puts the check one packet further behind.           *)
LEMMA UplinkLossKeepsChain ==
  ASSUME LinkInv, LostOnUplink
  PROVE  ChainPart' /\ CheckPart'
<1> DEFINE p == wire[1]
<1>1. wire # <<>> /\ Loss(Head(wire)) /\ UNCHANGED <<muxer, checker, upRuns>> /\ Head(wire) = p
  BY WireTail DEF LostOnUplink, Loss
<1>2. wire \in Seq(Packet) /\ wire' = Tail(wire) /\ p \in Packet /\ p.pid \in AllPids
  BY <1>1, WireTail DEF LinkInv, WirePart, Loss
<1>3. Losses' = Losses + 1 /\ Losses \in Nat
  BY <1>1, LossCounts
<1>4. upLost \in [AllPids -> BOOLEAN] /\ upLost' = [upLost EXCEPT ![p.pid] = TRUE]
  BY <1>1 DEF LostOnUplink, LinkInv, CheckPart
<1>5. checker.last \in [AllPids -> Cc \cup {NoCc}]
  BY DEF LinkInv, CheckPart
<1> HIDE DEF p
<1>6. ASSUME NEW pid \in AllPids
      PROVE  \E from \in Cc : Chained(wire', pid, from, Counter(muxer', pid)) /\ Behind(pid, from)'
  <2>1. PICK from \in Cc : Chained(wire, pid, from, Counter(muxer, pid)) /\ Behind(pid, from)
    BY DEF LinkInv, ChainPart
  <2>2. CASE p.pid = pid
    <3>1. Chained(wire', pid, Mod(from + 1), Counter(muxer', pid)) /\ Mod(from + 1) \in Cc
      BY <1>1, <1>2, <2>1, <2>2, ChainTail, CcFacts DEF p
    <3>2. ASSUME checker.last[pid] # NoCc
          PROVE  \E k \in 0..(Losses + 1) : Mod(from + 1) = Mod(checker.last[pid] + 1 + k) /\ k # 0
      <4>1. PICK k \in 0..Losses : from = Mod(checker.last[pid] + 1 + k)
        BY <2>1, <3>2 DEF Behind
      <4>2. checker.last[pid] \in Nat
        BY <1>5, <3>2, CcFacts
      <4> DEFINE n == checker.last[pid] + 1 + k
      <4>3. n \in Nat /\ Mod(Mod(n) + 1) = Mod(n + 1)
        BY <4>2, ModFacts
      <4>4. k + 1 \in 0..(Losses + 1) /\ k + 1 # 0 /\ n + 1 = checker.last[pid] + 1 + (k + 1)
        BY <1>3, <4>2
      <4>5. QED
        BY <4>1, <4>3, <4>4
    <3>3. Behind(pid, Mod(from + 1))'
      <4>1. upLost'[pid]
        BY <1>4, <2>2
      <4>2. QED
        BY <1>1, <1>3, <3>2, <4>1 DEF Behind
    <3>4. QED
      BY <3>1, <3>3
  <2>3. CASE p.pid # pid
    <3>1. Chained(wire', pid, from, Counter(muxer', pid))
      BY <1>1, <1>2, <2>1, <2>3, ChainTail DEF p
    <3>2. upLost'[pid] = upLost[pid]
      BY <1>2, <1>4, <2>3
    <3>3. \A k \in 0..Losses : k \in 0..Losses'
      BY <1>3
    <3>4. Behind(pid, from)'
      BY <1>1, <2>1, <3>2, <3>3 DEF Behind
    <3>5. QED
      BY <3>1, <3>4
  <2>4. QED
    BY <2>2, <2>3
<1>7. CheckPart'
  BY <1>1, <1>2, <1>4 DEF LinkInv, CheckPart
<1>8. QED
  BY <1>6, <1>7 DEF ChainPart

(* A packet that the check sees brings it up to date.                       *)
LEMMA CheckedKeepsChain ==
  ASSUME LinkInv, wire # <<>>, wire' = Tail(wire), Checked(wire[1]), UNCHANGED muxer,
         Losses' \in {Losses, Losses + 1}
  PROVE  ChainPart' /\ CheckPart'
<1> DEFINE p == wire[1]
<1>1. wire \in Seq(Packet) /\ p \in Packet /\ p.pid \in AllPids /\ p.cc \in Cc
  BY WireTail, PacketFacts DEF LinkInv, WirePart
<1>2. Losses \in Nat
  <2>1. Cardinality(lost) \in Nat /\ psiLost \in Nat
    BY FS_CardinalityType DEF LinkInv, CountPart
  <2>2. QED
    BY <2>1 DEF Losses
<1>3. /\ checker.last \in [AllPids -> Cc \cup {NoCc}] /\ checker.gaps \in [AllPids -> Nat]
      /\ upLost \in [AllPids -> BOOLEAN] /\ upRuns \in [AllPids -> Nat]
  BY DEF LinkInv, CheckPart
<1>4. /\ checker'.last = [checker.last EXCEPT ![p.pid] = p.cc]
      /\ \E gap \in BOOLEAN : checker'.gaps = [checker.gaps EXCEPT ![p.pid] = IF gap THEN @ + 1 ELSE @]
      /\ checker' = [last |-> checker'.last, gaps |-> checker'.gaps]
      /\ upLost' = [upLost EXCEPT ![p.pid] = FALSE]
      /\ \E some \in BOOLEAN : upRuns' = [upRuns EXCEPT ![p.pid] = IF some THEN @ + 1 ELSE @]
  BY DEF Checked, Scan
<1> HIDE DEF p
<1>5. CheckPart'
  <2>1. checker'.last \in [AllPids -> Cc \cup {NoCc}] /\ upLost' \in [AllPids -> BOOLEAN]
    BY <1>1, <1>3, <1>4
  <2>2. checker'.gaps \in [AllPids -> Nat]
    BY <1>1, <1>3, <1>4
  <2>3. upRuns' \in [AllPids -> Nat]
    BY <1>1, <1>3, <1>4
  <2>4. QED
    BY <1>4, <2>1, <2>2, <2>3 DEF CheckPart
<1>6. ASSUME NEW pid \in AllPids
      PROVE  \E from \in Cc : Chained(wire', pid, from, Counter(muxer', pid)) /\ Behind(pid, from)'
  <2>1. PICK from \in Cc : Chained(wire, pid, from, Counter(muxer, pid)) /\ Behind(pid, from)
    BY DEF LinkInv, ChainPart
  <2>2. CASE p.pid = pid
    <3>1. /\ p.cc = from /\ Chained(wire', pid, Mod(from + 1), Counter(muxer', pid))
          /\ Mod(from + 1) \in Cc /\ from \in Nat
      BY <1>1, <2>1, <2>2, ChainTail, CcFacts DEF p
    <3>2. checker'.last[pid] = from /\ ~upLost'[pid]
      BY <1>1, <1>3, <1>4, <2>2, <3>1
    <3>3. 0 \in 0..Losses' /\ from + 1 + 0 = from + 1
      BY <1>2, <3>1
    <3>4. Behind(pid, Mod(from + 1))'
      BY <3>2, <3>3 DEF Behind
    <3>5. QED
      BY <3>1, <3>4
  <2>3. CASE p.pid # pid
    <3>1. Chained(wire', pid, from, Counter(muxer', pid))
      BY <1>1, <2>1, <2>3, ChainTail DEF p
    <3>2. upLost'[pid] = upLost[pid] /\ checker'.last[pid] = checker.last[pid]
      BY <1>1, <1>3, <1>4, <2>3
    <3>3. \A k \in 0..Losses : k \in 0..Losses'
      BY <1>2
    <3>4. Behind(pid, from)'
      BY <2>1, <3>2, <3>3 DEF Behind
    <3>5. QED
      BY <3>1, <3>4
  <2>4. QED
    BY <2>2, <2>3
<1>7. QED
  BY <1>5, <1>6 DEF ChainPart

(* It counts a gap only where the uplink lost packets, and there unless it  *)
(* lost a whole round of the counter.                                       *)
Blamed == \A pid \in AllPids : checker.gaps[pid] <= upRuns[pid]

LEMMA CheckedBlames ==
  ASSUME LinkInv, wire # <<>>, wire' = Tail(wire), Checked(wire[1])
  PROVE  /\ Blamed => Blamed'
         /\ Losses < CcModulus /\ GapsBlameTheUplink => GapsBlameTheUplink'
<1> DEFINE p == wire[1]
           gap == checker.last[p.pid] # NoCc /\ p.cc # (checker.last[p.pid] + 1) % CcModulus
           some == upLost[p.pid] /\ checker.last[p.pid] # NoCc
<1>1. wire \in Seq(Packet) /\ p \in Packet /\ p.pid \in AllPids /\ p.cc \in Cc
  BY WireTail, PacketFacts DEF LinkInv, WirePart
<1>2. /\ checker.last \in [AllPids -> Cc \cup {NoCc}] /\ checker.gaps \in [AllPids -> Nat]
      /\ upRuns \in [AllPids -> Nat]
  BY DEF LinkInv, CheckPart
<1>3. /\ checker'.gaps = [checker.gaps EXCEPT ![p.pid] = IF gap THEN @ + 1 ELSE @]
      /\ upRuns' = [upRuns EXCEPT ![p.pid] = IF some THEN @ + 1 ELSE @]
  BY DEF Checked, Scan
<1>4. PICK from \in Cc : Chained(wire, p.pid, from, Counter(muxer, p.pid)) /\ Behind(p.pid, from)
  BY <1>1 DEF LinkInv, ChainPart
<1>5. p.cc = from
  BY <1>1, <1>4, ChainTail
<1> HIDE DEF p
<1>6. ASSUME checker.last[p.pid] # NoCc
      PROVE  /\ gap => some
             /\ Losses < CcModulus => (gap <=> some)
  <2>1. PICK k \in 0..Losses : from = Mod(checker.last[p.pid] + 1 + k) /\ (k = 0 <=> ~upLost[p.pid])
    BY <1>4, <1>6 DEF Behind
  <2>2. checker.last[p.pid] \in Nat /\ checker.last[p.pid] + 1 \in Nat /\ CcModulus \in Nat
    BY SMTT(40), <1>1, <1>2, <1>6, CcFacts
  <2>3. gap <=> Mod(checker.last[p.pid] + 1 + k) # Mod(checker.last[p.pid] + 1)
    BY <1>5, <1>6, <2>1 DEF Mod
  <2>4. k = 0 => checker.last[p.pid] + 1 + k = checker.last[p.pid] + 1
    BY <2>2
  <2>5. Losses \in Nat /\ (Losses < CcModulus => k \in 0..(CcModulus - 1))
    <3>1. Cardinality(lost) \in Nat /\ psiLost \in Nat
      BY FS_CardinalityType DEF LinkInv, CountPart
    <3>2. QED
      BY <2>2, <3>1 DEF Losses
  <2>6. Losses < CcModulus /\ k # 0 => Mod(checker.last[p.pid] + 1 + k) # Mod(checker.last[p.pid] + 1)
    BY <2>2, <2>5, ModApart
  <2>7. QED
    BY <1>6, <2>1, <2>3, <2>4, <2>6
<1>7. (gap => some) /\ (Losses < CcModulus => (gap <=> some))
  BY <1>6
<1> HIDE DEF gap, some
<1>8. Blamed => Blamed'
  <2> SUFFICES ASSUME Blamed, NEW pid \in AllPids PROVE checker'.gaps[pid] <= upRuns'[pid]
    BY DEF Blamed
  <2>1. checker.gaps[pid] <= upRuns[pid] /\ checker.gaps[pid] \in Nat /\ upRuns[pid] \in Nat
    BY <1>2 DEF Blamed
  <2>2. CASE pid = p.pid
    <3>1. /\ checker'.gaps[pid] = IF gap THEN checker.gaps[pid] + 1 ELSE checker.gaps[pid]
          /\ upRuns'[pid] = IF some THEN upRuns[pid] + 1 ELSE upRuns[pid]
      BY <1>2, <1>3, <2>2
    <3>2. QED
      BY <1>7, <2>1, <3>1
  <2>3. CASE pid # p.pid
    <3>1. checker'.gaps[pid] = checker.gaps[pid] /\ upRuns'[pid] = upRuns[pid]
      BY <1>2, <1>3, <2>3
    <3>2. QED
      BY <2>1, <3>1
  <2>4. QED
    BY <2>2, <2>3
<1>9. Losses < CcModulus /\ GapsBlameTheUplink => GapsBlameTheUplink'
  BY <1>3, <1>7 DEF GapsBlameTheUplink
<1>10. QED
  BY <1>8, <1>9

LEMMA InitLink == Init => LinkInv
<1> SUFFICES ASSUME Init PROVE LinkInv
  OBVIOUS
<1>1. /\ muxer \in Muxers /\ wire = <<>> /\ checker = NewChecker /\ now = 0 /\ pushes = 0
      /\ pushed = [p \in Pids |-> <<>>] /\ announced = NoTable /\ lost = {} /\ psiLost = 0
      /\ upLost = [p \in AllPids |-> FALSE] /\ upRuns = [p \in AllPids |-> 0]
  BY DEF Init
<1>2. Cardinality({}) = 0 /\ IsFiniteSet({})
  BY FS_EmptySet
<1>3. <<>> \in Seq(Packet) /\ <<>> \in Seq(AccessUnit) /\ DOMAIN <<>> = {}
  OBVIOUS
<1>4. MuxerPart
  <2>1. Configured(muxer)
    BY <1>1, PathAssumption
  <2> DEFINE s == muxer.audio_streams
             e == muxer.video_enabled
             x == muxer.sparse_enabled
             c == muxer.video_codec
  <2>2. /\ e \in BOOLEAN /\ x \in BOOLEAN /\ c \in {"h264", "hevc", "av1"}
        /\ Len(s) \in Nat \ {0} /\ s[1].pid = FirstAudio
        /\ s = [i \in 1..Len(s) |-> AudioStream(s[i].pid, s[i].kind)]
        /\ \A i \in DOMAIN s : s[i].kind \in {"opus", "s302m"}
        /\ \A i, j \in DOMAIN s : s[i].pid = s[j].pid => i = j
        /\ muxer = [NewMuxer EXCEPT !.video_enabled = e, !.sparse_enabled = x, !.video_codec = c, !.audio_streams = s]
    BY <2>1 DEF Configured
  <2>3. \A i \in DOMAIN s : s[i].pid \in StreamPids
    BY <1>1 DEF StreamPids
  <2>4. s \in Seq(Stream) /\ s # <<>> /\ \A i \in DOMAIN s : ~s[i].suppressed
    <3> HIDE DEF s
    <3>1. DOMAIN s = 1..Len(s)
      BY <2>2
    <3>2. \A i \in 1..Len(s) : s[i] \in Stream /\ ~s[i].suppressed
      <4>1. ASSUME NEW i \in 1..Len(s) PROVE s[i] \in Stream /\ ~s[i].suppressed
        <5>1. s[i] = AudioStream(s[i].pid, s[i].kind)
          BY <2>2
        <5>2. s[i].pid \in StreamPids /\ s[i].kind \in {"opus", "s302m"} /\ 0 \in Cc
          BY <2>2, <2>3, <3>1, CcFacts
        <5> DEFINE a == s[i].pid
                   b == s[i].kind
        <5>3. AudioStream(a, b) \in Stream /\ ~AudioStream(a, b).suppressed
          <6> HIDE DEF a, b
          <6>1. a \in StreamPids /\ b \in {"opus", "s302m"}
            BY <5>2 DEF a, b
          <6>2. QED
            BY <5>2, <6>1 DEF AudioStream, Stream
        <5>4. QED
          BY <5>1, <5>3
      <4>2. QED
        BY <4>1
    <3>3. QED
      BY <2>2, <3>1, <3>2
  <2>5. muxer = [video_enabled |-> e, video_codec |-> c, video_cc |-> 0, audio_streams |-> s,
                 pat_cc |-> 0, pmt_cc |-> 0, output |-> <<>>, pat_pmt_emitted |-> FALSE, last_psi_pts |-> 0,
                 sparse_enabled |-> x, pmt_dirty |-> FALSE, pmt_resend_count |-> 0, pmt_version |-> 0]
    <3> HIDE DEF s, e, x, c
    <3>1. QED
      BY <2>2 DEF NewMuxer
  <2>6. muxer \in Muxer /\ muxer.output = <<>> /\ ~muxer.pmt_dirty /\ 0 \in Version
    <3>1. 0 \in Version /\ 0 \in Cc /\ 0 \in Nat
      BY MuxerAssumption, CcFacts DEF Version
    <3> HIDE DEF s, e, x, c
    <3>2. /\ e \in BOOLEAN /\ x \in BOOLEAN /\ c \in {"h264", "hevc", "av1"} /\ s \in Seq(Stream)
          /\ <<>> \in Seq(Packet)
      BY <1>3, <2>2, <2>4
    <3>3. muxer.output = <<>> /\ ~muxer.pmt_dirty
      BY <2>5
    <3>4. muxer \in Muxer
      BY <2>5, <3>1, <3>2 DEF Muxer
    <3>5. QED
      BY <3>1, <3>3, <3>4
  <2>7. MuxerOK(muxer)
    <3>1. Known(muxer)
      BY <1>1 DEF Known, SameStreams
    <3>2. QED
      BY <2>2, <2>4, <2>6, <3>1 DEF MuxerOK
  <2>8. QED
    BY <1>1, <2>4, <2>6, <2>7 DEF MuxerPart, UpToDate, Fresh
<1>5. CountPart
  BY <1>1, <1>2, <1>3, PathAssumption DEF CountPart, Losses
<1>6. WirePart
  BY <1>1, <1>3 DEF WirePart
<1>7. \A pid \in AllPids : checker.last[pid] = NoCc
  BY <1>1 DEF NewChecker
<1>8. ChainPart
  <2>1. ASSUME NEW pid \in AllPids
        PROVE  \E from \in Cc : Chained(wire, pid, from, Counter(muxer, pid)) /\ Behind(pid, from)
    <3>1. Counter(muxer, pid) \in Cc
      BY <1>4, CounterFacts DEF MuxerPart
    <3>2. Chained(wire, pid, Counter(muxer, pid), Counter(muxer, pid))
      <4>1. wire \in Seq(Packet) /\ \A i \in 1..Len(wire) : wire[i].pid # pid
        BY <1>1
      <4>2. QED
        BY <3>1, <4>1, ChainNone
    <3>3. Behind(pid, Counter(muxer, pid))
      BY <1>7 DEF Behind
    <3>4. QED
      BY <3>1, <3>2, <3>3
  <2>2. QED
    BY <2>1 DEF ChainPart
<1>9. CheckPart
  BY <1>1 DEF CheckPart, NewChecker
<1>10. AnnouncedPart
  BY <1>1 DEF AnnouncedPart
<1>11. QED
  BY <1>4, <1>5, <1>6, <1>8, <1>9, <1>10 DEF LinkInv

(* Each action keeps the invariant, and the verdict of the check.           *)
LEMMA NextLink ==
  ASSUME LinkInv, [Next]_vars
  PROVE  /\ LinkInv'
         /\ Blamed => Blamed'
         /\ MaxLost < CcModulus /\ GapsBlameTheUplink => GapsBlameTheUplink'
<1> DEFINE Goal == /\ LinkInv'
                   /\ Blamed => Blamed'
                   /\ MaxLost < CcModulus /\ GapsBlameTheUplink => GapsBlameTheUplink'
<1>1. UNCHANGED <<checker, upRuns>> =>
        (Blamed => Blamed') /\ (GapsBlameTheUplink => GapsBlameTheUplink')
  BY DEF Blamed, GapsBlameTheUplink
<1>2. ASSUME NEW pid \in Pids, NEW kind \in Kind, NEW key \in BOOLEAN, NEW step \in Steps, NEW m,
             Pushes(m, pid, kind, key, step)
      PROVE  Goal
  <2>1. LinkInv'
    BY <1>2, PushKeepsLink
  <2>2. QED
    BY <1>1, <1>2, <2>1 DEF Pushes, Push
<1>3. ASSUME LostOnUplink PROVE Goal
  <2>1. /\ wire # <<>> /\ Loss(Head(wire)) /\ wire' = Tail(wire)
        /\ UNCHANGED <<muxer, now, pushes, pushed, announced, checker, upRuns>>
    BY <1>3 DEF LostOnUplink, Loss
  <2>2. MuxerPart' /\ CountPart' /\ WirePart' /\ AnnouncedPart'
    BY <2>1, TakingKeeps
  <2>3. ChainPart' /\ CheckPart'
    BY <1>3, UplinkLossKeepsChain
  <2>4. QED
    BY <1>1, <2>1, <2>2, <2>3 DEF LinkInv
<1>4. ASSUME wire # <<>>, wire' = Tail(wire), Checked(Head(wire)),
             UNCHANGED <<muxer, now, pushes, pushed, announced>>,
             \/ UNCHANGED <<lost, psiLost>>
             \/ Loss(Head(wire))
      PROVE  Goal
  <2>1. MuxerPart' /\ CountPart' /\ WirePart' /\ AnnouncedPart'
    BY <1>4, TakingKeeps
  <2>2. Losses' \in {Losses, Losses + 1} /\ Checked(wire[1])
    <3>1. Head(wire) = wire[1]
      BY <1>4, WireTail
    <3>2. CASE UNCHANGED <<lost, psiLost>>
      BY <1>4, <3>1, <3>2 DEF Losses
    <3>3. CASE Loss(Head(wire))
      BY <1>4, <3>1, <3>3, LossCounts
    <3>4. QED
      BY <1>4, <3>2, <3>3
  <2>3. ChainPart' /\ CheckPart'
    BY <1>4, <2>2, CheckedKeepsChain
  <2>4. MaxLost < CcModulus => Losses < CcModulus
    <3>1. Cardinality(lost) \in Nat /\ psiLost \in Nat /\ MaxLost \in Nat /\ CcModulus \in Nat /\ Losses <= MaxLost
      BY FS_CardinalityType, PathAssumption, CcFacts DEF LinkInv, CountPart
    <3>2. QED
      BY <3>1 DEF Losses
  <2>5. QED
    BY <1>4, <2>1, <2>2, <2>3, <2>4, CheckedBlames DEF LinkInv
<1>5. ASSUME LostOnDownlink PROVE Goal
  BY <1>4, <1>5 DEF LostOnDownlink, Loss
<1>6. ASSUME Carry PROVE Goal
  <2>1. /\ wire # <<>> /\ wire' = Tail(wire) /\ Checked(Head(wire))
        /\ UNCHANGED <<muxer, now, pushes, pushed, announced, lost, psiLost>>
    BY <1>6 DEF Carry
  <2>2. QED
    BY <1>4, <2>1
<1>7. ASSUME UNCHANGED vars PROVE Goal
  <2>1. UNCHANGED <<muxer, wire, checker, now, pushes, pushed, announced, lost, psiLost, upLost, upRuns>>
    BY <1>7 DEF vars, ghosts
  <2>2. LinkInv'
    BY <2>1 DEF LinkInv, MuxerPart, CountPart, WirePart, ChainPart, CheckPart, AnnouncedPart, Losses, Behind, Own, Sent
  <2>3. QED
    BY <1>1, <2>1, <2>2
<1>8. QED
  BY <1>2, <1>3, <1>5, <1>6, <1>7, NextIs DEF Step

(* Packets of a PES, and the PCR, travel only on PIDs of the last table     *)
(* that was written: pushes write the tables whenever the accounting of     *)
(* silence changes them, and before the first PES that depends on them.     *)
THEOREM AnnouncedAlways == Spec => []AnnouncedBeforeUse
<1>1. LinkInv => AnnouncedBeforeUse
  BY DEF LinkInv, AnnouncedPart, AnnouncedBeforeUse
<1>2. LinkInv /\ [Next]_vars => LinkInv'
  BY NextLink
<1>3. QED
  BY <1>1, <1>2, InitLink, PTL DEF Spec

(* The continuity check never counts more gaps on a PID than there were     *)
(* runs of losses on the uplink before a packet of it, however many packets *)
(* either link loses: the downlink is never taken for the uplink.           *)
THEOREM NoGapIsInvented == Spec => [](\A pid \in AllPids : checker.gaps[pid] <= upRuns[pid])
<1>1. Init => Blamed
  BY DEF Init, Blamed, NewChecker
<1>2. LinkInv /\ Blamed /\ [Next]_vars => LinkInv' /\ Blamed'
  BY NextLink
<1>3. QED
  BY <1>1, <1>2, InitLink, PTL DEF Spec, Blamed

(* And it counts each of these runs, as long as fewer packets are lost than *)
(* the counter of a PID has values.                                         *)
THEOREM GapsAreTheUplinks ==
  ASSUME MaxLost < CcModulus
  PROVE  Spec => []GapsBlameTheUplink
<1>1. Init => GapsBlameTheUplink
  BY DEF Init, GapsBlameTheUplink, NewChecker
<1>2. LinkInv /\ GapsBlameTheUplink /\ [Next]_vars => LinkInv' /\ GapsBlameTheUplink'
  BY NextLink
<1>3. QED
  BY <1>1, <1>2, InitLink, PTL DEF Spec
-----------------------------------------------------------------------------
(* The demuxer.  The flags are right as long as no packet of the tables is  *)
(* lost: good says so.                                                      *)
Piece == [au : Pids \X (Nat \ {0}), from : Int, len : Int, at : Int]
Header == Pes \cup {NoHeader}
Partial == [exists : BOOLEAN, header : Header, declared : Int, buf : Seq(Piece), ra : BOOLEAN]
PesEvent ==
  [kind : {"pes"}, pid : Pids, header : Header, buf : Seq(Piece), ra : BOOLEAN, codec : Kind \cup {Unlisted}]
RaEvent == [kind : {"random_access"}, pid : Pids]
PmtEvent == [kind : {"pmt"}, table : Table]
Event == PesEvent \cup RaEvent \cup PmtEvent
Section == [exists : {TRUE}, len : Int, total : Nat, next : Nat, table : Table]
Demuxer ==
  [pmt_pid_known : BOOLEAN, pmt_entries : SUBSET Entry, registered : SUBSET TablePids,
   partial_psi : Section \cup {NoSection}, partials : [Pids -> Partial], last_ra : [Pids -> BOOLEAN],
   last_cc : [AllPids -> Cc \cup {NoCc}], cc_errors : [AllPids -> Nat], events : Seq(Event)]

Flagged(au, flag) == Sent(au) /\ (flag <=> Unit(au).key)
PartialOK(pid, x, good) ==
  /\ x.declared # Unbounded => x.header # NoHeader
  /\ x.header # NoHeader => Own(pid, x.header.au)
  /\ good /\ x.header # NoHeader => Flagged(x.header.au, x.ra)
EventOK(e, good) ==
  e.kind = "pes" => e.header \in Pes /\ Own(e.pid, e.header.au) /\ (good => Flagged(e.header.au, e.ra))
DemuxerOK(d, good) ==
  /\ d \in Demuxer
  /\ \A pid \in Pids : PartialOK(pid, d.partials[pid], good)
  /\ \A i \in DOMAIN d.events : EventOK(d.events[i], good)
DonePart(good) ==
  \A e \in done : e.au \in Pids \X (Nat \ {0}) /\ Sent(e.au) /\ (good => Flagged(e.au, e.ra))

(* The events of a packet: of its PID, with the codec that the table in use *)
(* has for it, or none of a PES.                                            *)
Codes(d, pid) ==
  \A i \in DOMAIN d.events : d.events[i].kind = "pes" =>
    d.events[i].pid = pid /\ d.events[i].codec = KindOf(d, pid)
NoPes(d) == \A i \in DOMAIN d.events : d.events[i].kind # "pes"

(* The PES events of a packet, and the partial PES it leaves, are those of  *)
(* the partial PES that is flushed, or not.                                 *)
Brings(d, h, buf) ==
  \E i \in DOMAIN d.events : d.events[i].kind = "pes" /\ d.events[i].header = h /\ d.events[i].buf = buf
Flushes(x) == x.declared # Unbounded /\ ~(BufLen(x.buf) < x.declared)
Left(x) == IF Flushes(x) THEN Emptied(x) ELSE x
Begun(x, ra, p) ==
  [exists |-> TRUE, header |-> p.pes, declared |-> DeclaredLen(p.pes),
   buf |-> Extended(Kept(x), p.pes.au, 0, p.len - PesHeader), ra |-> ra]
Grown(x, p) ==
  IF x.exists THEN [x EXCEPT !.buf = Extended(@, p.pes.au, p.from - PesHeader, p.len)] ELSE x
Ended(x, h, buf) == Ends(x) /\ h = x.header /\ buf = x.buf
Flushed(x, h, buf) == Flushes(x) /\ h = x.header /\ buf = x.buf
PesStarted(d, n, p) ==
  LET old == d.partials[p.pid]
      new == Begun(old, d.last_ra[p.pid], p)
  IN  /\ n.partials = [d.partials EXCEPT ![p.pid] = Left(new)]
      /\ \A h, b : Brings(n, h, b) <=> Brings(d, h, b) \/ Ended(old, h, b) \/ Flushed(new, h, b)
PesContinued(d, n, p) ==
  LET new == Grown(d.partials[p.pid], p)
  IN  /\ n.partials = [d.partials EXCEPT ![p.pid] = Left(new)]
      /\ \A h, b : Brings(n, h, b) <=> Brings(d, h, b) \/ Flushed(new, h, b)

(* The table that is being assembled goes on with the first packet of the   *)
(* wire, and the others are there whole, after a PAT.                       *)
Continues(s, p) ==
  /\ p.pid = PmtPid /\ p.part > 1 /\ p.table = s.table
  /\ s.next = p.part /\ s.len = (p.part - 1) * (PacketSize - 4) - 1 /\ s.total = p.table.size
Follows(p, q) == q.pid = PmtPid /\ q.part = p.part + 1 /\ q.table = p.table
TablesPart ==
  /\ \A i \in DOMAIN wire : wire[i].pid = PmtPid =>
       /\ wire[i].part <= PsiParts(wire[i].table.size)
       /\ wire[i].part > 1 =>
            IF i = 1 THEN demuxer.partial_psi.exists
            ELSE wire[i - 1].pid = PmtPid /\ Follows(wire[i - 1], wire[i])
       /\ wire[i].part < PsiParts(wire[i].table.size) => i + 1 \in DOMAIN wire /\ Follows(wire[i], wire[i + 1])
       /\ demuxer.pmt_pid_known \/ \E j \in 1..(i - 1) : wire[j].pid = Pat
  /\ demuxer.partial_psi.exists => wire # <<>> /\ Continues(demuxer.partial_psi, wire[1])

(* The flag travels with the first packet of a keyframe, on the PID of the  *)
(* video, which the demuxer knows when the packet arrives.                  *)
FlagPart ==
  /\ \A i \in DOMAIN wire : IsPes(wire[i]) =>
       /\ wire[i].random_access <=> wire[i].part = 1 /\ Unit(wire[i].pes.au).key
       /\ wire[i].random_access =>
            /\ wire[i].pid = Video
            /\ Video \in demuxer.registered \/ \E j \in 1..(i - 1) : EndsTableOfVideo(wire[j])
  /\ \A pid \in Pids : ~demuxer.last_ra[pid]

FlagInv ==
  /\ DemuxerOK(demuxer, psiLost = 0) /\ DonePart(psiLost = 0)
  /\ psiLost = 0 => TablesPart /\ FlagPart

LEMMA DemuxerFields ==
  ASSUME NEW d \in Demuxer
  PROVE  /\ d.pmt_pid_known \in BOOLEAN /\ d.pmt_entries \subseteq Entry /\ d.registered \subseteq TablePids
         /\ d.partial_psi \in Section \cup {NoSection} /\ d.partials \in [Pids -> Partial]
         /\ d.last_ra \in [Pids -> BOOLEAN] /\ d.last_cc \in [AllPids -> Cc \cup {NoCc}]
         /\ d.cc_errors \in [AllPids -> Nat] /\ d.events \in Seq(Event)
  BY DEF Demuxer

LEMMA KindFacts ==
  ASSUME NEW d \in Demuxer, NEW pid
  PROVE  KindOf(d, pid) \in Kind \cup {Unlisted}
<1>1. \A e \in d.pmt_entries : e.kind \in Kind
  BY DEF Demuxer, Entry, Kind
<1>2. QED
  BY <1>1 DEF KindOf

LEMMA BufFacts ==
  ASSUME NEW buf \in Seq(Piece), NEW au \in Pids \X (Nat \ {0}), NEW from \in Int, NEW len \in Int
  PROVE  LET longer == Extended(buf, au, from, len) IN
         /\ BufLen(buf) \in Int /\ longer \in Seq(Piece) /\ BufLen(longer) = BufLen(buf) + len
         /\ longer = Append(buf, [au |-> au, from |-> from, len |-> len, at |-> BufLen(buf)])
<1> DEFINE piece == [au |-> au, from |-> from, len |-> len, at |-> BufLen(buf)]
           longer == Append(buf, piece)
<1>1. BufLen(buf) \in Int
  <2>1. CASE buf = <<>>
    BY <2>1 DEF BufLen
  <2>2. CASE buf # <<>>
    <3>1. Last(buf) \in Piece
      BY <2>2 DEF Last
    <3>2. QED
      BY <2>2, <3>1 DEF BufLen, Piece
  <2>3. QED
    BY <2>1, <2>2
<1>2. piece \in Piece /\ piece.len = len /\ piece.at = BufLen(buf)
  BY <1>1 DEF Piece
<1> HIDE DEF piece
<1>3. longer \in Seq(Piece) /\ longer # <<>> /\ Last(longer) = piece
  <2>1. longer \in Seq(Piece) /\ Len(longer) = Len(buf) + 1 /\ longer[Len(buf) + 1] = piece /\ longer # <<>>
    BY <1>2, AppendProperties
  <2>2. QED
    BY <2>1 DEF Last
<1>4. BufLen(longer) = BufLen(buf) + len
  <2>1. BufLen(longer) = Last(longer).at + Last(longer).len
    BY <1>3 DEF BufLen
  <2>2. QED
    BY <1>2, <1>3, <2>1
<1>5. QED
  BY <1>1, <1>3, <1>4 DEF Extended, piece

LEMMA CodesKept ==
  ASSUME NEW d, NEW n, n.events = d.events, n.pmt_entries = d.pmt_entries
  PROVE  \A pid : Codes(d, pid) <=> Codes(n, pid)
<1>1. \A pid : KindOf(n, pid) = KindOf(d, pid)
  BY DEF KindOf
<1>2. QED
  BY <1>1 DEF Codes

(* What is the same of two demuxers when a packet of a PES is between them. *)
SameReader(d, n) ==
  /\ n.pmt_pid_known = d.pmt_pid_known /\ n.pmt_entries = d.pmt_entries
  /\ n.registered = d.registered /\ n.partial_psi = d.partial_psi
SameButPes(d, n) == SameReader(d, n) /\ n.last_ra = d.last_ra

(* One more event.                                                          *)
WithEvent(d, e) == [d EXCEPT !.events = Append(@, e)]
LEMMA EventAppended ==
  ASSUME NEW good, NEW d, DemuxerOK(d, good), NEW e \in Event, EventOK(e, good)
  PROVE  LET n == WithEvent(d, e) IN
         /\ DemuxerOK(n, good) /\ SameButPes(d, n) /\ n.partials = d.partials
         /\ n.last_cc = d.last_cc /\ n.cc_errors = d.cc_errors /\ n.events = Append(d.events, e)
<1> DEFINE s == Append(d.events, e)
           n == [d EXCEPT !.events = s]
<1>1. d \in Demuxer /\ d.events \in Seq(Event) /\ \A i \in DOMAIN d.events : EventOK(d.events[i], good)
  BY DEF DemuxerOK, Demuxer
<1>2. s \in Seq(Event) /\ \A i \in DOMAIN s : (i \in DOMAIN d.events /\ s[i] = d.events[i]) \/ s[i] = e
  BY <1>1
<1>3. \A i \in DOMAIN s : EventOK(s[i], good)
  BY <1>1, <1>2
<1> HIDE DEF s
<1>4. /\ n \in Demuxer /\ n.events = s /\ n.partials = d.partials /\ n.last_ra = d.last_ra
      /\ n.pmt_pid_known = d.pmt_pid_known /\ n.pmt_entries = d.pmt_entries
      /\ n.registered = d.registered /\ n.partial_psi = d.partial_psi
      /\ n.last_cc = d.last_cc /\ n.cc_errors = d.cc_errors
  BY <1>1, <1>2 DEF Demuxer
<1>5. n = WithEvent(d, e)
  BY DEF s, WithEvent
<1> HIDE DEF n
<1>6. DemuxerOK(n, good)
  BY <1>3, <1>4 DEF DemuxerOK
<1>7. QED
  BY <1>4, <1>5, <1>6 DEF SameButPes, SameReader, s

(* Another partial PES.                                                     *)
LEMMA PartialReplaced ==
  ASSUME NEW good, NEW d, DemuxerOK(d, good), NEW pid \in Pids, NEW x \in Partial, PartialOK(pid, x, good)
  PROVE  LET n == [d EXCEPT !.partials[pid] = x] IN
         /\ DemuxerOK(n, good) /\ SameButPes(d, n) /\ n.events = d.events
         /\ n.partials = [d.partials EXCEPT ![pid] = x]
<1> DEFINE s == [d.partials EXCEPT ![pid] = x]
           n == [d EXCEPT !.partials = s]
<1>1. d \in Demuxer /\ d.partials \in [Pids -> Partial]
  BY DEF DemuxerOK, Demuxer
<1>2. s \in [Pids -> Partial] /\ \A q \in Pids : s[q] = IF q = pid THEN x ELSE d.partials[q]
  BY <1>1
<1>3. n = [d EXCEPT !.partials[pid] = x]
  BY <1>1 DEF Demuxer
<1> HIDE DEF s
<1>4. /\ n \in Demuxer /\ n.partials = s /\ n.last_ra = d.last_ra /\ n.events = d.events
      /\ n.pmt_pid_known = d.pmt_pid_known /\ n.pmt_entries = d.pmt_entries
      /\ n.registered = d.registered /\ n.partial_psi = d.partial_psi
  BY <1>1, <1>2 DEF Demuxer
<1> HIDE DEF n
<1>5. DemuxerOK(n, good)
  BY <1>2, <1>4 DEF DemuxerOK
<1>6. QED
  BY <1>3, <1>4, <1>5 DEF SameButPes, SameReader, s

LEMMA Finalized ==
  ASSUME NEW good, NEW d, DemuxerOK(d, good), NEW pid \in Pids, NEW header \in Pes,
         NEW buf \in Seq(Piece), NEW ra \in BOOLEAN, Own(pid, header.au), good => Flagged(header.au, ra)
  PROVE  LET n == FinalizePes(d, pid, header, buf, ra) IN
         /\ DemuxerOK(n, good) /\ SameButPes(d, n) /\ n.partials = d.partials
         /\ Codes(d, pid) => Codes(n, pid)
         /\ \A h, b : Brings(n, h, b) <=> Brings(d, h, b) \/ (h = header /\ b = buf)
<1> DEFINE e == [kind |-> "pes", pid |-> pid, header |-> header, buf |-> buf, ra |-> ra,
                 codec |-> KindOf(d, pid)]
<1>1. KindOf(d, pid) \in Kind \cup {Unlisted}
  BY KindFacts DEF DemuxerOK
<1>2. e \in Event
  BY <1>1 DEF Event, PesEvent, Header
<1>3. EventOK(e, good)
  BY DEF EventOK
<1>4. FinalizePes(d, pid, header, buf, ra) = WithEvent(d, e)
  BY DEF FinalizePes, WithEvent
<1>5. e.kind = "pes" /\ e.pid = pid /\ e.codec = KindOf(d, pid) /\ e.header = header /\ e.buf = buf
  OBVIOUS
<1> HIDE DEF e
<1> DEFINE n == WithEvent(d, e)
<1>6. DemuxerOK(n, good) /\ SameButPes(d, n) /\ n.partials = d.partials /\ n.events = Append(d.events, e)
  BY <1>2, <1>3, EventAppended
<1> HIDE DEF n
<1> DEFINE old == d.events
           new == n.events
<1>7. /\ \A i \in DOMAIN new : (i \in DOMAIN old /\ new[i] = old[i]) \/ new[i] = e
      /\ \A i \in DOMAIN old : i \in DOMAIN new /\ new[i] = old[i]
      /\ \E i \in DOMAIN new : new[i] = e
  <2>1. d.events \in Seq(Event)
    BY DemuxerFields DEF DemuxerOK
  <2>2. new = Append(old, e) /\ old \in Seq(Event)
    BY <1>6, <2>1
  <2> HIDE DEF old, new
  <2>3. Len(old) + 1 \in DOMAIN new /\ new[Len(old) + 1] = e
    BY <2>2
  <2>4. QED
    BY <2>2, <2>3
<1>8. ASSUME Codes(d, pid) PROVE Codes(n, pid)
  <2>1. KindOf(n, pid) = KindOf(d, pid)
    BY <1>6 DEF KindOf, SameButPes, SameReader
  <2>2. QED
    BY <1>5, <1>7, <1>8, <2>1 DEF Codes
<1>9. \A h, b : Brings(n, h, b) <=> Brings(d, h, b) \/ (h = header /\ b = buf)
  BY <1>5, <1>7 DEF Brings
<1>10. QED
  BY <1>4, <1>6, <1>8, <1>9 DEF n

LEMMA NoHeaderFacts ==
  /\ NoHeader.au = <<>> /\ NoPartial.header = NoHeader /\ NoPartial.declared = Unbounded
  /\ \A h \in Header : h # NoHeader => h \in Pes
  /\ \A h \in Pes : h # NoHeader
  /\ \A p : Emptied(p) \in Partial /\ \A pid, good : PartialOK(pid, Emptied(p), good)
<1>1. NoHeader = [au |-> <<>>, size |-> PesHeader + 0, bounded |-> FALSE]
  BY DEF NoHeader, BuildPes
<1>2. \A h \in Pes : h.au # <<>>
  <2>1. \A x \in Pids, n \in Nat \ {0} : Len(<<x, n>>) = 2 /\ Len(<<>>) = 0
    OBVIOUS
  <2>2. \A au \in Pids \X (Nat \ {0}) : au # <<>>
    BY <2>1
  <2>3. QED
    BY <2>2 DEF Pes
<1>3. NoPartial.header = NoHeader /\ NoPartial.declared = Unbounded
  BY DEF NoPartial
<1>4. ASSUME NEW p PROVE Emptied(p) \in Partial /\ \A pid, good : PartialOK(pid, Emptied(p), good)
  <2> DEFINE yes == TRUE
             no == FALSE
             h == NoHeader
  <2>1. Emptied(p) = [exists |-> yes, header |-> h, declared |-> Unbounded, buf |-> <<>>, ra |-> no]
    <3>1. Emptied(p) = [NoPartial EXCEPT !.exists = yes]
      BY DEF Emptied
    <3>2. NoPartial = [exists |-> no, header |-> h, declared |-> Unbounded, buf |-> <<>>, ra |-> no]
      BY DEF NoPartial
    <3> HIDE DEF yes, no, h
    <3>3. QED
      BY <3>1, <3>2
  <2>2. <<>> \in Seq(Piece) /\ Unbounded \in Int /\ NoHeader \in Header
    BY DEF Unbounded, Header
  <2>3. yes \in BOOLEAN /\ no \in BOOLEAN
    OBVIOUS
  <2> HIDE DEF yes, no
  <2>4. QED
    BY <2>1, <2>2, <2>3 DEF Partial, PartialOK
<1>5. QED
  BY <1>1, <1>2, <1>3, <1>4 DEF Header

LEMMA FlushFacts ==
  ASSUME NEW good, NEW d, DemuxerOK(d, good), NEW pid \in Pids
  PROVE  LET n == MaybeFlush(d, pid) IN
         /\ DemuxerOK(n, good) /\ SameButPes(d, n) /\ (Codes(d, pid) => Codes(n, pid))
         /\ n.partials = [d.partials EXCEPT ![pid] = Left(d.partials[pid])]
         /\ \A h, b : Brings(n, h, b) <=> Brings(d, h, b) \/ Flushed(d.partials[pid], h, b)
<1> DEFINE p == d.partials[pid]
           k == [d EXCEPT !.partials[pid] = Emptied(p)]
<1>1. p \in Partial /\ PartialOK(pid, p, good) /\ d.partials \in [Pids -> Partial]
  BY DEF DemuxerOK, Demuxer
<1>2. CASE p.declared = Unbounded \/ BufLen(p.buf) < p.declared
  <2>1. ~Flushes(p) /\ MaybeFlush(d, pid) = d
    BY <1>2 DEF MaybeFlush, Flushes
  <2>2. d.partials = [d.partials EXCEPT ![pid] = Left(p)]
    BY <1>1, <2>1 DEF Left
  <2> HIDE DEF p
  <2>3. QED
    BY <2>1, <2>2 DEF SameButPes, SameReader, Flushed, p
<1>3. CASE ~(p.declared = Unbounded \/ BufLen(p.buf) < p.declared)
  <2>1. MaybeFlush(d, pid) = FinalizePes(k, pid, p.header, p.buf, p.ra)
    BY <1>3 DEF MaybeFlush
  <2>2. /\ p.header \in Pes /\ p.buf \in Seq(Piece) /\ p.ra \in BOOLEAN
        /\ Own(pid, p.header.au) /\ (good => Flagged(p.header.au, p.ra))
    BY <1>1, <1>3, NoHeaderFacts DEF PartialOK, Partial
  <2>3. Emptied(p) \in Partial /\ PartialOK(pid, Emptied(p), good)
    BY NoHeaderFacts
  <2>4. /\ DemuxerOK(k, good) /\ SameButPes(d, k) /\ k.events = d.events
        /\ k.partials = [d.partials EXCEPT ![pid] = Emptied(p)]
    BY <2>3, PartialReplaced
  <2>8. Flushes(p)
    BY <1>3 DEF Flushes
  <2> HIDE DEF k, p
  <2>5. Codes(d, pid) => Codes(k, pid)
    BY <2>4, CodesKept DEF SameButPes, SameReader
  <2> DEFINE n == MaybeFlush(d, pid)
  <2>6. /\ DemuxerOK(n, good) /\ SameButPes(k, n) /\ (Codes(k, pid) => Codes(n, pid)) /\ n.partials = k.partials
        /\ \A h, b : Brings(n, h, b) <=> Brings(k, h, b) \/ (h = p.header /\ b = p.buf)
    BY <2>1, <2>2, <2>4, Finalized
  <2> HIDE DEF n
  <2>9. \A h, b : Brings(k, h, b) <=> Brings(d, h, b)
    BY <2>4 DEF Brings
  <2>10. \A h, b : Brings(n, h, b) <=> Brings(d, h, b) \/ Flushed(p, h, b)
    BY <2>6, <2>8, <2>9 DEF Flushed
  <2>7. QED
    BY <2>4, <2>5, <2>6, <2>8, <2>10 DEF SameButPes, SameReader, n, p, Left
<1>4. QED
  BY <1>2, <1>3

LEMMA PesStartFacts ==
  ASSUME NEW good, NEW d, DemuxerOK(d, good), NEW p \in PesPkt, Own(p.pid, p.pes.au),
         good => Flagged(p.pes.au, d.last_ra[p.pid])
  PROVE  LET n == PesStart(d, p) IN
         /\ DemuxerOK(n, good) /\ SameReader(d, n) /\ n.last_ra = [d.last_ra EXCEPT ![p.pid] = FALSE]
         /\ Codes(d, p.pid) => Codes(n, p.pid)
         /\ PesStarted(d, n, p)
<1> DEFINE pid == p.pid
           old == d.partials[pid]
           ra == d.last_ra[pid]
           buf == Extended(Kept(old), p.pes.au, 0, p.len - PesHeader)
           new == [exists |-> TRUE, header |-> p.pes, declared |-> DeclaredLen(p.pes), buf |-> buf, ra |-> ra]
           flags == [d.last_ra EXCEPT ![pid] = FALSE]
           k == [d EXCEPT !.last_ra = flags]
           started == [k EXCEPT !.partials[pid] = new]
           ended == IF Ends(old) THEN FinalizePes(started, pid, old.header, old.buf, old.ra) ELSE started
<1>1. pid \in Pids /\ p.pes \in Pes /\ p.len \in Int /\ d \in Demuxer
  BY DEF PesPkt, DemuxerOK
<1>2. /\ d.partials \in [Pids -> Partial] /\ d.last_ra \in [Pids -> BOOLEAN] /\ old \in Partial
      /\ ra \in BOOLEAN /\ PartialOK(pid, old, good)
  BY <1>1, DemuxerFields DEF DemuxerOK
<1>3. /\ old.buf \in Seq(Piece) /\ old.ra \in BOOLEAN
      /\ old.header # NoHeader =>
           old.header \in Pes /\ Own(pid, old.header.au) /\ (good => Flagged(old.header.au, old.ra))
  BY <1>2, NoHeaderFacts DEF Partial, PartialOK
<1>4. new \in Partial /\ PartialOK(pid, new, good)
  <2> DEFINE yes == TRUE
             declared == DeclaredLen(p.pes)
             h == p.pes
             x == [exists |-> yes, header |-> h, declared |-> declared, buf |-> buf, ra |-> ra]
  <2>1. buf \in Seq(Piece)
    <3>1. Kept(old) \in Seq(Piece)
      BY <1>3 DEF Kept
    <3>2. p.pes.au \in Pids \X (Nat \ {0}) /\ 0 \in Int /\ p.len - PesHeader \in Int
      BY <1>1 DEF Pes, PesHeader
    <3>3. QED
      BY <3>1, <3>2, BufFacts
  <2>2. declared \in Int
    BY <1>1 DEF DeclaredLen, Pes, PesHeader, Unbounded
  <2>3. h \in Header /\ h # NoHeader /\ yes \in BOOLEAN /\ Own(pid, h.au) /\ (good => Flagged(h.au, ra))
    BY <1>1, NoHeaderFacts DEF Header
  <2> HIDE DEF yes, declared, h, buf, ra
  <2>4. x \in Partial /\ x.header = h /\ x.ra = ra
    BY <1>2, <2>1, <2>2, <2>3 DEF Partial
  <2> HIDE DEF x
  <2>5. PartialOK(pid, x, good)
    BY <2>3, <2>4 DEF PartialOK
  <2>6. QED
    BY <2>4, <2>5 DEF x, h, yes, declared
<1>5. flags \in [Pids -> BOOLEAN]
  BY <1>1, <1>2
<1> HIDE DEF new, flags
<1>6. /\ DemuxerOK(k, good) /\ SameReader(d, k) /\ k.last_ra = flags /\ k.partials = d.partials
      /\ k.events = d.events
  <2>1. /\ k \in Demuxer /\ k.partials = d.partials /\ k.last_ra = flags /\ k.events = d.events
        /\ k.pmt_pid_known = d.pmt_pid_known /\ k.pmt_entries = d.pmt_entries
        /\ k.registered = d.registered /\ k.partial_psi = d.partial_psi
    BY <1>1, <1>5 DEF Demuxer
  <2> HIDE DEF k
  <2>2. QED
    BY <2>1 DEF DemuxerOK, SameReader
<1> HIDE DEF k
<1>7. /\ DemuxerOK(started, good) /\ SameButPes(k, started) /\ started.events = k.events
      /\ started.partials = [k.partials EXCEPT ![pid] = new]
  BY <1>1, <1>4, <1>6, PartialReplaced
<1> HIDE DEF started
<1>8. /\ DemuxerOK(ended, good) /\ SameButPes(started, ended) /\ (Codes(started, pid) => Codes(ended, pid))
      /\ ended.partials = started.partials
      /\ \A h, b : Brings(ended, h, b) <=> Brings(started, h, b) \/ Ended(old, h, b)
  <2>1. CASE Ends(old)
    <3> DEFINE h == old.header
               b == old.buf
               r == old.ra
    <3>1. h \in Pes /\ b \in Seq(Piece) /\ r \in BOOLEAN /\ Own(pid, h.au) /\ (good => Flagged(h.au, r))
      BY <1>3, <2>1 DEF Ends
    <3>2. ended = FinalizePes(started, pid, h, b, r)
      BY <2>1
    <3>4. \A x, y : Ended(old, x, y) <=> x = h /\ y = b
      BY <2>1 DEF Ended
    <3> HIDE DEF h, b, r, ended
    <3>3. QED
      BY <1>1, <1>7, <3>1, <3>2, <3>4, Finalized
  <2>2. CASE ~Ends(old)
    BY <1>7, <2>2 DEF SameButPes, SameReader, Ended
  <2>3. QED
    BY <2>1, <2>2
<1>9. PesStart(d, p) = MaybeFlush(ended, pid)
  <2>1. started = [d EXCEPT !.partials[pid] = new, !.last_ra[pid] = FALSE]
    <3>1. started = [[d EXCEPT !.last_ra = flags] EXCEPT !.partials = [d.partials EXCEPT ![pid] = new]]
      BY <1>1, <1>6 DEF started, k, Demuxer
    <3>2. [d EXCEPT !.partials[pid] = new, !.last_ra[pid] = FALSE]
            = [[d EXCEPT !.partials = [d.partials EXCEPT ![pid] = new]] EXCEPT !.last_ra = flags]
      BY <1>1 DEF Demuxer, flags
    <3>3. QED
      BY <1>1, <3>1, <3>2 DEF Demuxer
  <2>2. PesStart(d, p) = MaybeFlush(IF Ends(old) THEN FinalizePes(started, pid, old.header, old.buf, FlushedFlag(d, pid))
                                    ELSE started, pid)
    BY <2>1 DEF PesStart, new
  <2>3. FlushedFlag(d, pid) = old.ra
    BY DEF FlushedFlag
  <2>4. QED
    BY <2>2, <2>3
<1> HIDE DEF ended
<1> DEFINE n == MaybeFlush(ended, pid)
<1>10. /\ DemuxerOK(n, good) /\ SameButPes(ended, n) /\ (Codes(ended, pid) => Codes(n, pid))
       /\ n.partials = [ended.partials EXCEPT ![pid] = Left(ended.partials[pid])]
       /\ \A h, b : Brings(n, h, b) <=> Brings(ended, h, b) \/ Flushed(ended.partials[pid], h, b)
  BY <1>1, <1>8, FlushFacts
<1> HIDE DEF n
<1>11. new = Begun(old, ra, p)
  BY DEF new, Begun
<1>12. ended.partials = [d.partials EXCEPT ![pid] = new] /\ ended.partials[pid] = new
  <2>1. ended.partials = [d.partials EXCEPT ![pid] = new]
    BY <1>6, <1>7, <1>8
  <2>2. QED
    BY <1>1, <1>2, <2>1
<1>13. n.partials = [d.partials EXCEPT ![pid] = Left(new)]
  BY <1>1, <1>2, <1>10, <1>12
<1>14. \A h, b : Brings(n, h, b) <=> Brings(d, h, b) \/ Ended(old, h, b) \/ Flushed(new, h, b)
  <2>1. \A h, b : Brings(started, h, b) <=> Brings(d, h, b)
    BY <1>6, <1>7 DEF Brings
  <2>2. QED
    BY <1>8, <1>10, <1>12, <2>1
<1>15. Codes(d, pid) => Codes(n, pid)
  <2>1. started.events = d.events /\ started.pmt_entries = d.pmt_entries
    BY <1>6, <1>7 DEF SameButPes, SameReader
  <2>2. Codes(d, pid) => Codes(started, pid)
    BY <2>1, CodesKept
  <2>3. QED
    BY <1>8, <1>10, <2>2
<1>16. PesStarted(d, n, p)
  BY <1>11, <1>13, <1>14 DEF PesStarted
<1>17. QED
  BY <1>6, <1>7, <1>8, <1>9, <1>10, <1>15, <1>16 DEF SameButPes, SameReader, flags, n

LEMMA PesContinuationFacts ==
  ASSUME NEW good, NEW d, DemuxerOK(d, good), NEW p \in PesPkt
  PROVE  LET n == PesContinuation(d, p) IN
         /\ DemuxerOK(n, good) /\ SameButPes(d, n) /\ (Codes(d, p.pid) => Codes(n, p.pid))
         /\ PesContinued(d, n, p)
<1> DEFINE pid == p.pid
           old == d.partials[pid]
           buf == Extended(old.buf, p.pes.au, p.from - PesHeader, p.len)
           new == [old EXCEPT !.buf = buf]
           k == IF old.exists THEN [d EXCEPT !.partials[pid].buf = Extended(@, p.pes.au, p.from - PesHeader, p.len)]
                ELSE d
<1>1. pid \in Pids /\ p.pes \in Pes /\ p.len \in Int /\ p.from \in Int /\ d \in Demuxer
  BY DEF PesPkt, DemuxerOK
<1>2. d.partials \in [Pids -> Partial] /\ old \in Partial /\ PartialOK(pid, old, good)
  BY <1>1, DemuxerFields DEF DemuxerOK
<1>3. new \in Partial /\ PartialOK(pid, new, good)
  <2>1. p.pes.au \in Pids \X (Nat \ {0}) /\ p.from - PesHeader \in Int
    BY <1>1 DEF Pes, PesHeader
  <2>2. buf \in Seq(Piece)
    BY <1>1, <1>2, <2>1, BufFacts DEF Partial
  <2> HIDE DEF buf
  <2>3. new \in Partial /\ new.declared = old.declared /\ new.header = old.header /\ new.ra = old.ra
    BY <1>2, <2>2 DEF Partial
  <2> HIDE DEF new
  <2>4. QED
    BY <1>2, <2>3 DEF PartialOK
<1>4. Grown(old, p) = IF old.exists THEN new ELSE old
  BY DEF Grown
<1>5. /\ DemuxerOK(k, good) /\ SameButPes(d, k) /\ k.events = d.events
      /\ k.partials = [d.partials EXCEPT ![pid] = Grown(old, p)]
  <2>1. CASE old.exists
    <3>1. k = [d EXCEPT !.partials[pid] = new] /\ Grown(old, p) = new
      BY <1>1, <1>2, <1>4, <2>1 DEF Demuxer, Partial
    <3> HIDE DEF k, new
    <3>2. QED
      BY <1>1, <1>3, <3>1, PartialReplaced
  <2>2. CASE ~old.exists
    <3>1. d.partials = [d.partials EXCEPT ![pid] = old]
      BY <1>1, <1>2
    <3> HIDE DEF old
    <3>2. QED
      BY <1>4, <2>2, <3>1 DEF SameButPes, SameReader
  <2>3. QED
    BY <2>1, <2>2
<1>6. PesContinuation(d, p) = MaybeFlush(k, pid)
  BY DEF PesContinuation
<1> HIDE DEF k
<1> DEFINE n == MaybeFlush(k, pid)
<1>7. /\ DemuxerOK(n, good) /\ SameButPes(k, n) /\ (Codes(k, pid) => Codes(n, pid))
      /\ n.partials = [k.partials EXCEPT ![pid] = Left(k.partials[pid])]
      /\ \A h, b : Brings(n, h, b) <=> Brings(k, h, b) \/ Flushed(k.partials[pid], h, b)
  BY <1>1, <1>5, FlushFacts
<1> HIDE DEF n
<1>8. Codes(d, pid) => Codes(k, pid)
  BY <1>5, CodesKept DEF SameButPes, SameReader
<1>9. k.partials[pid] = Grown(old, p) /\ n.partials = [d.partials EXCEPT ![pid] = Left(Grown(old, p))]
  BY <1>1, <1>2, <1>5, <1>7
<1>10. \A h, b : Brings(n, h, b) <=> Brings(d, h, b) \/ Flushed(Grown(old, p), h, b)
  BY <1>5, <1>7, <1>9 DEF Brings
<1>11. PesContinued(d, n, p)
  BY <1>9, <1>10 DEF PesContinued
<1>12. QED
  BY <1>5, <1>6, <1>7, <1>8, <1>11 DEF SameButPes, SameReader, n

(* The first half of handle_packet.                                         *)
Seen(d, p) == CheckContinuity(RandomAccess([d EXCEPT !.events = <<>>], p), p)

LEMMA SeenFacts ==
  ASSUME NEW good, NEW d, DemuxerOK(d, good), NEW p \in Packet
  PROVE  /\ DemuxerOK(Seen(d, p), good) /\ SameReader(d, Seen(d, p)) /\ NoPes(Seen(d, p))
         /\ Seen(d, p).last_ra = IF IsPes(p) /\ p.random_access THEN [d.last_ra EXCEPT ![p.pid] = TRUE] ELSE d.last_ra
         /\ Seen(d, p).partials = d.partials
<1> DEFINE k == [d EXCEPT !.events = <<>>]
           flags == IF IsPes(p) /\ p.random_access THEN [d.last_ra EXCEPT ![p.pid] = TRUE] ELSE d.last_ra
           r == RandomAccess(k, p)
<1>1. /\ DemuxerOK(k, good) /\ SameButPes(d, k) /\ k.last_ra = d.last_ra /\ NoPes(k) /\ k.events = <<>>
      /\ k.partials = d.partials
  <2>1. d \in Demuxer /\ <<>> \in Seq(Event) /\ DOMAIN <<>> = {}
    BY DEF DemuxerOK
  <2>2. /\ k \in Demuxer /\ k.events = <<>> /\ k.partials = d.partials /\ k.last_ra = d.last_ra
        /\ k.pmt_pid_known = d.pmt_pid_known /\ k.pmt_entries = d.pmt_entries
        /\ k.registered = d.registered /\ k.partial_psi = d.partial_psi
    BY <2>1 DEF Demuxer
  <2> HIDE DEF k
  <2>3. QED
    BY <2>1, <2>2 DEF DemuxerOK, SameButPes, SameReader, NoPes
<1> HIDE DEF k
<1>2. DemuxerOK(r, good) /\ SameReader(d, r) /\ r.last_ra = flags /\ NoPes(r) /\ r.partials = d.partials
  <2>1. CASE IsPes(p) /\ p.random_access
    <3> DEFINE e == [kind |-> "random_access", pid |-> p.pid]
               a == [k EXCEPT !.last_ra = flags]
    <3>1. p.pid \in Pids /\ e \in Event /\ EventOK(e, good) /\ e.kind # "pes"
      BY <2>1 DEF IsPes, Event, RaEvent, EventOK
    <3>2. flags \in [Pids -> BOOLEAN] /\ k \in Demuxer
      BY <1>1, <3>1, DemuxerFields DEF DemuxerOK
    <3>3. r = WithEvent(a, e)
      <4>1. r = [k EXCEPT !.last_ra[p.pid] = TRUE, !.events = Append(@, e)]
        BY <2>1 DEF RandomAccess
      <4>2. flags = [k.last_ra EXCEPT ![p.pid] = TRUE]
        BY <1>1, <2>1
      <4>3. r = [[k EXCEPT !.last_ra = [k.last_ra EXCEPT ![p.pid] = TRUE]] EXCEPT !.events = Append(k.events, e)]
        BY <3>2, <4>1 DEF Demuxer
      <4>4. a.events = k.events
        BY <3>2 DEF Demuxer
      <4>5. QED
        BY <4>2, <4>3, <4>4 DEF WithEvent
    <3> HIDE DEF e, flags
    <3>4. /\ DemuxerOK(a, good) /\ SameReader(d, a) /\ a.last_ra = flags /\ a.events = <<>>
          /\ a.partials = d.partials
      <4>1. /\ a \in Demuxer /\ a.events = k.events /\ a.partials = k.partials /\ a.last_ra = flags
            /\ a.pmt_pid_known = k.pmt_pid_known /\ a.pmt_entries = k.pmt_entries
            /\ a.registered = k.registered /\ a.partial_psi = k.partial_psi
        BY <3>2 DEF Demuxer
      <4> HIDE DEF a
      <4>2. QED
        BY <1>1, <4>1 DEF DemuxerOK, SameButPes, SameReader
    <3> HIDE DEF a
    <3>5. /\ DemuxerOK(WithEvent(a, e), good) /\ SameButPes(a, WithEvent(a, e)) /\ WithEvent(a, e).events = Append(<<>>, e)
          /\ WithEvent(a, e).partials = a.partials
      BY <3>1, <3>4, EventAppended
    <3>6. \A i \in DOMAIN Append(<<>>, e) : Append(<<>>, e)[i] = e
      OBVIOUS
    <3>7. QED
      BY <3>1, <3>3, <3>4, <3>5, <3>6 DEF SameButPes, SameReader, NoPes
  <2>2. CASE ~(IsPes(p) /\ p.random_access)
    BY <1>1, <2>2 DEF RandomAccess, SameButPes
  <2>3. QED
    BY <2>1, <2>2
<1> HIDE DEF r
<1>3. /\ DemuxerOK(CheckContinuity(r, p), good) /\ SameButPes(r, CheckContinuity(r, p))
      /\ NoPes(CheckContinuity(r, p)) /\ CheckContinuity(r, p).partials = r.partials
  <2> DEFINE last == r.last_cc[p.pid]
             gap == last # NoCc /\ p.cc # (last + 1) % CcModulus
             cc == [r.last_cc EXCEPT ![p.pid] = p.cc]
             errors == [r.cc_errors EXCEPT ![p.pid] = IF gap THEN @ + 1 ELSE @]
             n == [r EXCEPT !.cc_errors = errors, !.last_cc = cc]
  <2>1. p.pid \in AllPids /\ p.cc \in Cc /\ r \in Demuxer
    BY <1>2, PacketFacts DEF DemuxerOK
  <2>2. cc \in [AllPids -> Cc \cup {NoCc}] /\ errors \in [AllPids -> Nat]
    <3> HIDE DEF gap
    <3>1. QED
      BY <2>1, DemuxerFields
  <2>3. CheckContinuity(r, p) = n
    BY <2>1 DEF CheckContinuity, Demuxer
  <2> HIDE DEF cc, errors
  <2>4. /\ n \in Demuxer /\ n.events = r.events /\ n.partials = r.partials /\ n.last_ra = r.last_ra
        /\ n.pmt_pid_known = r.pmt_pid_known /\ n.pmt_entries = r.pmt_entries
        /\ n.registered = r.registered /\ n.partial_psi = r.partial_psi
    BY <2>1, <2>2 DEF Demuxer
  <2> HIDE DEF n
  <2>5. QED
    BY <1>2, <2>3, <2>4 DEF DemuxerOK, SameButPes, SameReader, NoPes
<1>4. Seen(d, p) = CheckContinuity(r, p)
  BY DEF Seen, r, k
<1>5. QED
  BY <1>2, <1>3, <1>4 DEF SameButPes, SameReader

SamePartials(d, n) == n.partials = d.partials /\ d.registered \subseteq n.registered

(* A table registers the PIDs of its entries.                               *)
LEMMA HandlePmtFacts ==
  ASSUME NEW good, NEW d, DemuxerOK(d, good), NEW table \in Table
  PROVE  LET n == HandlePmt(d, table) IN
         /\ DemuxerOK(n, good) /\ n.pmt_pid_known = d.pmt_pid_known /\ n.last_ra = d.last_ra
         /\ n.partial_psi = d.partial_psi /\ n.pmt_entries = table.entries
         /\ n.registered = d.registered \cup {e.pid : e \in table.entries}
         /\ n.partials = d.partials /\ (NoPes(d) => NoPes(n))
<1> DEFINE e == [kind |-> "pmt", table |-> table]
           pids == d.registered \cup {x.pid : x \in table.entries}
           k == [d EXCEPT !.pmt_entries = table.entries, !.registered = pids]
<1>1. d \in Demuxer /\ table.entries \subseteq Entry /\ e \in Event /\ EventOK(e, good) /\ e.kind = "pmt"
  BY DEF DemuxerOK, Table, Event, PmtEvent, EventOK
<1>2. pids \subseteq TablePids
  <2>1. \A x \in Entry : x.pid \in TablePids
    BY SMTT(30) DEF Entry
  <2>2. QED
    BY <1>1, <2>1, DemuxerFields
<1> HIDE DEF e, pids
<1>3. /\ k \in Demuxer /\ k.events = d.events /\ k.partials = d.partials /\ k.last_ra = d.last_ra
      /\ k.pmt_pid_known = d.pmt_pid_known /\ k.registered = pids /\ k.partial_psi = d.partial_psi
      /\ k.pmt_entries = table.entries
  BY <1>1, <1>2 DEF Demuxer
<1>4. HandlePmt(d, table) = WithEvent(k, e)
  BY <1>1, <1>3 DEF HandlePmt, WithEvent, Demuxer, pids, e
<1> HIDE DEF k
<1>5. DemuxerOK(k, good)
  BY <1>3 DEF DemuxerOK
<1> DEFINE n == WithEvent(k, e)
<1>6. DemuxerOK(n, good) /\ SameButPes(k, n) /\ n.events = Append(k.events, e) /\ n.partials = k.partials
  BY <1>1, <1>5, EventAppended
<1> HIDE DEF n
<1>7. ASSUME NoPes(d) PROVE NoPes(n)
  <2> DEFINE old == d.events
             new == n.events
  <2>1. \A i \in DOMAIN new : (i \in DOMAIN old /\ new[i] = old[i]) \/ new[i] = e
    <3>1. new = Append(old, e) /\ old \in Seq(Event)
      BY <1>1, <1>3, <1>6, DemuxerFields
    <3> HIDE DEF old, new
    <3>2. QED
      BY <3>1
  <2>2. QED
    BY <1>1, <1>7, <2>1 DEF NoPes
<1>8. QED
  BY <1>3, <1>4, <1>6, <1>7 DEF SameButPes, SameReader, pids, n

(* The section that is being assembled.                                     *)
LEMMA SectionReplaced ==
  ASSUME NEW good, NEW d, DemuxerOK(d, good), NEW s \in Section \cup {NoSection}
  PROVE  LET n == [d EXCEPT !.partial_psi = s] IN
         /\ DemuxerOK(n, good) /\ n.pmt_pid_known = d.pmt_pid_known /\ n.last_ra = d.last_ra
         /\ n.partial_psi = s /\ n.registered = d.registered /\ n.pmt_entries = d.pmt_entries
         /\ n.events = d.events /\ n.partials = d.partials
<1> DEFINE n == [d EXCEPT !.partial_psi = s]
<1>1. d \in Demuxer
  BY DEF DemuxerOK
<1>2. /\ n \in Demuxer /\ n.events = d.events /\ n.partials = d.partials /\ n.last_ra = d.last_ra
      /\ n.pmt_pid_known = d.pmt_pid_known /\ n.registered = d.registered /\ n.partial_psi = s
      /\ n.pmt_entries = d.pmt_entries
  BY <1>1 DEF Demuxer
<1> HIDE DEF n
<1>3. QED
  BY <1>2 DEF DemuxerOK, n

LEMMA SectionFacts ==
  ASSUME NEW p \in PmtPkt
  PROVE  /\ StartSection(p) \in Section
         /\ \A s \in Section : ContinueSection(s, p) \in Section
<1>1. /\ p.table \in Table /\ p.table.size \in Nat /\ p.part \in Nat /\ PacketSize \in Nat
      /\ MisreadSize \in Nat
  BY MuxerAssumption, DemuxerAssumption DEF PmtPkt, Table
<1>2. StartSection(p) \in Section
  <2> DEFINE l == PacketSize - 5
             t == IF p.part = 1 THEN p.table.size ELSE MisreadSize
             n == IF p.part = 1 THEN 2 ELSE 0
             yes == TRUE
  <2>1. l \in Int /\ t \in Nat /\ n \in Nat /\ yes \in {TRUE}
    BY <1>1
  <2>2. StartSection(p) = [exists |-> yes, len |-> l, total |-> t, next |-> n, table |-> p.table]
    BY DEF StartSection
  <2> HIDE DEF l, t, n, yes
  <2>3. QED
    BY <1>1, <2>1, <2>2 DEF Section
<1>3. ASSUME NEW s \in Section PROVE ContinueSection(s, p) \in Section
  <2> DEFINE l == s.len + PacketSize - 4
             n == IF s.next = p.part /\ p.table = s.table THEN s.next + 1 ELSE 0
  <2>1. l \in Int /\ n \in Nat
    BY <1>1 DEF Section
  <2>2. ContinueSection(s, p) = [s EXCEPT !.len = l, !.next = n]
    BY DEF ContinueSection, Section
  <2> HIDE DEF l, n
  <2>3. QED
    BY <2>1, <2>2 DEF Section
<1>4. QED
  BY <1>2, <1>3

LEMMA AssemblePsiFacts ==
  ASSUME NEW good, NEW d, DemuxerOK(d, good), NEW p \in PmtPkt
  PROVE  LET s == IF d.partial_psi.exists THEN ContinueSection(d.partial_psi, p) ELSE StartSection(p)
             n == AssemblePsi(d, p)
         IN  /\ s \in Section
             /\ DemuxerOK(n, good) /\ n.pmt_pid_known = d.pmt_pid_known /\ n.last_ra = d.last_ra
             /\ SamePartials(d, n)
             /\ s.len < s.total => n.partial_psi = s
             /\ ~(s.len < s.total) => ~n.partial_psi.exists
             /\ ~(s.len < s.total) /\ s.next # 0 => {e.pid : e \in s.table.entries} \subseteq n.registered
             /\ n.pmt_entries = IF ~(s.len < s.total) /\ s.next # 0 THEN s.table.entries ELSE d.pmt_entries
             /\ NoPes(d) => NoPes(n)
<1> DEFINE s == IF d.partial_psi.exists THEN ContinueSection(d.partial_psi, p) ELSE StartSection(p)
           n == AssemblePsi(d, p)
           k == [d EXCEPT !.partial_psi = NoSection]
<1>1. ~NoSection.exists
  BY DEF NoSection
<1>2. s \in Section
  <2>1. d.partial_psi.exists => d.partial_psi \in Section
    BY <1>1, DemuxerFields DEF DemuxerOK
  <2>2. QED
    BY <2>1, SectionFacts
<1>3. n = IF s.len < s.total THEN [d EXCEPT !.partial_psi = s]
          ELSE IF s.next # 0 THEN HandlePmt(k, s.table) ELSE k
  BY DEF AssemblePsi
<1> HIDE DEF s, n, k
<1>4. CASE s.len < s.total
  BY <1>2, <1>3, <1>4, SectionReplaced DEF s, n, NoPes, SamePartials
<1>5. CASE ~(s.len < s.total)
  <2>1. /\ DemuxerOK(k, good) /\ k.pmt_pid_known = d.pmt_pid_known /\ k.last_ra = d.last_ra
        /\ k.partial_psi = NoSection /\ k.registered = d.registered /\ k.pmt_entries = d.pmt_entries
        /\ k.events = d.events /\ k.partials = d.partials
    BY SectionReplaced DEF k
  <2>2. CASE s.next # 0
    <3> DEFINE t == s.table
    <3>1. n = HandlePmt(k, t) /\ t \in Table
      BY <1>2, <1>3, <1>5, <2>2 DEF Section
    <3> HIDE DEF t
    <3>2. /\ DemuxerOK(n, good) /\ n.pmt_pid_known = k.pmt_pid_known /\ n.last_ra = k.last_ra
          /\ n.partial_psi = k.partial_psi /\ n.registered = k.registered \cup {e.pid : e \in t.entries}
          /\ n.pmt_entries = t.entries /\ n.partials = k.partials /\ (NoPes(k) => NoPes(n))
      BY <2>1, <3>1, HandlePmtFacts
    <3>3. /\ s \in Section
          /\ DemuxerOK(n, good) /\ n.pmt_pid_known = d.pmt_pid_known /\ n.last_ra = d.last_ra
          /\ SamePartials(d, n) /\ ~n.partial_psi.exists
          /\ {e.pid : e \in s.table.entries} \subseteq n.registered /\ n.pmt_entries = s.table.entries
          /\ NoPes(d) => NoPes(n)
      BY <1>1, <1>2, <2>1, <3>2 DEF t, NoPes, SamePartials
    <3>4. QED
      BY <1>5, <2>2, <3>3 DEF s, n
  <2>3. CASE s.next = 0
    BY <1>1, <1>2, <1>3, <1>5, <2>1, <2>3 DEF s, n, NoPes, SamePartials
  <2>4. QED
    BY <2>2, <2>3
<1>6. QED
  BY <1>4, <1>5

(* A PAT makes the PID of the tables known.                                 *)
LEMMA PatHandled ==
  ASSUME NEW good, NEW d, DemuxerOK(d, good), NEW p \in PatPkt
  PROVE  LET n == HandlePacket(d, p) IN
         /\ DemuxerOK(n, good) /\ n.pmt_pid_known /\ n.last_ra = d.last_ra
         /\ n.registered = d.registered /\ n.partial_psi = d.partial_psi /\ n.pmt_entries = d.pmt_entries
         /\ NoPes(n) /\ SamePartials(d, n)
<1> DEFINE k == Seen(d, p)
           yes == TRUE
           n == [k EXCEPT !.pmt_pid_known = yes]
<1>1. p.pid = Pat /\ p \in Packet /\ ~IsPes(p)
  BY PidFacts DEF PatPkt, PsiPkt, Packet, IsPes
<1>2. DemuxerOK(k, good) /\ SameReader(d, k) /\ k.last_ra = d.last_ra /\ NoPes(k) /\ k.partials = d.partials
  BY <1>1, SeenFacts
<1>3. HandlePacket(d, p) = n
  <2>1. PayloadKind(d, p) = "Pat"
    BY <1>1, PidFacts DEF PayloadKind
  <2>2. HandlePacket(d, p) = [k EXCEPT !.pmt_pid_known = TRUE]
    BY <2>1 DEF HandlePacket, Seen
  <2>3. QED
    BY <2>2
<1>4. k \in Demuxer /\ yes \in BOOLEAN /\ yes
  BY <1>2 DEF DemuxerOK
<1> HIDE DEF k, yes
<1>5. /\ n \in Demuxer /\ n.events = k.events /\ n.partials = k.partials /\ n.last_ra = k.last_ra
      /\ n.pmt_pid_known = yes /\ n.registered = k.registered /\ n.partial_psi = k.partial_psi
      /\ n.pmt_entries = k.pmt_entries
  BY <1>4 DEF Demuxer
<1> HIDE DEF n
<1>6. DemuxerOK(n, good)
  BY <1>2, <1>5 DEF DemuxerOK
<1>7. QED
  BY <1>2, <1>3, <1>4, <1>5, <1>6 DEF SameReader, NoPes, SamePartials

(* A packet of a table, when the one before it was seen.                    *)
PmtDone(d, n, p) ==
  /\ n.pmt_pid_known = d.pmt_pid_known /\ n.last_ra = d.last_ra /\ d.registered \subseteq n.registered
  /\ p.part < PsiParts(p.table.size) =>
       n.partial_psi.exists /\ \A q : Follows(p, q) => Continues(n.partial_psi, q)
  /\ p.part = PsiParts(p.table.size) =>
       ~n.partial_psi.exists /\ {e.pid : e \in p.table.entries} \subseteq n.registered

LEMMA PmtHandled ==
  ASSUME NEW good, NEW d, DemuxerOK(d, good), NEW p \in PmtPkt
  PROVE  LET n == HandlePacket(d, p) IN
         /\ DemuxerOK(n, good) /\ NoPes(n) /\ SamePartials(d, n)
         /\ /\ d.pmt_pid_known /\ p.part <= PsiParts(p.table.size)
            /\ p.part > 1 => d.partial_psi.exists
            /\ d.partial_psi.exists => Continues(d.partial_psi, p)
            => PmtDone(d, n, p)
<1> DEFINE k == Seen(d, p)
           n == HandlePacket(d, p)
           size == p.table.size
           parts == PsiParts(size)
           K == PacketSize - 4
<1>1. p.pid = PmtPid /\ p.pid # Pat /\ p \in Packet /\ ~IsPes(p) /\ p.table \in Table /\ p.part \in Nat \ {0}
  BY PidFacts DEF PmtPkt, PsiPkt, Packet, IsPes
<1>2. DemuxerOK(k, good) /\ SameReader(d, k) /\ k.last_ra = d.last_ra /\ NoPes(k) /\ k.partials = d.partials
  BY <1>1, SeenFacts
<1>3. size \in Nat /\ size >= 16
  BY <1>1 DEF Table
<1>4. parts \in Nat \ {0} /\ (parts - 1) * K < size + 1 /\ size + 1 <= parts * K
  BY <1>3, PsiPartsFacts
<1>5. d.pmt_pid_known \in BOOLEAN
  BY DemuxerFields DEF DemuxerOK
<1>6. CASE d.pmt_pid_known /\ parts = 1
  <2>1. n = HandlePmt(k, p.table)
    BY <1>1, <1>6 DEF HandlePacket, PayloadKind, Seen
  <2>2. /\ DemuxerOK(n, good) /\ n.pmt_pid_known = k.pmt_pid_known /\ n.last_ra = k.last_ra
        /\ n.partial_psi = k.partial_psi /\ n.registered = k.registered \cup {e.pid : e \in p.table.entries}
        /\ NoPes(n) /\ n.partials = k.partials
    BY <1>1, <1>2, <2>1, HandlePmtFacts
  <2> HIDE DEF n, k
  <2>3. p.part <= parts /\ (d.partial_psi.exists => Continues(d.partial_psi, p)) => ~d.partial_psi.exists
    BY <1>1, <1>6 DEF Continues
  <2>4. ~(p.part < PsiParts(p.table.size))
    BY <1>1, <1>6
  <2>5. QED
    BY <1>2, <2>2, <2>3, <2>4 DEF PmtDone, SameReader, SamePartials, n
<1>7. CASE d.pmt_pid_known /\ parts # 1
  <2> DEFINE s == IF k.partial_psi.exists THEN ContinueSection(k.partial_psi, p) ELSE StartSection(p)
  <2>1. n = AssemblePsi(k, p)
    BY <1>1, <1>7 DEF HandlePacket, PayloadKind, Seen
  <2>2. /\ s \in Section
        /\ DemuxerOK(n, good) /\ n.pmt_pid_known = k.pmt_pid_known /\ n.last_ra = k.last_ra
        /\ SamePartials(k, n)
        /\ s.len < s.total => n.partial_psi = s
        /\ ~(s.len < s.total) => ~n.partial_psi.exists
        /\ ~(s.len < s.total) /\ s.next # 0 => {e.pid : e \in s.table.entries} \subseteq n.registered
        /\ NoPes(n)
    <3> HIDE DEF k
    <3>1. QED
      BY <1>2, <2>1, AssemblePsiFacts
  <2>3. k.partial_psi = d.partial_psi
    BY <1>2 DEF SameReader
  <2> HIDE DEF n, k
  <2>4. ASSUME /\ p.part <= parts
               /\ p.part > 1 => d.partial_psi.exists
               /\ d.partial_psi.exists => Continues(d.partial_psi, p)
        PROVE  PmtDone(d, n, p)
    <3>1. /\ s.next = p.part + 1 /\ s.len = p.part * K - 1 /\ s.total = size
          /\ s.exists /\ s.table = p.table
      <4>1. CASE p.part = 1
        <5>1. ~d.partial_psi.exists
          BY <2>4, <4>1 DEF Continues
        <5>2. s = StartSection(p)
          BY <2>3, <5>1
        <5>3. /\ s.exists /\ s.len = PacketSize - 5 /\ s.total = size /\ s.next = 2 /\ s.table = p.table
          BY <4>1, <5>2 DEF StartSection
        <5>4. PacketSize - 5 = 1 * K - 1
          BY MuxerAssumption
        <5>5. QED
          BY <4>1, <5>3, <5>4
      <4>2. CASE p.part > 1
        <5> DEFINE x == d.partial_psi
        <5>1. /\ x.exists /\ p.table = x.table /\ x.next = p.part /\ x.len = (p.part - 1) * K - 1
              /\ x.total = size /\ x \in Section
          <6>1. x \in Section \cup {NoSection}
            BY DemuxerFields DEF DemuxerOK
          <6>2. QED
            BY <2>4, <4>2, <6>1 DEF Continues, NoSection
        <5>2. s = ContinueSection(x, p)
          BY <2>3, <5>1
        <5> HIDE DEF x
        <5>3. s = [x EXCEPT !.len = x.len + PacketSize - 4, !.next = x.next + 1]
          BY <5>1, <5>2 DEF ContinueSection, Section
        <5>4. /\ s.exists /\ s.len = x.len + PacketSize - 4 /\ s.total = size /\ s.next = p.part + 1
              /\ s.table = p.table
          <6> HIDE DEF s
          <6>1. QED
            BY <5>1, <5>3 DEF Section
        <5>5. p.part * K = (p.part - 1) * K + K
          <6>1. PacketSize \in Nat
            BY MuxerAssumption
          <6>2. QED
            BY <1>1, <6>1
        <5>6. PacketSize \in Nat /\ (p.part - 1) * K \in Int /\ p.part * K \in Int
          BY <1>1, MuxerAssumption
        <5> HIDE DEF s
        <5>7. x.len + PacketSize - 4 = p.part * K - 1
          BY <5>1, <5>5, <5>6
        <5>8. QED
          BY <5>4, <5>7
      <4>3. QED
        BY <1>1, <4>1, <4>2
    <3> HIDE DEF s
    <3>2. ASSUME p.part < parts
          PROVE  n.partial_psi.exists /\ \A q : Follows(p, q) => Continues(n.partial_psi, q)
      <4>1. p.part * K <= (parts - 1) * K
        <5>1. K \in Nat /\ p.part \in Nat /\ parts - 1 \in Nat /\ parts - 1 - p.part \in Nat
          BY <1>1, <1>4, <3>2, MuxerAssumption
        <5> HIDE DEF K
        <5>2. (parts - 1 - p.part) * K \in Nat
          BY <5>1
        <5>3. (parts - 1 - p.part) * K = (parts - 1) * K - p.part * K
          BY <5>1
        <5>4. (parts - 1) * K \in Int /\ p.part * K \in Int
          BY <5>1
        <5>5. QED
          BY <5>2, <5>3, <5>4
      <4>2. s.len < s.total
        <5>1. p.part * K \in Int /\ (parts - 1) * K \in Int
          BY <1>1, <1>4, MuxerAssumption
        <5> HIDE DEF K
        <5>2. QED
          BY <1>3, <1>4, <3>1, <4>1, <5>1
      <4>3. n.partial_psi = s
        BY <2>2, <4>2
      <4>4. ASSUME NEW q, Follows(p, q) PROVE Continues(s, q)
        <5>1. q.pid = PmtPid /\ q.part = p.part + 1 /\ q.table = p.table
          BY <4>4 DEF Follows
        <5>2. q.part > 1 /\ q.part - 1 = p.part
          BY <1>1, <5>1
        <5>3. QED
          BY <3>1, <5>1, <5>2 DEF Continues
      <4>5. QED
        BY <3>1, <4>3, <4>4
    <3>3. ASSUME p.part = parts
          PROVE  ~n.partial_psi.exists /\ {e.pid : e \in p.table.entries} \subseteq n.registered
      <4>1. ~(s.len < s.total)
        <5>1. parts * K \in Int
          BY <1>4, MuxerAssumption
        <5> HIDE DEF K
        <5>2. QED
          BY <1>3, <1>4, <3>1, <3>3, <5>1
      <4>2. s.next # 0
        BY <1>1, <3>1
      <4>3. QED
        BY <2>2, <3>1, <4>1, <4>2
    <3>4. QED
      BY <1>2, <2>2, <3>2, <3>3 DEF PmtDone, SameReader, SamePartials
  <2>5. QED
    BY <1>2, <2>2, <2>4 DEF n, k, SameReader, SamePartials
<1>8. CASE ~d.pmt_pid_known
  <2>1. PayloadKind(d, p) = "Raw"
    BY <1>1, <1>8 DEF PayloadKind
  <2>2. n = k
    BY <1>8, <2>1 DEF HandlePacket, Seen
  <2>3. QED
    BY <1>2, <1>8, <2>2 DEF SameReader, SamePartials
<1>9. QED
  BY <1>5, <1>6, <1>7, <1>8

(* A packet of a PES.                                                       *)
LEMMA PesHandled ==
  ASSUME NEW good, NEW d, DemuxerOK(d, good), NEW p \in PesPkt, Own(p.pid, p.pes.au),
         good /\ PayloadKind(d, p) = "PesStart" => Flagged(p.pes.au, Seen(d, p).last_ra[p.pid])
  PROVE  LET n == HandlePacket(d, p) IN
         /\ DemuxerOK(n, good) /\ SameReader(d, n) /\ Codes(n, p.pid)
         /\ p.pid \notin d.registered => NoPes(n) /\ n.partials = d.partials
         /\ PayloadKind(d, p) = "PesStart" => PesStarted(Seen(d, p), n, p)
         /\ PayloadKind(d, p) = "PesContinuation" => PesContinued(Seen(d, p), n, p)
         /\ n.last_ra = IF PayloadKind(d, p) = "PesStart" THEN [Seen(d, p).last_ra EXCEPT ![p.pid] = FALSE]
                        ELSE Seen(d, p).last_ra
<1> DEFINE k == Seen(d, p)
           n == HandlePacket(d, p)
<1>1. p.pid \in Pids /\ p.pid # Pat /\ p.pid # PmtPid /\ p \in Packet
  BY PidFacts DEF PesPkt, Packet
<1>2. DemuxerOK(k, good) /\ SameReader(d, k) /\ NoPes(k) /\ k.partials = d.partials
  BY <1>1, SeenFacts
<1> DEFINE pid == p.pid
<1>3. Codes(k, pid)
  <2> HIDE DEF k
  <2>1. QED
    BY <1>2 DEF NoPes, Codes
<1>4. /\ PayloadKind(d, p) \in {"Raw", "PesStart", "PesContinuation"}
      /\ p.pid \notin d.registered => PayloadKind(d, p) = "Raw"
  BY <1>1 DEF PayloadKind
<1>5. n = CASE PayloadKind(d, p) = "PesStart" -> PesStart(k, p)
            [] PayloadKind(d, p) = "PesContinuation" -> PesContinuation(k, p)
            [] OTHER -> k
  BY <1>1, <1>4 DEF HandlePacket, Seen
<1> HIDE DEF n, k
<1>6. CASE PayloadKind(d, p) = "PesStart"
  <2>1. n = PesStart(k, p) /\ (good => Flagged(p.pes.au, k.last_ra[p.pid]))
    BY <1>5, <1>6 DEF k
  <2>2. /\ DemuxerOK(n, good) /\ SameReader(k, n) /\ n.last_ra = [k.last_ra EXCEPT ![p.pid] = FALSE]
        /\ Codes(n, pid) /\ PesStarted(k, n, p)
    BY <1>2, <1>3, <2>1, PesStartFacts
  <2>3. QED
    BY <1>2, <1>4, <1>6, <2>2 DEF SameReader, k, n
<1>7. CASE PayloadKind(d, p) = "PesContinuation"
  <2>1. n = PesContinuation(k, p)
    BY <1>5, <1>7
  <2>2. DemuxerOK(n, good) /\ SameButPes(k, n) /\ Codes(n, pid) /\ PesContinued(k, n, p)
    BY <1>2, <1>3, <2>1, PesContinuationFacts
  <2>3. QED
    BY <1>2, <1>4, <1>7, <2>2 DEF SameButPes, SameReader, k, n
<1>8. CASE PayloadKind(d, p) = "Raw"
  <2>1. n = k
    BY <1>5, <1>8
  <2>2. QED
    BY <1>2, <1>3, <1>8, <2>1 DEF k, n
<1>9. QED
  BY <1>4, <1>6, <1>7, <1>8

(* The wire of whole tables and flagged keyframes is one also without its   *)
(* first packet, when the demuxer has handled that packet.                  *)
LEMMA TablesTaken ==
  ASSUME LinkInv, wire # <<>>, wire' = Tail(wire), TablesPart,
         \/ IsPes(wire[1]) /\ SameReader(demuxer, demuxer')
         \/ /\ wire[1].pid = Pat /\ demuxer'.pmt_pid_known
            /\ demuxer'.partial_psi = demuxer.partial_psi
         \/ wire[1].pid = PmtPid /\ PmtDone(demuxer, demuxer', wire[1])
  PROVE  TablesPart'
<1> DEFINE p == wire[1]
<1>1. /\ p \in Packet /\ 1 \in DOMAIN wire /\ wire' \in Seq(Packet) /\ Len(wire') = Len(wire) - 1
      /\ DOMAIN wire = 1..Len(wire) /\ DOMAIN wire' = 1..Len(wire') /\ Len(wire) \in Nat
      /\ \A i \in DOMAIN wire' : i \in Nat /\ i >= 1 /\ i + 1 \in DOMAIN wire /\ wire'[i] = wire[i + 1]
  BY WireTail DEF LinkInv, WirePart
<1>2. /\ IsPes(p) => p.pid # PmtPid /\ p.pid # Pat
      /\ p.pid = PmtPid => p \in PmtPkt
      /\ Pat # PmtPid
  BY <1>1, PidFacts, PacketFacts DEF IsPes
<1>3. \A i \in DOMAIN wire : wire[i].pid = PmtPid =>
        wire[i].part \in Nat \ {0} /\ PsiParts(wire[i].table.size) \in Nat
  <2>1. ASSUME NEW i \in DOMAIN wire, wire[i].pid = PmtPid
        PROVE  wire[i].part \in Nat \ {0} /\ PsiParts(wire[i].table.size) \in Nat
    <3>1. wire[i] \in PmtPkt
      BY <2>1, PacketFacts DEF LinkInv, WirePart
    <3>2. wire[i].table.size \in Nat /\ wire[i].table.size >= 16 /\ wire[i].part \in Nat \ {0}
      BY <3>1 DEF PmtPkt, Table
    <3> DEFINE size == wire[i].table.size
    <3>3. size \in Nat /\ size >= 16
      BY <3>2
    <3> HIDE DEF size
    <3>4. PsiParts(size) \in 1..size
      BY <3>3, PsiPartsFacts
    <3>5. PsiParts(size) \in Nat
      BY <3>3, <3>4
    <3>6. QED
      BY <3>2, <3>5 DEF size
  <2>2. QED
    BY <2>1
<1>4. p.pid = PmtPid => PmtDone(demuxer, demuxer', p)
  BY <1>2
<1>5. ASSUME NEW i \in DOMAIN wire', wire'[i].pid = PmtPid
      PROVE  /\ wire'[i].part <= PsiParts(wire'[i].table.size)
             /\ wire'[i].part > 1 =>
                  IF i = 1 THEN demuxer'.partial_psi.exists
                  ELSE wire'[i - 1].pid = PmtPid /\ Follows(wire'[i - 1], wire'[i])
             /\ wire'[i].part < PsiParts(wire'[i].table.size) =>
                  i + 1 \in DOMAIN wire' /\ Follows(wire'[i], wire'[i + 1])
             /\ demuxer'.pmt_pid_known \/ \E j \in 1..(i - 1) : wire'[j].pid = Pat
  <2> DEFINE n == i + 1
             q == wire[n]
  <2>1. n \in DOMAIN wire /\ wire'[i] = q /\ q.pid = PmtPid /\ n # 1 /\ n - 1 = i /\ i \in DOMAIN wire
    BY <1>1, <1>5
  <2>2. /\ q.part <= PsiParts(q.table.size)
        /\ q.part > 1 => wire[i].pid = PmtPid /\ Follows(wire[i], q)
        /\ q.part < PsiParts(q.table.size) => n + 1 \in DOMAIN wire /\ Follows(q, wire[n + 1])
        /\ demuxer.pmt_pid_known \/ \E j \in 1..i : wire[j].pid = Pat
    <3> HIDE DEF n
    <3>1. QED
      BY <2>1 DEF TablesPart
  <2> HIDE DEF q
  <2>3. ASSUME q.part > 1
        PROVE  IF i = 1 THEN demuxer'.partial_psi.exists
               ELSE wire'[i - 1].pid = PmtPid /\ Follows(wire'[i - 1], q)
    <3>1. CASE i = 1
      <4>1. p.pid = PmtPid /\ Follows(p, q)
        BY <2>2, <2>3, <3>1
      <4>2. p.part < PsiParts(p.table.size)
        BY <1>1, <1>3, <2>2, <4>1 DEF Follows
      <4>3. QED
        BY <1>4, <3>1, <4>1, <4>2 DEF PmtDone
    <3>2. CASE i # 1
      <4>1. i - 1 \in DOMAIN wire' /\ (i - 1) + 1 = i
        BY <1>1, <1>5, <3>2
      <4>2. wire'[i - 1] = wire[i]
        BY <1>1, <4>1
      <4>3. QED
        BY <2>2, <2>3, <3>2, <4>2
    <3>3. QED
      BY <3>1, <3>2
  <2>4. ASSUME q.part < PsiParts(q.table.size)
        PROVE  i + 1 \in DOMAIN wire' /\ Follows(q, wire'[i + 1])
    <3>1. n + 1 \in DOMAIN wire /\ Follows(q, wire[n + 1])
      BY <2>2, <2>4
    <3>2. i + 1 \in DOMAIN wire'
      BY <1>1, <1>5, <3>1
    <3>3. wire'[i + 1] = wire[n + 1]
      BY <1>1, <3>2
    <3>4. QED
      BY <3>1, <3>2, <3>3
  <2>5. demuxer'.pmt_pid_known \/ \E j \in 1..(i - 1) : wire'[j].pid = Pat
    <3>1. CASE demuxer.pmt_pid_known
      BY <1>2, <3>1 DEF SameReader, PmtDone
    <3>2. ASSUME NEW j \in 1..i, wire[j].pid = Pat
          PROVE  demuxer'.pmt_pid_known \/ \E x \in 1..(i - 1) : wire'[x].pid = Pat
      <4>1. CASE j = 1
        BY <1>2, <3>2, <4>1
      <4>2. CASE j # 1
        <5>1. j - 1 \in 1..(i - 1) /\ j - 1 \in DOMAIN wire' /\ (j - 1) + 1 = j
          BY <1>1, <1>5, <3>2, <4>2
        <5>2. wire'[j - 1] = wire[j]
          BY <1>1, <5>1
        <5>3. QED
          BY <3>2, <5>1, <5>2
      <4>3. QED
        BY <4>1, <4>2
    <3>3. QED
      BY <2>2, <3>1, <3>2
  <2>6. QED
    BY <2>1, <2>2, <2>3, <2>4, <2>5
<1>6. demuxer'.partial_psi.exists => wire' # <<>> /\ Continues(demuxer'.partial_psi, wire'[1])
  <2>1. CASE p.pid # PmtPid
    <3>1. demuxer'.partial_psi = demuxer.partial_psi /\ ~demuxer.partial_psi.exists
      BY <2>1 DEF TablesPart, Continues, SameReader
    <3>2. QED
      BY <3>1
  <2>2. ASSUME p.pid = PmtPid, demuxer'.partial_psi.exists
        PROVE  wire' # <<>> /\ Continues(demuxer'.partial_psi, wire'[1])
    <3>1. p.part <= PsiParts(p.table.size) /\ p.part # PsiParts(p.table.size)
      BY <1>1, <1>4, <2>2 DEF TablesPart, PmtDone
    <3>2. p.part < PsiParts(p.table.size)
      BY <1>1, <1>3, <2>2, <3>1
    <3>3. 1 + 1 \in DOMAIN wire /\ Follows(p, wire[1 + 1])
      BY <1>1, <2>2, <3>2 DEF TablesPart
    <3>4. 1 \in DOMAIN wire' /\ wire'[1] = wire[1 + 1] /\ wire' # <<>>
      <4>1. Len(wire') >= 1 /\ Len(wire') \in Nat
        BY <1>1, <3>3
      <4>2. 1 \in DOMAIN wire'
        BY SMTT(30), <1>1, <4>1
      <4>3. wire' # <<>>
        BY SMTT(30), <4>1
      <4>4. QED
        BY <1>1, <4>2, <4>3
    <3>5. QED
      BY <1>4, <2>2, <3>2, <3>3, <3>4 DEF PmtDone
  <2>3. QED
    BY <2>1, <2>2
<1>7. QED
  BY <1>5, <1>6 DEF TablesPart

LEMMA FlagsTaken ==
  ASSUME LinkInv, wire # <<>>, wire' = Tail(wire), pushed' = pushed, TablesPart, FlagPart,
         \/ wire[1].pid # PmtPid /\ demuxer'.registered = demuxer.registered
         \/ wire[1].pid = PmtPid /\ PmtDone(demuxer, demuxer', wire[1]),
         \A pid \in Pids : ~demuxer'.last_ra[pid]
  PROVE  FlagPart'
<1>1. /\ wire[1] \in Packet /\ 1 \in DOMAIN wire
      /\ \A i \in DOMAIN wire' : i \in Nat /\ i >= 1 /\ i + 1 \in DOMAIN wire /\ wire'[i] = wire[i + 1]
      /\ DOMAIN wire = 1..Len(wire) /\ DOMAIN wire' = 1..Len(wire') /\ Len(wire) \in Nat /\ Len(wire') \in Nat
  BY WireTail DEF LinkInv, WirePart
<1>2. demuxer.registered \subseteq demuxer'.registered
  BY SMTT(30) DEF PmtDone
<1>3. EndsTableOfVideo(wire[1]) => Video \in demuxer'.registered
  BY SMTT(30) DEF EndsTableOfVideo, PmtDone
<1>4. ASSUME NEW i \in DOMAIN wire', IsPes(wire'[i])
      PROVE  /\ wire'[i].random_access <=> wire'[i].part = 1 /\ pushed'[wire'[i].pes.au[1]][wire'[i].pes.au[2]].key
             /\ wire'[i].random_access =>
                  /\ wire'[i].pid = Video
                  /\ Video \in demuxer'.registered \/ \E j \in 1..(i - 1) : EndsTableOfVideo(wire'[j])
  <2>1. i + 1 \in DOMAIN wire /\ wire'[i] = wire[i + 1] /\ (i + 1) - 1 = i /\ i \in Nat
    BY <1>1
  <2>2. /\ wire'[i].random_access <=> wire'[i].part = 1 /\ Unit(wire'[i].pes.au).key
        /\ wire'[i].random_access =>
             /\ wire'[i].pid = Video
             /\ Video \in demuxer.registered \/ \E j \in 1..i : EndsTableOfVideo(wire[j])
    BY <1>4, <2>1 DEF FlagPart
  <2>3. ASSUME NEW j \in 1..i, EndsTableOfVideo(wire[j])
        PROVE  Video \in demuxer'.registered \/ \E x \in 1..(i - 1) : EndsTableOfVideo(wire'[x])
    <3>1. CASE j = 1
      BY <1>3, <2>3, <3>1
    <3>2. CASE j # 1
      <4>1. j - 1 \in 1..(i - 1) /\ j - 1 \in DOMAIN wire' /\ (j - 1) + 1 = j
        BY <1>1, <2>1, <2>3, <3>2
      <4>2. wire'[j - 1] = wire[j]
        BY <1>1, <4>1
      <4>3. QED
        BY <2>3, <4>1, <4>2
    <3>3. QED
      BY <3>1, <3>2
  <2>4. QED
    BY <1>2, <2>2, <2>3 DEF Unit
<1>5. QED
  BY <1>4 DEF FlagPart, Unit

(* What was said of a unit stays true while units are only added.           *)
LEMMA DemuxerStays ==
  ASSUME DemuxerOK(demuxer, psiLost = 0), DonePart(psiLost = 0), UNCHANGED <<demuxer, done>>,
         psiLost' = 0 => psiLost = 0,
         \A x \in Pids \X (Nat \ {0}) :
           Sent(x) => x[2] \in DOMAIN pushed'[x[1]] /\ pushed'[x[1]][x[2]] = Unit(x)
  PROVE  DemuxerOK(demuxer, psiLost = 0)' /\ DonePart(psiLost = 0)'
<1> DEFINE good == psiLost = 0
           after == psiLost' = 0
           There(au) == au[2] \in DOMAIN pushed'[au[1]]
           Stays(au, flag) == There(au) /\ (flag <=> pushed'[au[1]][au[2]].key)
<1>1. \A au \in Pids \X (Nat \ {0}) :
        (Sent(au) => There(au)) /\ \A flag : Flagged(au, flag) => Stays(au, flag)
  BY DEF Flagged
<1>2. \A h \in Pes : h.au \in Pids \X (Nat \ {0})
  BY DEF Pes
<1>3. /\ demuxer \in Demuxer /\ \A pid \in Pids : PartialOK(pid, demuxer.partials[pid], good)
      /\ \A i \in DOMAIN demuxer.events : EventOK(demuxer.events[i], good)
  BY DEF DemuxerOK
<1>4. ASSUME NEW pid \in Pids
      PROVE  LET x == demuxer.partials[pid] IN
             /\ x.declared # Unbounded => x.header # NoHeader
             /\ x.header # NoHeader => x.header.au[1] = pid /\ There(x.header.au)
             /\ after /\ x.header # NoHeader => Stays(x.header.au, x.ra)
  <2> DEFINE x == demuxer.partials[pid]
  <2>1. x \in Partial /\ PartialOK(pid, x, good)
    BY <1>3, DemuxerFields
  <2>2. x.header # NoHeader => x.header \in Pes
    BY <2>1, NoHeaderFacts DEF Partial
  <2> HIDE DEF x, Stays, There
  <2>3. QED
    BY <1>1, <1>2, <2>1, <2>2 DEF PartialOK, Own, x
<1>5. ASSUME NEW i \in DOMAIN demuxer.events, demuxer.events[i].kind = "pes"
      PROVE  /\ demuxer.events[i].header \in Pes
             /\ demuxer.events[i].header.au[1] = demuxer.events[i].pid /\ There(demuxer.events[i].header.au)
             /\ after => Stays(demuxer.events[i].header.au, demuxer.events[i].ra)
  <2>1. EventOK(demuxer.events[i], good)
    BY <1>3
  <2> HIDE DEF Stays, There
  <2>2. QED
    BY <1>1, <1>2, <1>5, <2>1 DEF EventOK, Own
<1>6. \A e \in done : e.au \in Pids \X (Nat \ {0}) /\ There(e.au) /\ (after => Stays(e.au, e.ra))
  <2> HIDE DEF Stays, There
  <2>1. QED
    BY <1>1 DEF DonePart
<1>7. DonePart(psiLost = 0)'
  BY SMTT(30), <1>6 DEF DonePart, Flagged, Sent, Unit
<1>8. DemuxerOK(demuxer, psiLost = 0)'
  <2>1. \A pid \in Pids : PartialOK(pid, demuxer.partials[pid], psiLost = 0)'
    BY <1>4 DEF PartialOK, Own, Flagged, Sent, Unit
  <2>2. \A i \in DOMAIN demuxer.events : EventOK(demuxer.events[i], psiLost = 0)'
    BY <1>5 DEF EventOK, Own, Flagged, Sent, Unit
  <2>3. QED
    BY SMTT(30), <1>3, <2>1, <2>2 DEF DemuxerOK
<1>9. QED
  BY <1>7, <1>8

LEMMA LossKeepsFlags ==
  ASSUME LinkInv, FlagInv, wire # <<>>, Loss(Head(wire)), UNCHANGED <<demuxer, pushed, done>>
  PROVE  FlagInv'
<1>1. wire' = Tail(wire) /\ Head(wire) = wire[1]
  BY WireTail DEF Loss
<1>2. psiLost \in Nat
  BY DEF LinkInv, CountPart
<1>3. psiLost' = 0 => psiLost = 0 /\ IsPes(wire[1])
  BY <1>1, <1>2 DEF Loss, IsPsi
<1>4. DemuxerOK(demuxer, psiLost = 0)' /\ DonePart(psiLost = 0)'
  BY <1>3, DemuxerStays DEF FlagInv, Sent, Unit
<1>5. ASSUME psiLost' = 0 PROVE TablesPart' /\ FlagPart'
  <2>1. TablesPart /\ FlagPart /\ IsPes(wire[1]) /\ wire[1].pid # PmtPid
    BY <1>3, <1>5, PidFacts DEF FlagInv, IsPes
  <2>2. SameReader(demuxer, demuxer')
    BY DEF SameReader
  <2>3. TablesPart'
    BY <1>1, <2>1, <2>2, TablesTaken
  <2>4. FlagPart'
    BY <1>1, <2>1, FlagsTaken DEF FlagPart
  <2>5. QED
    BY <2>3, <2>4
<1>6. QED
  BY <1>4, <1>5 DEF FlagInv

LEMMA CarryKeepsFlags ==
  ASSUME LinkInv, FlagInv, Carry
  PROVE  FlagInv'
<1> DEFINE p == wire[1]
           good == psiLost = 0
           seen == Seen(demuxer, p)
<1>1. /\ wire # <<>> /\ wire' = Tail(wire) /\ Head(wire) = p /\ demuxer' = HandlePacket(demuxer, p)
      /\ UNCHANGED <<pushed, psiLost>> /\ done' = done \cup Delivered(demuxer'.events)
  BY WireTail DEF Carry
<1>2. p \in Packet /\ 1 \in DOMAIN wire /\ DemuxerOK(demuxer, good)
  BY <1>1, WireTail DEF FlagInv
<1>3. good => TablesPart /\ FlagPart
  BY DEF FlagInv
<1> HIDE DEF p
<1>4. ASSUME DemuxerOK(demuxer', good), good => TablesPart' /\ FlagPart'
      PROVE  FlagInv'
  <2>1. \A e \in Delivered(demuxer'.events) : e.au \in Pids \X (Nat \ {0}) /\ Sent(e.au) /\ (good => Flagged(e.au, e.ra))
    <3> DEFINE events == demuxer'.events
    <3>1. \A i \in DOMAIN events : EventOK(events[i], good)
      BY <1>4 DEF DemuxerOK
    <3>2. ASSUME NEW e \in Delivered(events)
          PROVE  e.au \in Pids \X (Nat \ {0}) /\ Sent(e.au) /\ (good => Flagged(e.au, e.ra))
      <4> HIDE DEF events
      <4>1. PICK x \in {y \in ToSet(events) : y.kind = "pes"} :
              e = [au |-> x.header.au, exact |-> Exact(x), ra |-> x.ra, codec |-> x.codec]
        BY <3>2 DEF Delivered
      <4>2. e.au = x.header.au /\ e.ra = x.ra
        BY <4>1
      <4>3. PICK i \in DOMAIN events : x = events[i]
        BY <4>1 DEF ToSet
      <4>4. EventOK(x, good) /\ x.kind = "pes"
        BY <3>1, <4>1, <4>3
      <4>5. QED
        BY <4>2, <4>4 DEF EventOK, Own, Pes
    <3>3. QED
      BY <3>2
  <2>2. \A e \in done' : e.au \in Pids \X (Nat \ {0}) /\ Sent(e.au) /\ (good => Flagged(e.au, e.ra))
    BY <1>1, <2>1 DEF FlagInv, DonePart
  <2>3. DonePart(psiLost = 0)'
    BY <1>1, <2>2 DEF DonePart, Flagged, Sent, Unit
  <2>4. DemuxerOK(demuxer, psiLost = 0)'
    <3>1. /\ demuxer' \in Demuxer
          /\ \A pid \in Pids : PartialOK(pid, demuxer'.partials[pid], good)
          /\ \A i \in DOMAIN demuxer'.events : EventOK(demuxer'.events[i], good)
      BY SMTT(30), <1>4 DEF DemuxerOK
    <3>2. (\A pid \in Pids : PartialOK(pid, demuxer.partials[pid], psiLost = 0))'
      BY <1>1, <3>1 DEF PartialOK, Own, Flagged, Sent, Unit
    <3>3. (\A i \in DOMAIN demuxer.events : EventOK(demuxer.events[i], psiLost = 0))'
      <4>1. \A e : EventOK(e, good) => EventOK(e, psiLost = 0)'
        BY <1>1 DEF EventOK, Own, Flagged, Sent, Unit
      <4>2. QED
        BY <3>1, <4>1
    <3>4. QED
      BY <3>1, <3>2, <3>3 DEF DemuxerOK
  <2>5. QED
    BY <1>1, <1>4, <2>3, <2>4 DEF FlagInv
<1>5. CASE IsPes(p)
  <2>1. p \in PesPkt /\ p.pid \in Pids /\ p.pid # PmtPid
    BY <1>2, <1>5, PacketFacts, PidFacts DEF IsPes
  <2>2. seen.last_ra = (IF p.random_access THEN [demuxer.last_ra EXCEPT ![p.pid] = TRUE] ELSE demuxer.last_ra)
    BY <1>2, <1>5, SeenFacts
  <2>3. demuxer.last_ra \in [Pids -> BOOLEAN] /\ p.random_access \in BOOLEAN
    BY <1>2, <2>1, DemuxerFields DEF DemuxerOK, PesPkt
  <2>4. good => /\ \A pid \in Pids : ~demuxer.last_ra[pid]
                /\ Sent(p.pes.au) /\ (p.random_access <=> p.part = 1 /\ Unit(p.pes.au).key)
                /\ p.random_access => p.pid \in demuxer.registered
    <3>1. Sent(p.pes.au)
      BY <1>1, <1>5, WireTail DEF p, Own
    <3>2. good => /\ p.random_access <=> p.part = 1 /\ Unit(p.pes.au).key
                  /\ p.random_access => p.pid = Video /\ (Video \in demuxer.registered \/ \E j \in 1..(1 - 1) : TRUE)
      BY <1>2, <1>3, <1>5 DEF FlagPart, p
    <3>3. QED
      BY <1>3, <3>1, <3>2 DEF FlagPart
  <2>5. PayloadKind(demuxer, p) = "PesStart" <=> p.pid \in demuxer.registered /\ p.part = 1
    BY <2>1, PidFacts DEF PayloadKind
  <2>6. good /\ PayloadKind(demuxer, p) = "PesStart" => Flagged(p.pes.au, seen.last_ra[p.pid])
    BY <2>1, <2>2, <2>3, <2>4, <2>5 DEF Flagged
  <2>7. /\ DemuxerOK(demuxer', good) /\ SameReader(demuxer, demuxer')
        /\ demuxer'.last_ra = IF PayloadKind(demuxer, p) = "PesStart" THEN [seen.last_ra EXCEPT ![p.pid] = FALSE]
                              ELSE seen.last_ra
    <3> HIDE DEF good
    <3>1. /\ good /\ PayloadKind(demuxer, p) = "PesStart" => Flagged(p.pes.au, Seen(demuxer, p).last_ra[p.pid])
          /\ Own(p.pid, p.pes.au)
      <4>1. Own(p.pid, p.pes.au)
        BY <1>1, <1>5, WireTail DEF p
      <4>2. QED
        BY <2>6, <4>1
    <3> DEFINE n == HandlePacket(demuxer, p)
    <3>2. /\ DemuxerOK(n, good) /\ SameReader(demuxer, n)
          /\ n.last_ra = IF PayloadKind(demuxer, p) = "PesStart"
                         THEN [Seen(demuxer, p).last_ra EXCEPT ![p.pid] = FALSE] ELSE Seen(demuxer, p).last_ra
      BY <1>2, <2>1, <3>1, PesHandled
    <3> HIDE DEF n
    <3>3. QED
      BY <1>1, <3>2 DEF n
  <2> HIDE DEF seen
  <2>8. good => \A pid \in Pids : ~demuxer'.last_ra[pid]
    BY <2>1, <2>2, <2>3, <2>4, <2>5, <2>7
  <2>9. good => TablesPart' /\ FlagPart'
    <3>1. IsPes(wire[1]) /\ wire[1].pid # PmtPid /\ demuxer'.registered = demuxer.registered
      BY <1>5, <2>1, <2>7 DEF p, SameReader
    <3>2. good => TablesPart'
      BY <1>1, <1>3, <2>7, <3>1, TablesTaken
    <3>3. good => FlagPart'
      BY <1>1, <1>3, <2>8, <3>1, FlagsTaken
    <3>4. QED
      BY <3>2, <3>3
  <2>10. QED
    BY <1>4, <2>7, <2>9
<1>6. CASE p.pid = Pat
  <2>1. p \in PatPkt /\ p.pid # PmtPid
    BY <1>2, <1>6, PidFacts DEF Packet, PsiPkt, PmtPkt, PesPkt
  <2>2. /\ DemuxerOK(demuxer', good) /\ demuxer'.pmt_pid_known /\ demuxer'.last_ra = demuxer.last_ra
        /\ demuxer'.registered = demuxer.registered /\ demuxer'.partial_psi = demuxer.partial_psi
    BY <1>1, <1>2, <2>1, PatHandled
  <2>3. good => TablesPart'
    BY <1>1, <1>3, <1>6, <2>2, TablesTaken DEF p
  <2>4. good => FlagPart'
    <3>1. good => \A pid \in Pids : ~demuxer'.last_ra[pid]
      BY <1>3, <2>2 DEF FlagPart
    <3>2. QED
      BY <1>1, <1>3, <2>1, <2>2, <3>1, FlagsTaken DEF p
  <2>5. QED
    BY <1>4, <2>2, <2>3, <2>4
<1>7. CASE p.pid = PmtPid
  <2>1. p \in PmtPkt
    BY <1>2, <1>7, PacketFacts
  <2>2. DemuxerOK(demuxer', good)
    BY <1>1, <1>2, <2>1, PmtHandled
  <2>3. good => PmtDone(demuxer, demuxer', p)
    <3>1. good => /\ p.part <= PsiParts(p.table.size)
                  /\ p.part > 1 => demuxer.partial_psi.exists
                  /\ demuxer.pmt_pid_known
                  /\ demuxer.partial_psi.exists => Continues(demuxer.partial_psi, p)
      <4>1. ~\E j \in 1..(1 - 1) : wire[j].pid = Pat
        OBVIOUS
      <4>2. QED
        BY <1>2, <1>3, <1>7, <4>1 DEF TablesPart, p
    <3>2. QED
      BY <1>1, <1>2, <2>1, <3>1, PmtHandled
  <2>4. good => TablesPart' /\ FlagPart'
    <3>1. good => \A pid \in Pids : ~demuxer'.last_ra[pid]
      BY <1>3, <2>3 DEF FlagPart, PmtDone
    <3>2. good => TablesPart'
      BY <1>1, <1>3, <1>7, <2>3, TablesTaken DEF p
    <3>3. good => FlagPart'
      BY <1>1, <1>3, <1>7, <2>3, <3>1, FlagsTaken DEF p
    <3>4. QED
      BY <3>2, <3>3
  <2>5. QED
    BY <1>4, <2>2, <2>4
<1>8. QED
  <2>1. p.pid \in AllPids
    BY <1>2, PacketFacts
  <2>2. QED
    BY <1>5, <1>6, <1>7, <2>1 DEF AllPids, IsPes

(* What a push lays of the tables.                                          *)
TableLaid(i, u) ==
  /\ i \in DOMAIN u /\ wire'[i] = u[i] /\ u[i].part \in Nat \ {0} /\ u[i].table \in Table
  /\ Bounded(wire'[i].table) /\ wire'[i].part <= PsiParts(wire'[i].table.size) /\ i > 1
  /\ IF wire'[i].part = 1 THEN wire'[i - 1].pid = Pat
     ELSE wire'[i - 1].pid = PmtPid /\ Follows(wire'[i - 1], wire'[i])
  /\ wire'[i].part < PsiParts(wire'[i].table.size) => i + 1 \in DOMAIN wire' /\ Follows(wire'[i], wire'[i + 1])
  /\ \E j \in 1..(i - 1) : wire'[j].pid = Pat

LEMMA TablesLaid ==
  ASSUME NEW u \in Seq(PsiPkt), NEW w, NEW m, NEW pid, NEW key, Lays(u, w, m, pid, key)
  PROVE  \A i \in DOMAIN wire' : wire'[i].pid = PmtPid => TableLaid(i, u)
<1>1. Whole(u) /\ u \in Seq(Packet)
  BY DEF Lays
<1>2. /\ Len(u) \in Nat /\ DOMAIN u = 1..Len(u)
      /\ \A i \in 1..Len(u) : wire'[i] = u[i] /\ i \in DOMAIN wire'
      /\ \A i \in DOMAIN wire' : ~IsPes(wire'[i]) => i \in 1..Len(u)
  BY DEF Lays
<1>3. ASSUME NEW i \in DOMAIN wire', wire'[i].pid = PmtPid PROVE TableLaid(i, u)
  <2>1. i \in 1..Len(u) /\ wire'[i] = u[i]
    BY <1>2, <1>3, PidFacts DEF IsPes
  <2>2. u[i] \in PmtPkt
    <3>1. u[i] \in Packet
      BY <1>1, <2>1
    <3>2. QED
      BY <1>3, <2>1, <3>1, PacketFacts
  <2>3. u[i].part \in Nat \ {0} /\ u[i].table \in Table
    BY <2>2 DEF PmtPkt
  <2>4. /\ Bounded(u[i].table)
        /\ u[i].part = 1 => i > 1 /\ u[i - 1].pid = Pat
        /\ u[i].part <= PsiParts(u[i].table.size)
        /\ u[i].part > 1 =>
             i > 1 /\ u[i - 1].pid = PmtPid /\ u[i - 1].part = u[i].part - 1 /\ u[i - 1].table = u[i].table
        /\ u[i].part < PsiParts(u[i].table.size) =>
             i < Len(u) /\ u[i + 1].pid = PmtPid /\ u[i + 1].part = u[i].part + 1 /\ u[i + 1].table = u[i].table
        /\ \E j \in 1..(i - 1) : u[j].pid = Pat
    BY <1>1, <1>2, <1>3, <2>1 DEF Whole
  <2>5. i > 1 /\ i - 1 \in 1..Len(u) /\ wire'[i - 1] = u[i - 1]
    <3>1. i > 1
      BY <2>3, <2>4
    <3>2. i - 1 \in 1..Len(u)
      BY <1>2, <2>1, <3>1
    <3>3. QED
      BY <1>2, <3>1, <3>2
  <2>6. u[i].part # 1 => Follows(u[i - 1], u[i])
    <3>1. u[i].pid = PmtPid /\ u[i].part = (u[i].part - 1) + 1
      BY <1>3, <2>1, <2>3
    <3>2. QED
      BY <2>3, <2>4, <3>1 DEF Follows
  <2>7. ASSUME u[i].part < PsiParts(u[i].table.size)
        PROVE  i + 1 \in DOMAIN wire' /\ Follows(u[i], wire'[i + 1])
    <3>1. i + 1 \in 1..Len(u)
      BY <1>2, <2>1, <2>4, <2>7
    <3>2. wire'[i + 1] = u[i + 1] /\ i + 1 \in DOMAIN wire'
      BY <1>2, <3>1
    <3>3. QED
      BY <2>4, <2>7, <3>2 DEF Follows
  <2>8. u[i].part # 1 => u[i - 1].pid = PmtPid
    BY <2>3, <2>4
  <2>9. \E j \in 1..(i - 1) : wire'[j].pid = Pat
    <3>1. PICK j \in 1..(i - 1) : u[j].pid = Pat
      BY <2>4
    <3>2. j \in 1..Len(u)
      BY <1>2, <2>1
    <3>3. QED
      BY <1>2, <3>1, <3>2
  <2>10. QED
    BY <1>2, <2>1, <2>3, <2>4, <2>5, <2>6, <2>7, <2>8, <2>9 DEF TableLaid
<1>4. QED
  BY <1>3

LEMMA PushKeepsFlags ==
  ASSUME LinkInv, FlagInv, NEW m, NEW pid \in Pids, NEW kind \in Kind, NEW key \in BOOLEAN, NEW step \in Steps,
         Pushes(m, pid, kind, key, step)
  PROVE  FlagInv'
<1> DEFINE au == Id(pid)
<1>1. PICK u \in Seq(PsiPkt), w \in Seq(PesPkt) : Lays(u, w, m, pid, key)
  BY PushLays
<1>2. /\ Carries(w, m, pid, au, key) /\ (key => pid = Video)
      /\ key => \E i \in DOMAIN u : EndsTableOfVideo(u[i])
      /\ Units(m, pid, key)
  BY <1>1, PushLays DEF Lays, Pushes
<1>3. wire' = m.output
  BY <1>1 DEF Lays
<1>4. wire = <<>> /\ UNCHANGED <<demuxer, psiLost, done>>
  BY DEF Pushes, Push
<1>5. /\ DOMAIN wire' = 1..(Len(u) + Len(w)) /\ Len(u) \in Nat /\ Len(w) \in Nat /\ DOMAIN u = 1..Len(u)
      /\ \A i \in 1..Len(u) : wire'[i] = u[i] /\ ~IsPes(wire'[i])
      /\ \A i \in DOMAIN wire' : IsPes(wire'[i]) => i - Len(u) \in 1..Len(w) /\ wire'[i] = w[i - Len(u)]
      /\ \A i \in DOMAIN wire' : ~IsPes(wire'[i]) => i \in 1..Len(u)
  BY <1>1 DEF Lays
<1>6. /\ \A x \in Pids \X (Nat \ {0}) :
           Sent(x) => x[2] \in DOMAIN pushed'[x[1]] /\ pushed'[x[1]][x[2]] = Unit(x)
      /\ (\E i \in DOMAIN wire' : IsPes(wire'[i])) => pushed'[au[1]][au[2]].key = key
  <2>1. \A i \in DOMAIN wire' : IsPes(wire'[i]) => wire'[i].pid = pid
    BY <1>2, <1>5 DEF Carries
  <2>2. QED
    BY <1>2, <1>3, <2>1 DEF Units
<1>7. DemuxerOK(demuxer, psiLost = 0)' /\ DonePart(psiLost = 0)'
  BY <1>4, <1>6, DemuxerStays DEF FlagInv
<1> HIDE DEF au
<1>8. ASSUME psiLost' = 0 PROVE TablesPart' /\ FlagPart'
  <2>1. TablesPart /\ FlagPart
    BY <1>4, <1>8 DEF FlagInv
  <2>2. ~demuxer'.partial_psi.exists
    BY <1>4, <2>1 DEF TablesPart
  <2>3. \A i \in DOMAIN wire' : wire'[i].pid = PmtPid => TableLaid(i, u)
    BY <1>1, TablesLaid
  <2>4. TablesPart'
    BY <2>2, <2>3 DEF TablesPart, TableLaid
  <2>5. ASSUME NEW i \in DOMAIN wire', IsPes(wire'[i])
        PROVE  /\ wire'[i].random_access <=> wire'[i].part = 1 /\ pushed'[wire'[i].pes.au[1]][wire'[i].pes.au[2]].key
               /\ wire'[i].random_access =>
                    /\ wire'[i].pid = Video
                    /\ Video \in demuxer'.registered \/ \E j \in 1..(i - 1) : EndsTableOfVideo(wire'[j])
    <3> DEFINE n == i - Len(u)
    <3>1. n \in 1..Len(w) /\ wire'[i] = w[n]
      BY <1>5, <2>5
    <3>2. /\ w[n].pid = pid /\ w[n].part = n /\ w[n].pes.au = au
          /\ w[n].random_access <=> (key /\ n = 1)
      BY <1>2, <3>1 DEF Carries
    <3>3. pushed'[au[1]][au[2]].key = key
      BY <1>6, <2>5
    <3>4. ASSUME key PROVE \E j \in 1..(i - 1) : EndsTableOfVideo(wire'[j])
      <4>1. PICK j \in DOMAIN u : EndsTableOfVideo(u[j])
        BY <1>2, <3>4
      <4>2. j \in 1..Len(u) /\ j \in 1..(i - 1)
        BY <1>5, <3>1
      <4>3. QED
        BY <1>5, <4>1, <4>2
    <3> HIDE DEF n
    <3>5. QED
      BY <1>2, <3>1, <3>2, <3>3, <3>4
  <2>6. \A q \in Pids : ~demuxer'.last_ra[q]
    BY <1>4, <2>1 DEF FlagPart
  <2>7. FlagPart'
    BY <2>5, <2>6 DEF FlagPart, Unit
  <2>8. QED
    BY <2>4, <2>7
<1>9. QED
  BY <1>7, <1>8 DEF FlagInv

LEMMA InitFlags == Init => FlagInv
<1> SUFFICES ASSUME Init PROVE FlagInv
  OBVIOUS
<1>1. demuxer = NewDemuxer /\ wire = <<>> /\ done = {} /\ DOMAIN wire = {}
  BY DEF Init
<1>2. NoPartial \in Partial
  <2> DEFINE no == FALSE
             h == NoHeader
             s == <<>>
  <2>1. NoPartial = [exists |-> no, header |-> h, declared |-> Unbounded, buf |-> s, ra |-> no]
    BY DEF NoPartial
  <2>2. no \in BOOLEAN /\ h \in Header /\ Unbounded \in Int /\ s \in Seq(Piece)
    BY DEF Header, Unbounded
  <2> HIDE DEF no, h, s
  <2>3. QED
    BY <2>1, <2>2 DEF Partial
<1>3. demuxer \in Demuxer
  <2> DEFINE no == FALSE
             s == <<>>
             none == {}
             partials == [p \in Pids |-> NoPartial]
             ra == [p \in Pids |-> FALSE]
             cc == [p \in Pids \cup {Pat, PmtPid} |-> NoCc]
             errors == [p \in Pids \cup {Pat, PmtPid} |-> 0]
  <2>1. demuxer = [pmt_pid_known |-> no, pmt_entries |-> none, registered |-> none, partial_psi |-> NoSection,
                   partials |-> partials, last_ra |-> ra, last_cc |-> cc, cc_errors |-> errors, events |-> s]
    BY <1>1 DEF NewDemuxer
  <2>2. /\ no \in BOOLEAN /\ none \subseteq Entry /\ none \subseteq TablePids /\ s \in Seq(Event)
        /\ partials \in [Pids -> Partial] /\ ra \in [Pids -> BOOLEAN]
        /\ cc \in [AllPids -> Cc \cup {NoCc}] /\ errors \in [AllPids -> Nat]
    BY <1>2 DEF AllPids
  <2> HIDE DEF no, s, none, partials, ra, cc, errors
  <2>3. QED
    BY <2>1, <2>2 DEF Demuxer
<1>4. /\ \A p \in Pids : demuxer.partials[p] = NoPartial /\ ~demuxer.last_ra[p]
      /\ demuxer.events = <<>> /\ demuxer.partial_psi = NoSection
  BY <1>1 DEF NewDemuxer
<1>5. \A pid, good : PartialOK(pid, NoPartial, good)
  BY NoHeaderFacts DEF PartialOK
<1>6. DemuxerOK(demuxer, psiLost = 0)
  BY <1>3, <1>4, <1>5 DEF DemuxerOK
<1>7. ~NoSection.exists
  BY DEF NoSection
<1>8. TablesPart /\ FlagPart
  BY <1>1, <1>4, <1>7 DEF TablesPart, FlagPart
<1>9. QED
  BY <1>1, <1>6, <1>8 DEF FlagInv, DonePart

LEMMA NextFlags ==
  ASSUME LinkInv, FlagInv, [Next]_vars
  PROVE  FlagInv'
<1>1. ASSUME NEW pid \in Pids, NEW kind \in Kind, NEW key \in BOOLEAN, NEW step \in Steps, NEW m,
             Pushes(m, pid, kind, key, step)
      PROVE  FlagInv'
  BY <1>1, PushKeepsFlags
<1>2. ASSUME LostOnUplink PROVE FlagInv'
  BY <1>2, LossKeepsFlags DEF LostOnUplink
<1>3. ASSUME LostOnDownlink PROVE FlagInv'
  BY <1>3, LossKeepsFlags DEF LostOnDownlink
<1>4. ASSUME UNCHANGED vars PROVE FlagInv'
  <2>1. UNCHANGED <<demuxer, wire, pushed, psiLost, done>>
    BY <1>4 DEF vars, ghosts
  <2>2. DemuxerOK(demuxer, psiLost = 0)' /\ DonePart(psiLost = 0)'
    BY <2>1, DemuxerStays DEF FlagInv, Sent, Unit
  <2>3. (TablesPart' <=> TablesPart) /\ (FlagPart' <=> FlagPart)
    BY <2>1 DEF TablesPart, FlagPart, Unit
  <2>4. QED
    BY <2>1, <2>2, <2>3 DEF FlagInv
<1>5. QED
  BY <1>1, <1>2, <1>3, <1>4, CarryKeepsFlags, NextIs DEF Step

-----------------------------------------------------------------------------
(* What the demuxer makes of the tables, whatever is lost.  The packets of  *)
(* one follow each other on the wire, after a PAT.                          *)
OrderPart ==
  \A i \in DOMAIN wire : wire[i].pid = PmtPid =>
    /\ Bounded(wire[i].table) /\ wire[i].part <= PsiParts(wire[i].table.size)
    /\ i > 1 => IF wire[i].part = 1 THEN wire[i - 1].pid = Pat
                ELSE wire[i - 1].pid = PmtPid /\ Follows(wire[i - 1], wire[i])
    /\ wire[i].part < PsiParts(wire[i].table.size) => i + 1 \in DOMAIN wire /\ Follows(wire[i], wire[i + 1])

(* The next packet is of a table, or even in the middle of one.             *)
AtTable == wire # <<>> /\ wire[1].pid = PmtPid
Amid == AtTable /\ wire[1].part > 1

(* What arrived whole is the table that arrives now.                        *)
Calm == [table : Table \cup {NoTable}, count : 0..2, inside : BOOLEAN]
CalmPart ==
  /\ calm \in Calm
  /\ calm.count > 0 => calm.inside /\ (demuxer.pmt_pid_known \/ ~AtTable)
  /\ calm.inside => calm.table \in Table
  /\ calm.inside /\ Amid => wire[1].table = calm.table

(* A section waits for a length that some table has, unless it was started  *)
(* in the middle of one.                                                    *)
Payload == PacketSize - 4
SectionOK(s, known) ==
  s.exists =>
    /\ known /\ s.len >= Payload - 1 /\ s.len < s.total
    /\ MisreadSize <= PacketSize - 5 => \E c \in Muxers : s.total <= FullTable(c).size

(* Before packet p: a section that does not go on with p has more bytes     *)
(* than one that does, and ends with the table at the latest.  There is     *)
(* none such once a table arrived whole.                                    *)
InTime(s, p, settled) ==
  /\ s.exists => Continues(s, p) \/ s.len >= p.part * Payload - 1
  /\ settled => s.exists /\ Continues(s, p)
SectionPart ==
  /\ SectionOK(demuxer.partial_psi, demuxer.pmt_pid_known)
  /\ calm.inside /\ PsiParts(calm.table.size) > 1 /\ SectionsEndInTime(calm.table) =>
       IF Amid THEN InTime(demuxer.partial_psi, wire[1], calm.count > 0)
       ELSE calm.count > 0 => ~demuxer.partial_psi.exists

CalmInv == OrderPart /\ CalmPart /\ SectionPart /\ TablesComeBack

(* The next section, when a packet of a table has been taken.               *)
Assembled(d, p) == IF d.partial_psi.exists THEN ContinueSection(d.partial_psi, p) ELSE StartSection(p)
LEMMA PmtTaken ==
  ASSUME NEW good, NEW d, DemuxerOK(d, good), NEW p \in PmtPkt
  PROVE  LET n == HandlePacket(d, p)
             s == Assembled(d, p)
         IN  /\ n.pmt_pid_known = d.pmt_pid_known
             /\ ~d.pmt_pid_known =>
                  n.partial_psi = d.partial_psi /\ n.pmt_entries = d.pmt_entries /\ n.registered = d.registered
             /\ d.pmt_pid_known /\ PsiParts(p.table.size) = 1 =>
                  n.partial_psi = d.partial_psi /\ n.pmt_entries = p.table.entries
             /\ d.pmt_pid_known /\ PsiParts(p.table.size) # 1 =>
                  /\ s \in Section
                  /\ s.len < s.total => n.partial_psi = s
                  /\ ~(s.len < s.total) => ~n.partial_psi.exists
                  /\ n.pmt_entries = IF ~(s.len < s.total) /\ s.next # 0 THEN s.table.entries ELSE d.pmt_entries
<1> DEFINE k == Seen(d, p)
           n == HandlePacket(d, p)
           s == Assembled(d, p)
           parts == PsiParts(p.table.size)
<1>1. p.pid = PmtPid /\ p.pid # Pat /\ p \in Packet /\ ~IsPes(p) /\ p.table \in Table
  BY PidFacts DEF PmtPkt, PsiPkt, Packet, IsPes
<1>2. DemuxerOK(k, good) /\ SameReader(d, k)
  BY <1>1, SeenFacts
<1>3. CASE ~d.pmt_pid_known
  <2>1. PayloadKind(d, p) = "Raw"
    BY <1>1, <1>3 DEF PayloadKind
  <2>2. n = k
    BY <1>3, <2>1 DEF HandlePacket, Seen
  <2>3. QED
    BY <1>2, <1>3, <2>2 DEF SameReader
<1>4. CASE d.pmt_pid_known /\ parts = 1
  <2>1. n = HandlePmt(k, p.table)
    BY <1>1, <1>4 DEF HandlePacket, PayloadKind, Seen
  <2>2. n.pmt_pid_known = k.pmt_pid_known /\ n.partial_psi = k.partial_psi /\ n.pmt_entries = p.table.entries
    BY <1>1, <1>2, <2>1, HandlePmtFacts
  <2>3. QED
    BY <1>2, <1>4, <2>2 DEF SameReader
<1>5. CASE d.pmt_pid_known /\ parts # 1
  <2>1. n = AssemblePsi(k, p)
    BY <1>1, <1>5 DEF HandlePacket, PayloadKind, Seen
  <2>2. k.partial_psi = d.partial_psi /\ k.pmt_entries = d.pmt_entries /\ k.pmt_pid_known = d.pmt_pid_known
    BY <1>2 DEF SameReader
  <2>3. s = IF k.partial_psi.exists THEN ContinueSection(k.partial_psi, p) ELSE StartSection(p)
    BY <2>2 DEF Assembled
  <2> HIDE DEF n, k, s
  <2>4. /\ s \in Section /\ n.pmt_pid_known = k.pmt_pid_known
        /\ s.len < s.total => n.partial_psi = s
        /\ ~(s.len < s.total) => ~n.partial_psi.exists
        /\ n.pmt_entries = IF ~(s.len < s.total) /\ s.next # 0 THEN s.table.entries ELSE k.pmt_entries
    BY <1>2, <2>1, <2>3, AssemblePsiFacts
  <2>5. QED
    BY <1>5, <2>2, <2>4 DEF n, s
<1>6. QED
  BY <1>3, <1>4, <1>5

(* A section that is started, or that goes on.                              *)
LEMMA AssembledFacts ==
  ASSUME NEW good, NEW d, DemuxerOK(d, good), NEW p \in PmtPkt
  PROVE  LET s == Assembled(d, p)
             x == d.partial_psi
         IN  /\ s.exists
             /\ ~x.exists => /\ s.len = Payload - 1
                             /\ p.part = 1 => s.total = p.table.size /\ s.next = 2 /\ s.table = p.table
                             /\ p.part # 1 => s.total = MisreadSize /\ s.next = 0
             /\ x.exists => /\ x \in Section /\ s.len = x.len + Payload /\ s.total = x.total
                            /\ Continues(x, p) => s.next = p.part + 1 /\ s.table = p.table
<1> DEFINE s == Assembled(d, p)
           x == d.partial_psi
<1>1. PacketSize \in Nat /\ ~NoSection.exists /\ x \in Section \cup {NoSection}
  BY MuxerAssumption, DemuxerFields DEF NoSection, DemuxerOK
<1>2. CASE ~x.exists
  <2>1. s = StartSection(p)
    BY <1>2 DEF Assembled
  <2>2. s.exists /\ s.len = PacketSize - 5 /\ s.table = p.table
        /\ s.total = (IF p.part = 1 THEN p.table.size ELSE MisreadSize)
        /\ s.next = (IF p.part = 1 THEN 2 ELSE 0)
    BY <2>1 DEF StartSection
  <2> HIDE DEF s
  <2>3. s.len = Payload - 1
    BY <1>1, <2>2 DEF Payload
  <2>4. QED
    BY <1>2, <2>2, <2>3 DEF s
<1>3. CASE x.exists
  <2>1. x \in Section /\ x.len \in Int
    BY <1>1, <1>3 DEF Section
  <2>2. s = ContinueSection(x, p)
    BY <1>3 DEF Assembled
  <2> HIDE DEF x
  <2>3. /\ s.exists /\ s.len = x.len + PacketSize - 4 /\ s.total = x.total /\ s.table = x.table
        /\ s.next = IF x.next = p.part /\ p.table = x.table THEN x.next + 1 ELSE 0
    <3> DEFINE l == x.len + PacketSize - 4
               m == IF x.next = p.part /\ p.table = x.table THEN x.next + 1 ELSE 0
    <3>1. s = [x EXCEPT !.len = l, !.next = m]
      BY <2>1, <2>2 DEF ContinueSection, Section
    <3> HIDE DEF l, m, s
    <3>2. s.exists /\ s.len = l /\ s.total = x.total /\ s.table = x.table /\ s.next = m
      BY <2>1, <3>1 DEF Section
    <3>3. QED
      BY <3>2 DEF l, m
  <2> HIDE DEF s
  <2>4. s.len = x.len + Payload
    BY <1>1, <2>1, <2>3 DEF Payload
  <2>5. Continues(x, p) => s.next = p.part + 1 /\ s.table = p.table
    BY <2>3 DEF Continues
  <2>6. QED
    BY <1>3, <2>1, <2>3, <2>4, <2>5 DEF s, x
<1>4. QED
  BY <1>2, <1>3

(* i packets and one more hold as many bytes as i + 1.                      *)
LEMMA OnePacketMore ==
  ASSUME NEW i \in Nat
  PROVE  /\ Payload \in Nat /\ Payload > 28 /\ Payload - 1 = PacketSize - 5
         /\ i * Payload \in Nat /\ (i + 1) * Payload = i * Payload + Payload
         /\ \A j \in Nat : i <= j => i * Payload <= j * Payload
<1>1. Payload \in Nat /\ Payload > 28 /\ Payload - 1 = PacketSize - 5
  BY MuxerAssumption DEF Payload
<1>2. i * Payload \in Nat /\ (i + 1) * Payload = i * Payload + Payload
  BY <1>1
<1>3. ASSUME NEW j \in Nat, i <= j PROVE i * Payload <= j * Payload
  <2>1. j - i \in Nat
    BY <1>3
  <2>2. (j - i) * Payload \in Nat
    BY <1>1, <2>1
  <2>3. (j - i) * Payload = j * Payload - i * Payload
    BY <1>1
  <2>4. j * Payload \in Nat
    BY <1>1
  <2>5. QED
    BY <1>2, <2>2, <2>3, <2>4
<1>4. QED
  BY <1>1, <1>2, <1>3

(* What is assembled stays within the bounds.                               *)
LEMMA SectionStays ==
  ASSUME NEW good, NEW d, DemuxerOK(d, good), NEW p \in PmtPkt,
         SectionOK(d.partial_psi, d.pmt_pid_known), Bounded(p.table)
  PROVE  LET n == HandlePacket(d, p) IN SectionOK(n.partial_psi, n.pmt_pid_known)
<1> DEFINE n == HandlePacket(d, p)
           s == Assembled(d, p)
           x == d.partial_psi
<1>1. /\ s.exists
      /\ ~x.exists => /\ s.len = Payload - 1
                      /\ p.part = 1 => s.total = p.table.size
                      /\ p.part # 1 => s.total = MisreadSize
      /\ x.exists => x \in Section /\ s.len = x.len + Payload /\ s.total = x.total
  BY AssembledFacts
<1>2. /\ n.pmt_pid_known = d.pmt_pid_known
      /\ n.partial_psi = x \/ n.partial_psi = s \/ ~n.partial_psi.exists
      /\ n.partial_psi = s /\ n.partial_psi # x => s.len < s.total /\ d.pmt_pid_known
  <2> DEFINE parts == PsiParts(p.table.size)
  <2>1. /\ n.pmt_pid_known = d.pmt_pid_known
        /\ ~d.pmt_pid_known => n.partial_psi = x
        /\ d.pmt_pid_known /\ parts = 1 => n.partial_psi = x
        /\ d.pmt_pid_known /\ parts # 1 =>
             /\ s.len < s.total => n.partial_psi = s
             /\ ~(s.len < s.total) => ~n.partial_psi.exists
    BY PmtTaken
  <2> HIDE DEF n, s, x, parts
  <2>2. QED
    BY <1>1, <2>1
<1>3. Payload \in Nat /\ Payload - 1 = PacketSize - 5
  BY OnePacketMore
<1> HIDE DEF n, s, x
<1>4. CASE n.partial_psi = x
  BY <1>2, <1>4 DEF n, x
<1>5. CASE ~n.partial_psi.exists
  BY <1>5 DEF SectionOK, n
<1>6. CASE n.partial_psi = s /\ n.partial_psi # x
  <2>1. s.len < s.total /\ n.pmt_pid_known
    BY <1>2, <1>6
  <2>2. s.len >= Payload - 1 /\ (MisreadSize <= PacketSize - 5 => \E c \in Muxers : s.total <= FullTable(c).size)
    <3>1. CASE x.exists
      <4>1. x.len \in Int /\ x.len >= Payload - 1
            /\ (MisreadSize <= PacketSize - 5 => \E c \in Muxers : x.total <= FullTable(c).size)
        BY <1>1, <3>1 DEF Section, SectionOK, x
      <4>2. QED
        BY <1>1, <1>3, <3>1, <4>1
    <3>2. CASE ~x.exists /\ p.part = 1
      BY <1>1, <1>3, <3>2 DEF Bounded
    <3>3. CASE ~x.exists /\ p.part # 1
      <4>1. ~(MisreadSize <= PacketSize - 5)
        BY <1>1, <1>3, <2>1, <3>3, DemuxerAssumption
      <4>2. QED
        BY <1>1, <1>3, <3>3, <4>1
    <3>4. QED
      BY <3>1, <3>2, <3>3
  <2>3. QED
    BY <1>6, <2>1, <2>2 DEF SectionOK, n
<1>7. QED
  BY <1>2, <1>4, <1>5, <1>6

(* No section is as long as a table of two packets more.                    *)
LEMMA SectionEnds ==
  ASSUME NEW s, SectionOK(s, TRUE), s \in Section, NEW table \in Table, SectionsEndInTime(table)
  PROVE  s.total + 1 <= (PsiParts(table.size) + 1) * Payload
<1>1. PICK c \in Muxers : s.total <= FullTable(c).size
  BY DEF SectionOK, SectionsEndInTime, Section
<1> DEFINE size == FullTable(c).size
           m == PsiParts(size)
           k == PsiParts(table.size) + 1
<1>2. size \in Nat /\ size >= 16 /\ table.size \in Nat /\ table.size >= 16
  BY FullTableSize DEF Table
<1>3. m \in Nat /\ size + 1 <= m * (PacketSize - 4) /\ k \in Nat
  BY <1>2, PsiPartsFacts
<1>4. m <= k
  BY DEF SectionsEndInTime
<1> HIDE DEF size, m, k
<1>5. m * Payload \in Nat /\ k * Payload \in Nat /\ m * Payload <= k * Payload
  BY <1>3, <1>4, OnePacketMore
<1>6. s.total \in Nat
  BY DEF Section
<1>7. size + 1 <= m * Payload /\ s.total <= size
  BY <1>1, <1>3 DEF Payload, size
<1>8. s.total + 1 <= k * Payload
  BY <1>2, <1>5, <1>6, <1>7
<1>9. QED
  BY <1>8 DEF k

(* How a section fares while the table goes by that ends it: in time, and   *)
(* in use if none was left from before.                                     *)
LEMMA InTimeStep ==
  ASSUME NEW good, NEW d, DemuxerOK(d, good), NEW p \in PmtPkt, NEW settled \in BOOLEAN,
         SectionOK(d.partial_psi, d.pmt_pid_known), SectionsEndInTime(p.table),
         PsiParts(p.table.size) > 1, p.part <= PsiParts(p.table.size),
         settled => d.pmt_pid_known,
         IF p.part > 1 THEN InTime(d.partial_psi, p, settled) ELSE settled => ~d.partial_psi.exists
  PROVE  LET n == HandlePacket(d, p)
             parts == PsiParts(p.table.size)
         IN  /\ p.part < parts => /\ \A q : Follows(p, q) => InTime(n.partial_psi, q, settled)
                                  /\ settled => n.pmt_entries = d.pmt_entries
             /\ p.part = parts => /\ ~n.partial_psi.exists
                                  /\ settled => n.pmt_entries = p.table.entries
<1> DEFINE n == HandlePacket(d, p)
           s == Assembled(d, p)
           x == d.partial_psi
           y == n.partial_psi
           size == p.table.size
           parts == PsiParts(size)
           i == p.part
           Fares == /\ i < parts => /\ \A q : Follows(p, q) => InTime(y, q, settled)
                                    /\ settled => n.pmt_entries = d.pmt_entries
                    /\ i = parts => ~y.exists /\ (settled => n.pmt_entries = p.table.entries)
           Aligned == /\ s.len = i * Payload - 1 /\ s.total = size
                      /\ s.next = i + 1 /\ s.table = p.table
<1>1. /\ p.table \in Table /\ size \in Nat /\ size >= 16 /\ i \in Nat \ {0} /\ parts > 1 /\ i <= parts
      /\ d.pmt_pid_known \in BOOLEAN /\ x \in Section \cup {NoSection}
  BY DemuxerFields DEF PmtPkt, Table, DemuxerOK
<1>2. parts \in Nat /\ (parts - 1) * Payload < size + 1 /\ size + 1 <= parts * Payload
  BY <1>1, PsiPartsFacts DEF Payload
<1>3. /\ ~d.pmt_pid_known => y = x
      /\ d.pmt_pid_known =>
           /\ s \in Section
           /\ s.len < s.total => y = s
           /\ ~(s.len < s.total) => ~y.exists
           /\ n.pmt_entries = IF ~(s.len < s.total) /\ s.next # 0 THEN s.table.entries ELSE d.pmt_entries
  BY <1>1, PmtTaken
<1>4. /\ s.exists
      /\ ~x.exists => /\ s.len = Payload - 1
                      /\ i = 1 => s.total = size /\ s.next = 2 /\ s.table = p.table
                      /\ i # 1 => s.total = MisreadSize /\ s.next = 0
      /\ x.exists => /\ x \in Section /\ s.len = x.len + Payload /\ s.total = x.total
                     /\ Continues(x, p) => s.next = i + 1 /\ s.table = p.table
  BY AssembledFacts
<1>5. /\ Payload \in Nat /\ Payload > 28 /\ Payload - 1 = PacketSize - 5
      /\ i * Payload \in Nat /\ (i + 1) * Payload = i * Payload + Payload
      /\ i <= parts - 1 => i * Payload <= (parts - 1) * Payload
  BY <1>1, <1>2, OnePacketMore
<1>6. parts * Payload \in Nat /\ (parts - 1) * Payload \in Nat /\ (parts + 1) * Payload = parts * Payload + Payload
  BY <1>1, <1>2, OnePacketMore
<1>7. x.exists => x.len \in Int /\ x.len >= Payload - 1 /\ x.total \in Nat
                  /\ x.total + 1 <= (parts + 1) * Payload
  <2>1. CASE x.exists
    <3>1. x \in Section /\ SectionOK(x, TRUE)
      BY <1>4, <2>1 DEF SectionOK
    <3>2. x.total + 1 <= (parts + 1) * Payload
      BY <1>1, <3>1, SectionEnds
    <3>3. QED
      BY <2>1, <3>1, <3>2 DEF Section, SectionOK
  <2>2. QED
    BY <2>1
<1>8. IF i > 1 THEN InTime(x, p, settled) ELSE settled => ~x.exists
  OBVIOUS
<1>9. SectionOK(x, d.pmt_pid_known) /\ (settled => d.pmt_pid_known)
  OBVIOUS
<1>10. MisreadSize <= Payload - 1 /\ MisreadSize \in Nat
  BY <1>5, DemuxerAssumption DEF SectionsEndInTime
<1> HIDE DEF n, s, x, y, size, parts, i
<1>11. ASSUME NEW q, Follows(p, q) PROVE q.pid = PmtPid /\ q.part = i + 1 /\ q.table = p.table
  BY <1>11 DEF Follows, i
<1>12. CASE ~d.pmt_pid_known
  <2>1. ~x.exists /\ ~y.exists /\ ~settled
    BY <1>3, <1>9, <1>12 DEF SectionOK
  <2>2. \A q : InTime(y, q, settled)
    BY <2>1 DEF InTime
  <2>3. Fares
    BY <2>1, <2>2
  <2>4. QED
    BY <2>3 DEF n, s, x, y, size, parts, i
<1>13. CASE d.pmt_pid_known /\ Aligned
  <2>1. CASE i < parts
    <3>1. s.len < s.total
      BY <1>1, <1>2, <1>5, <1>6, <1>13, <2>1
    <3>2. y = s /\ n.pmt_entries = d.pmt_entries
      BY <1>3, <1>13, <3>1
    <3>3. ASSUME NEW q, Follows(p, q) PROVE InTime(y, q, settled)
      <4>1. q.part - 1 = i /\ q.part > 1
        BY <1>1, <1>11, <3>3
      <4>2. Continues(y, q)
        BY <1>11, <1>13, <3>2, <3>3, <4>1 DEF Continues, Payload, size
      <4>3. QED
        BY <1>4, <3>2, <4>2 DEF InTime
    <3>4. Fares
      BY <1>1, <1>2, <2>1, <3>2, <3>3
    <3>5. QED
      BY <3>4 DEF n, s, x, y, size, parts, i
  <2>2. CASE i = parts
    <3>1. ~(s.len < s.total) /\ s.next # 0
      BY <1>1, <1>2, <1>5, <1>6, <1>13, <2>2
    <3>2. ~y.exists /\ n.pmt_entries = p.table.entries
      BY <1>3, <1>13, <3>1
    <3>3. Fares
      BY <1>1, <1>2, <2>2, <3>2
    <3>4. QED
      BY <3>3 DEF n, s, x, y, size, parts, i
  <2>3. QED
    BY <1>1, <1>2, <2>1, <2>2
<1>14. CASE d.pmt_pid_known /\ ~settled /\ x.exists /\ s.len >= (i + 1) * Payload - 1
  <2>1. CASE i < parts
    <3>1. ASSUME NEW q, Follows(p, q) PROVE InTime(y, q, settled)
      <4>1. y.exists => y.len >= q.part * Payload - 1
        BY <1>3, <1>11, <1>14, <3>1
      <4>2. QED
        BY <1>14, <4>1 DEF InTime
    <3>2. Fares
      BY <1>1, <1>2, <1>14, <2>1, <3>1
    <3>3. QED
      BY <3>2 DEF n, s, x, y, size, parts, i
  <2>2. CASE i = parts
    <3>1. s.total = x.total /\ s.len = x.len + Payload /\ x.len \in Int /\ x.total \in Nat
          /\ x.total + 1 <= (i + 1) * Payload
      BY <1>4, <1>7, <1>14, <2>2
    <3>2. ~(s.len < s.total)
      BY <1>5, <1>14, <3>1
    <3>3. ~y.exists
      BY <1>3, <1>14, <3>2
    <3>4. Fares
      BY <1>1, <1>2, <1>14, <2>2, <3>3
    <3>5. QED
      BY <3>4 DEF n, s, x, y, size, parts, i
  <2>3. QED
    BY <1>1, <1>2, <2>1, <2>2
<1>15. CASE d.pmt_pid_known /\ ~settled /\ ~x.exists /\ i # 1
  <2>1. ~(s.len < s.total)
    BY <1>4, <1>5, <1>10, <1>15
  <2>2. ~y.exists
    BY <1>3, <1>15, <2>1
  <2>3. Fares
    BY <1>15, <2>2 DEF InTime
  <2>4. QED
    BY <2>3 DEF n, s, x, y, size, parts, i
<1>16. CASE d.pmt_pid_known /\ ~x.exists /\ i = 1
  <2>1. i * Payload = Payload
    BY <1>5, <1>16
  <2>2. Aligned
    BY <1>4, <1>16, <2>1
  <2>3. QED
    BY <1>13, <1>16, <2>2
<1>17. CASE d.pmt_pid_known /\ x.exists /\ Continues(x, p)
  <2>1. x.len = (i - 1) * Payload - 1 /\ x.total = size
    BY <1>17 DEF Continues, Payload, i, size
  <2>2. (i - 1) * Payload + Payload = i * Payload /\ (i - 1) * Payload \in Nat
    <3>1. i - 1 \in Nat /\ (i - 1) + 1 = i
      BY <1>1
    <3>2. QED
      BY <1>5, <3>1, OnePacketMore
  <2>3. s.len = i * Payload - 1
    BY <1>4, <1>5, <1>17, <2>1, <2>2
  <2>4. Aligned
    BY <1>4, <1>17, <2>1, <2>3
  <2>5. QED
    BY <1>13, <1>17, <2>4
<1>18. CASE d.pmt_pid_known /\ x.exists /\ ~Continues(x, p)
  <2>1. ~settled
    BY <1>1, <1>8, <1>18 DEF InTime
  <2>2. x.len >= i * Payload - 1
    <3>1. CASE i > 1
      BY <1>8, <1>18, <3>1 DEF InTime, i
    <3>2. CASE i = 1
      <4>1. i * Payload = Payload
        BY <1>5, <3>2
      <4>2. QED
        BY <1>7, <1>18, <4>1
    <3>3. QED
      BY <1>1, <3>1, <3>2
  <2>3. s.len >= (i + 1) * Payload - 1
    BY <1>4, <1>5, <1>7, <1>18, <2>2
  <2>4. QED
    BY <1>14, <1>18, <2>1, <2>3
<1>19. CASE d.pmt_pid_known /\ settled /\ ~x.exists /\ i # 1
  BY <1>1, <1>8, <1>19 DEF InTime
<1>20. QED
  BY <1>1, <1>12, <1>15, <1>16, <1>17, <1>18, <1>19

(* The packets behind the one that is taken.                                *)
LEMMA OrderTaken ==
  ASSUME LinkInv, OrderPart, wire # <<>>, wire' = Tail(wire)
  PROVE  /\ OrderPart'
         /\ wire[1].pid # PmtPid => ~Amid'
         /\ IsPes(wire[1]) => ~AtTable'
         /\ wire[1].pid = PmtPid =>
              IF wire[1].part < PsiParts(wire[1].table.size) THEN Amid' /\ Follows(wire[1], wire'[1])
              ELSE ~AtTable'
<1> DEFINE p == wire[1]
<1>1. /\ p \in Packet /\ 1 \in DOMAIN wire /\ wire' \in Seq(Packet) /\ Len(wire') = Len(wire) - 1
      /\ DOMAIN wire = 1..Len(wire) /\ DOMAIN wire' = 1..Len(wire') /\ Len(wire) \in Nat /\ Len(wire') \in Nat
      /\ \A i \in DOMAIN wire' : i \in Nat /\ i >= 1 /\ i + 1 \in DOMAIN wire /\ wire'[i] = wire[i + 1]
  BY WireTail DEF LinkInv, WirePart
<1>2. \A i \in DOMAIN wire : wire[i].pid = PmtPid =>
        wire[i].part \in Nat \ {0} /\ PsiParts(wire[i].table.size) \in Nat
  <2>1. ASSUME NEW i \in DOMAIN wire, wire[i].pid = PmtPid
        PROVE  wire[i].part \in Nat \ {0} /\ PsiParts(wire[i].table.size) \in Nat
    <3>1. wire[i] \in PmtPkt
      BY <2>1, PacketFacts DEF LinkInv, WirePart
    <3> DEFINE size == wire[i].table.size
    <3>2. wire[i].part \in Nat \ {0} /\ size \in Nat /\ size >= 16
      BY <3>1 DEF PmtPkt, Table
    <3> HIDE DEF size
    <3>3. PsiParts(size) \in Nat
      BY <3>2, PsiPartsFacts
    <3>4. QED
      BY <3>2, <3>3 DEF size
  <2>2. QED
    BY <2>1
<1>3. OrderPart'
  <2>1. ASSUME NEW i \in DOMAIN wire', wire'[i].pid = PmtPid
        PROVE  /\ Bounded(wire'[i].table) /\ wire'[i].part <= PsiParts(wire'[i].table.size)
               /\ i > 1 => IF wire'[i].part = 1 THEN wire'[i - 1].pid = Pat
                           ELSE wire'[i - 1].pid = PmtPid /\ Follows(wire'[i - 1], wire'[i])
               /\ wire'[i].part < PsiParts(wire'[i].table.size) =>
                    i + 1 \in DOMAIN wire' /\ Follows(wire'[i], wire'[i + 1])
    <3> DEFINE j == i + 1
    <3>1. j \in DOMAIN wire /\ wire'[i] = wire[j] /\ j > 1 /\ j \in Nat /\ j = i + 1
      BY <1>1, <2>1
    <3>2. i > 1 => wire'[i - 1] = wire[j - 1]
      <4>1. ASSUME i > 1 PROVE i - 1 \in DOMAIN wire' /\ (i - 1) + 1 = j - 1
        BY <1>1, <2>1, <4>1
      <4>2. QED
        BY <1>1, <4>1
    <3>3. j + 1 \in DOMAIN wire => i + 1 \in DOMAIN wire' /\ wire'[i + 1] = wire[j + 1]
      BY <1>1, <2>1
    <3> HIDE DEF j
    <3>4. /\ Bounded(wire[j].table) /\ wire[j].part <= PsiParts(wire[j].table.size)
          /\ IF wire[j].part = 1 THEN wire[j - 1].pid = Pat
             ELSE wire[j - 1].pid = PmtPid /\ Follows(wire[j - 1], wire[j])
          /\ wire[j].part < PsiParts(wire[j].table.size) => j + 1 \in DOMAIN wire /\ Follows(wire[j], wire[j + 1])
      BY <2>1, <3>1 DEF OrderPart
    <3>5. QED
      BY <3>1, <3>2, <3>3, <3>4
  <2>2. QED
    BY <2>1 DEF OrderPart
<1>4. wire' # <<>> => 1 \in DOMAIN wire' /\ 2 \in DOMAIN wire /\ wire'[1] = wire[2]
  BY <1>1
<1>5. wire' # <<>> /\ wire'[1].pid = PmtPid =>
        /\ wire[2].part \in Nat \ {0} /\ wire[2].part <= PsiParts(wire[2].table.size)
        /\ IF wire[2].part = 1 THEN p.pid = Pat ELSE p.pid = PmtPid /\ Follows(p, wire[2])
  <2>1. ASSUME wire' # <<>>, wire'[1].pid = PmtPid
        PROVE  /\ wire[2].part \in Nat \ {0} /\ wire[2].part <= PsiParts(wire[2].table.size)
               /\ IF wire[2].part = 1 THEN p.pid = Pat ELSE p.pid = PmtPid /\ Follows(p, wire[2])
    <3>1. 2 \in DOMAIN wire /\ wire[2].pid = PmtPid /\ 2 - 1 = 1 /\ 2 > 1
      BY <1>4, <2>1
    <3>2. QED
      BY <1>2, <3>1 DEF OrderPart
  <2>2. QED
    BY <2>1
<1>6. IsPes(p) => p.pid # Pat /\ p.pid # PmtPid
  BY <1>1, PidFacts, PacketFacts DEF IsPes
<1>7. Pat # PmtPid
  BY PidFacts
<1>8. ASSUME p.pid # PmtPid PROVE ~Amid'
  BY <1>4, <1>5, <1>8 DEF Amid, AtTable
<1>9. ASSUME IsPes(p) PROVE ~AtTable'
  BY <1>5, <1>6, <1>9 DEF AtTable
<1>10. ASSUME p.pid = PmtPid, p.part < PsiParts(p.table.size) PROVE Amid' /\ Follows(p, wire'[1])
  <2>1. 2 \in DOMAIN wire /\ Follows(p, wire[2])
    BY <1>1, <1>10 DEF OrderPart
  <2>2. wire' # <<>>
    <3>1. 1 \in DOMAIN wire'
      BY <1>1, <2>1
    <3>2. DOMAIN <<>> = {}
      OBVIOUS
    <3>3. QED
      BY <3>1, <3>2
  <2>3. wire'[1].pid = PmtPid /\ wire'[1].part = p.part + 1 /\ Follows(p, wire'[1])
    BY <1>4, <2>1, <2>2 DEF Follows
  <2>4. p.part \in Nat \ {0}
    BY <1>1, <1>2, <1>10
  <2>5. QED
    BY <2>2, <2>3, <2>4 DEF Amid, AtTable
<1>11. ASSUME p.pid = PmtPid, ~(p.part < PsiParts(p.table.size)) PROVE ~AtTable'
  <2>1. SUFFICES ASSUME wire' # <<>>, wire'[1].pid = PmtPid PROVE FALSE
    BY DEF AtTable
  <2>2. Follows(p, wire[2]) /\ wire[2].part <= PsiParts(wire[2].table.size)
    BY <1>5, <1>7, <1>11, <2>1
  <2>3. p.part \in Nat /\ PsiParts(p.table.size) \in Nat
    BY <1>1, <1>2, <1>11
  <2>4. QED
    BY <1>11, <2>2, <2>3 DEF Follows
<1>12. QED
  BY <1>3, <1>8, <1>9, <1>10, <1>11

(* Nothing changes away from the tables.                                    *)
LEMMA CalmStays ==
  ASSUME CalmPart, SectionPart, TablesComeBack, calm' = calm, ~Amid, ~Amid', OrderPart',
         demuxer'.partial_psi = demuxer.partial_psi, demuxer'.pmt_entries = demuxer.pmt_entries,
         demuxer.pmt_pid_known => demuxer'.pmt_pid_known, demuxer'.pmt_pid_known \/ ~AtTable'
  PROVE  CalmInv'
<1>1. CalmPart'
  BY DEF CalmPart
<1>2. SectionPart'
  BY DEF SectionPart, SectionOK
<1>3. TablesComeBack'
  BY DEF TablesComeBack
<1>4. QED
  BY <1>1, <1>2, <1>3 DEF CalmInv

LEMMA LossKeepsCalm ==
  ASSUME LinkInv, CalmInv, wire # <<>>, Loss(Head(wire)), UNCHANGED demuxer
  PROVE  CalmInv'
<1>1. wire' = Tail(wire) /\ Head(wire) = wire[1]
  BY WireTail DEF Loss
<1>2. OrderPart'
  BY <1>1, OrderTaken DEF CalmInv
<1>3. CASE IsPes(wire[1])
  <2>1. wire[1].pid # PmtPid
    BY <1>3, PidFacts DEF IsPes
  <2>2. ~Amid /\ ~Amid' /\ ~AtTable'
    <3>1. ~Amid
      BY <2>1 DEF Amid, AtTable
    <3>2. ~Amid' /\ ~AtTable'
      BY <1>1, <1>3, <2>1, OrderTaken DEF CalmInv
    <3>3. QED
      BY <3>1, <3>2
  <2>3. calm' = calm
    BY <1>1, <1>3 DEF Loss, IsPsi
  <2>4. QED
    BY <1>2, <2>2, <2>3, CalmStays DEF CalmInv
<1>4. CASE ~IsPes(wire[1])
  <2>1. calm' = NoCalm
    BY <1>1, <1>4 DEF Loss, IsPsi
  <2>2. calm' \in Calm /\ calm'.count = 0 /\ ~calm'.inside
    BY <2>1 DEF NoCalm, Calm
  <2>3. CalmPart'
    BY <2>2 DEF CalmPart
  <2>4. SectionPart'
    BY <2>2 DEF CalmInv, SectionPart
  <2>5. TablesComeBack'
    BY <2>2 DEF TablesComeBack
  <2>6. QED
    BY <1>2, <2>3, <2>4, <2>5 DEF CalmInv
<1>5. QED
  BY <1>3, <1>4

(* The ghost, when a packet of a table has arrived.                         *)
LEMMA CalmerFacts ==
  ASSUME calm \in Calm, NEW p \in PmtPkt, calm.count > 0 => calm.inside,
         calm.inside /\ p.part > 1 => calm.table = p.table
  PROVE  LET c == Calmer(p)
             whole == p.part = PsiParts(p.table.size)
         IN  /\ c \in Calm /\ c.table = p.table /\ (c.inside <=> p.part = 1 \/ calm.inside)
             /\ c.count > 0 => c.inside
             /\ ~whole => c.count = IF calm.table = p.table THEN calm.count ELSE 0
             /\ c.count = 2 => calm.table = p.table /\ calm.count > 0
<1> DEFINE inside == IF p.part = 1 THEN TRUE ELSE calm.inside
           whole == inside /\ p.part = PsiParts(p.table.size)
           first == p.part = 1
           once == IF whole THEN 1 ELSE 0
           more == IF whole /\ calm.count < 2 THEN calm.count + 1 ELSE calm.count
           c == Calmer(p)
<1>1. /\ calm.table \in Table \cup {NoTable} /\ calm.count \in 0..2 /\ calm.inside \in BOOLEAN
      /\ p.part \in Nat \ {0} /\ p.table \in Table /\ first \in BOOLEAN /\ inside \in BOOLEAN
      /\ once \in 0..2 /\ more \in 0..2
  <2>1. /\ calm.table \in Table \cup {NoTable} /\ calm.count \in 0..2 /\ calm.inside \in BOOLEAN
        /\ p.part \in Nat \ {0} /\ p.table \in Table
    BY DEF Calm, PmtPkt
  <2>2. first \in BOOLEAN /\ inside \in BOOLEAN
    BY <2>1
  <2>3. once \in 0..2
    <3> HIDE DEF whole
    <3>1. QED
      OBVIOUS
  <2>4. more \in 0..2
    <3> HIDE DEF whole
    <3>1. QED
      BY <2>1
  <2>5. QED
    BY <2>1, <2>2, <2>3, <2>4
<1>2. inside <=> p.part = 1 \/ calm.inside
  BY <1>1
<1>3. CASE calm.table # p.table
  <2>1. c = [table |-> p.table, count |-> once, inside |-> first]
    BY <1>3 DEF Calmer
  <2> HIDE DEF c, once, first
  <2>2. c \in Calm /\ c.table = p.table /\ c.count = once /\ c.inside = first
    BY <1>1, <2>1 DEF Calm
  <2>3. inside <=> first
    BY <1>1, <1>2, <1>3 DEF first
  <2>4. QED
    BY <1>2, <1>3, <2>2, <2>3 DEF once, c
<1>4. CASE calm.table = p.table
  <2> DEFINE ins == inside
  <2>1. c = [calm EXCEPT !.count = more, !.inside = ins]
    BY <1>1, <1>4 DEF Calmer, Calm
  <2>2. ins \in BOOLEAN
    BY <1>1
  <2> HIDE DEF c, more, ins
  <2>3. c \in Calm /\ c.table = p.table /\ c.count = more /\ c.inside = ins
    BY <1>1, <1>4, <2>1, <2>2 DEF Calm
  <2>4. /\ more > 0 => calm.count > 0 \/ whole
        /\ ~whole => more = calm.count
        /\ more = 2 => calm.count > 0
    BY <1>1 DEF more
  <2>5. QED
    BY <1>1, <1>2, <1>4, <2>3, <2>4 DEF c, ins
<1>5. QED
  BY <1>3, <1>4

LEMMA AnyDemuxer ==
  ASSUME NEW good, NEW d, DemuxerOK(d, good)
  PROVE  DemuxerOK(d, FALSE)
<1>1. \A pid \in Pids : PartialOK(pid, d.partials[pid], FALSE)
  BY DEF DemuxerOK, PartialOK
<1>2. \A i \in DOMAIN d.events : EventOK(d.events[i], FALSE)
  BY DEF DemuxerOK, EventOK
<1>3. QED
  BY <1>1, <1>2 DEF DemuxerOK

LEMMA PmtKeepsCalm ==
  ASSUME LinkInv, DemuxerOK(demuxer, FALSE), CalmInv, wire # <<>>, wire' = Tail(wire), wire[1].pid = PmtPid,
         demuxer' = HandlePacket(demuxer, wire[1]), calm' = Calmer(wire[1])
  PROVE  CalmInv'
<1> DEFINE p == wire[1]
           d == demuxer
           n == HandlePacket(d, p)
           c == Calmer(p)
           T == p.table
           parts == PsiParts(T.size)
           settled == calm.table = T /\ calm.count > 0
<1>1. /\ p \in PmtPkt /\ p.part \in Nat \ {0} /\ T \in Table /\ parts \in Nat \ {0} /\ p.part <= parts
      /\ Bounded(T) /\ 1 \in DOMAIN wire
  <2>1. p \in Packet /\ 1 \in DOMAIN wire
    BY WireTail
  <2>2. p \in PmtPkt
    BY <2>1, PacketFacts
  <2>3. p.part \in Nat \ {0} /\ T \in Table /\ T.size \in Nat /\ T.size >= 16
    BY <2>2 DEF PmtPkt, Table
  <2>4. p.part <= parts /\ Bounded(T)
    BY <2>1 DEF CalmInv, OrderPart
  <2> DEFINE size == T.size
  <2> HIDE DEF size
  <2>5. PsiParts(size) \in Nat \ {0}
    <3>1. size \in Nat /\ size >= 16
      BY <2>3 DEF size
    <3>2. QED
      BY <3>1, PsiPartsFacts
  <2>6. QED
    BY <2>1, <2>2, <2>3, <2>4, <2>5 DEF size
<1>2. /\ OrderPart'
      /\ p.part < parts => Amid' /\ Follows(p, wire'[1])
      /\ ~(p.part < parts) => ~AtTable'
  BY OrderTaken DEF CalmInv
<1>3. /\ calm \in Calm /\ calm.count \in 0..2
      /\ calm.count > 0 => calm.inside /\ d.pmt_pid_known
      /\ calm.inside /\ p.part > 1 => calm.table = T
      /\ Amid <=> p.part > 1
  BY DEF CalmInv, CalmPart, Calm, Amid, AtTable
<1>4. /\ c \in Calm /\ c.table = T /\ (c.inside <=> p.part = 1 \/ calm.inside)
      /\ c.count > 0 => c.inside
      /\ p.part # parts => c.count = IF calm.table = T THEN calm.count ELSE 0
      /\ c.count = 2 => settled
  BY <1>1, <1>3, CalmerFacts
<1>5. /\ SectionOK(d.partial_psi, d.pmt_pid_known) /\ SectionOK(n.partial_psi, n.pmt_pid_known)
      /\ n.pmt_pid_known = d.pmt_pid_known
      /\ d.pmt_pid_known /\ parts = 1 => n.pmt_entries = T.entries
  <2>1. SectionOK(d.partial_psi, d.pmt_pid_known)
    BY DEF CalmInv, SectionPart
  <2> HIDE DEF p
  <2>2. SectionOK(n.partial_psi, n.pmt_pid_known)
    BY <1>1, <2>1, SectionStays
  <2>3. /\ n.pmt_pid_known = d.pmt_pid_known
        /\ d.pmt_pid_known /\ parts = 1 => n.pmt_entries = T.entries
    <3>1. DemuxerOK(d, FALSE)
      OBVIOUS
    <3> HIDE DEF d
    <3>2. LET m == HandlePacket(d, p) IN m.pmt_pid_known = d.pmt_pid_known
      BY <1>1, <3>1, PmtTaken, ZenonT(30)
    <3>3. LET m == HandlePacket(d, p) IN
          d.pmt_pid_known /\ PsiParts(p.table.size) = 1 => m.pmt_entries = p.table.entries
      BY <1>1, <3>1, PmtTaken, ZenonT(30)
    <3>4. QED
      BY <3>2, <3>3
  <2>4. QED
    BY <2>1, <2>2, <2>3
<1>6. demuxer' = n /\ calm' = c
  OBVIOUS
<1>7. settled \in BOOLEAN
  BY <1>3
<1>8. ASSUME c.inside, parts > 1, SectionsEndInTime(T)
      PROVE  /\ p.part < parts => /\ \A q : Follows(p, q) => InTime(n.partial_psi, q, settled)
                                  /\ settled => n.pmt_entries = d.pmt_entries
             /\ p.part = parts => ~n.partial_psi.exists /\ (settled => n.pmt_entries = T.entries)
  <2>1. IF p.part > 1 THEN InTime(d.partial_psi, p, settled) ELSE settled => ~d.partial_psi.exists
    <3>1. CASE p.part > 1
      <4>1. calm.inside /\ calm.table = T /\ Amid
        BY <1>3, <1>4, <1>8, <3>1
      <4>2. InTime(d.partial_psi, p, calm.count > 0)
        BY <1>8, <4>1 DEF CalmInv, SectionPart
      <4>3. QED
        BY <3>1, <4>1, <4>2
    <3>2. CASE ~(p.part > 1)
      BY <1>3, <1>8, <3>2 DEF CalmInv, SectionPart
    <3>3. QED
      BY <3>1, <3>2
  <2>2. settled => d.pmt_pid_known
    BY <1>3
  <2> HIDE DEF p, n, d, c, settled
  <2>3. QED
    BY <1>1, <1>5, <1>7, <1>8, <2>1, <2>2, InTimeStep DEF n, d
<1> HIDE DEF n, c
<1>9. CalmPart'
  <2>1. c.count > 0 => c.inside /\ (n.pmt_pid_known \/ ~AtTable')
    BY <1>1, <1>2, <1>3, <1>4, <1>5
  <2>2. c.inside => c.table \in Table
    BY <1>1, <1>4
  <2>3. Amid' => wire'[1].table = c.table
    <3>1. Amid' => AtTable'
      BY DEF Amid
    <3>2. QED
      BY <1>1, <1>2, <1>4, <3>1 DEF Follows
  <2>4. QED
    BY <1>4, <1>6, <2>1, <2>2, <2>3 DEF CalmPart
<1>10. SectionPart'
  <2>1. ASSUME c.inside, parts > 1, SectionsEndInTime(T)
        PROVE  IF Amid' THEN InTime(n.partial_psi, wire'[1], c.count > 0)
               ELSE c.count > 0 => ~n.partial_psi.exists
    <3>1. CASE p.part < parts
      <4>1. settled <=> c.count > 0
        BY <1>1, <1>3, <1>4, <3>1
      <4>2. InTime(n.partial_psi, wire'[1], settled)
        BY <1>2, <1>8, <2>1, <3>1
      <4>3. QED
        BY <1>2, <3>1, <4>1, <4>2 DEF InTime
    <3>2. CASE ~(p.part < parts)
      <4>1. p.part = parts
        BY <1>1, <3>2
      <4>2. ~n.partial_psi.exists /\ ~Amid'
        BY <1>2, <1>8, <2>1, <3>2, <4>1 DEF Amid
      <4>3. QED
        BY <4>2
    <3>3. QED
      BY <3>1, <3>2
  <2>2. SectionOK(demuxer'.partial_psi, demuxer'.pmt_pid_known)
    BY <1>5, <1>6
  <2>3. calm'.inside /\ PsiParts(calm'.table.size) > 1 /\ SectionsEndInTime(calm'.table) =>
          IF Amid' THEN InTime(demuxer'.partial_psi, wire'[1], calm'.count > 0)
          ELSE calm'.count > 0 => ~demuxer'.partial_psi.exists
    BY <1>4, <1>6, <2>1
  <2>4. QED
    BY <2>2, <2>3 DEF SectionPart
<1>11. TablesComeBack'
  <2>1. ASSUME c.count = 2, parts = 1 \/ SectionsEndInTime(T)
        PROVE  n.pmt_entries = T.entries
    <3>1. settled /\ c.inside /\ d.pmt_pid_known
      BY <1>3, <1>4, <2>1
    <3>2. CASE parts = 1
      BY <1>5, <3>1, <3>2
    <3>3. CASE parts # 1
      <4>1. parts > 1 /\ SectionsEndInTime(T)
        BY <1>1, <2>1, <3>3
      <4>2. CASE p.part = parts
        BY <1>8, <3>1, <4>1, <4>2
      <4>3. CASE p.part # parts
        <5>1. n.pmt_entries = d.pmt_entries
          BY <1>1, <1>8, <3>1, <4>1, <4>3
        <5>2. calm.count = 2 /\ calm.table = T
          BY <1>4, <2>1, <3>1, <4>3
        <5>3. d.pmt_entries = T.entries
          BY <4>1, <5>2 DEF CalmInv, TablesComeBack
        <5>4. QED
          BY <5>1, <5>3
      <4>4. QED
        BY <4>2, <4>3
    <3>4. QED
      BY <3>2, <3>3
  <2>2. QED
    BY <1>4, <1>6, <2>1 DEF TablesComeBack
<1>12. QED
  BY <1>2, <1>9, <1>10, <1>11 DEF CalmInv

LEMMA CarryKeepsCalm ==
  ASSUME LinkInv, FlagInv, CalmInv, Carry
  PROVE  CalmInv'
<1> DEFINE p == wire[1]
<1>1. /\ wire # <<>> /\ wire' = Tail(wire) /\ demuxer' = HandlePacket(demuxer, p)
      /\ calm' = IF p.pid = PmtPid THEN Calmer(p) ELSE calm
  BY WireTail DEF Carry
<1>2. p \in Packet /\ p.pid \in AllPids
  BY <1>1, WireTail
<1>3. DemuxerOK(demuxer, FALSE)
  BY AnyDemuxer DEF FlagInv
<1>4. OrderPart' /\ (p.pid # PmtPid => ~Amid') /\ (IsPes(p) => ~AtTable')
  BY <1>1, OrderTaken DEF CalmInv
<1>5. CASE IsPes(p)
  <2>1. p \in PesPkt /\ p.pid # PmtPid
    BY <1>2, <1>5, PacketFacts, PidFacts DEF IsPes
  <2>2. SameReader(demuxer, demuxer')
    <3>1. Own(p.pid, p.pes.au)
      BY <1>1, <1>5, WireTail
    <3> HIDE DEF p
    <3>2. SameReader(demuxer, HandlePacket(demuxer, p))
      BY <1>3, <2>1, <3>1, PesHandled
    <3>3. QED
      BY <1>1, <3>2
  <2>3. calm' = calm /\ ~Amid
    BY <1>1, <2>1 DEF Amid, AtTable
  <2>4. QED
    BY <1>4, <1>5, <2>1, <2>2, <2>3, CalmStays DEF SameReader, CalmInv
<1>6. CASE p.pid = Pat
  <2>1. p \in PatPkt /\ p.pid # PmtPid
    <3>1. p.pid # PmtPid /\ p.pid \notin Pids
      BY <1>6, PidFacts
    <3>2. QED
      BY <1>2, <1>6, <3>1 DEF Packet, PsiPkt, PmtPkt, PesPkt
  <2>2. /\ demuxer'.pmt_pid_known /\ demuxer'.partial_psi = demuxer.partial_psi
        /\ demuxer'.pmt_entries = demuxer.pmt_entries
    <3> HIDE DEF p
    <3>1. LET n == HandlePacket(demuxer, p) IN
          n.pmt_pid_known /\ n.partial_psi = demuxer.partial_psi /\ n.pmt_entries = demuxer.pmt_entries
      BY <1>3, <2>1, PatHandled
    <3>2. QED
      BY <1>1, <3>1
  <2>3. calm' = calm /\ ~Amid
    BY <1>1, <2>1 DEF Amid, AtTable
  <2>4. QED
    BY <1>4, <2>1, <2>2, <2>3, CalmStays DEF CalmInv
<1>7. CASE p.pid = PmtPid
  BY <1>1, <1>3, <1>7, PmtKeepsCalm
<1>8. QED
  BY <1>2, <1>5, <1>6, <1>7 DEF IsPes, AllPids

LEMMA PushKeepsCalm ==
  ASSUME LinkInv, CalmInv, NEW m, NEW pid \in Pids, NEW kind \in Kind, NEW key \in BOOLEAN, NEW step \in Steps,
         Pushes(m, pid, kind, key, step)
  PROVE  CalmInv'
<1>1. PICK u \in Seq(PsiPkt), w \in Seq(PesPkt) : Lays(u, w, m, pid, key)
  BY PushLays
<1>2. wire = <<>> /\ UNCHANGED <<demuxer, calm>>
  BY DEF Pushes, Push
<1>3. DOMAIN wire' = 1..Len(wire') /\ Len(wire') \in Nat
  BY <1>1 DEF Lays
<1>4. \A i \in DOMAIN wire' : wire'[i].pid = PmtPid => TableLaid(i, u)
  BY <1>1, TablesLaid
<1>5. OrderPart'
  BY <1>4 DEF OrderPart, TableLaid
<1>6. ~Amid /\ ~Amid' /\ ~AtTable'
  <2>1. ASSUME wire' # <<>> PROVE wire'[1].pid # PmtPid
    <3>1. 1 \in DOMAIN wire'
      BY <1>3, <2>1
    <3>2. QED
      BY <1>4, <3>1 DEF TableLaid
  <2>2. QED
    BY <1>2, <2>1 DEF Amid, AtTable
<1>7. QED
  BY <1>2, <1>5, <1>6, CalmStays DEF CalmInv

LEMMA InitCalm == Init => CalmInv
<1> SUFFICES ASSUME Init PROVE CalmInv
  OBVIOUS
<1>1. demuxer.partial_psi = NoSection /\ wire = <<>> /\ calm = NoCalm /\ DOMAIN wire = {}
  BY DEF Init, NewDemuxer
<1>2. calm \in Calm /\ calm.count = 0 /\ ~calm.inside /\ ~NoSection.exists
  BY <1>1 DEF NoCalm, Calm, NoSection
<1>3. OrderPart
  BY <1>1 DEF OrderPart
<1>4. CalmPart /\ SectionPart /\ TablesComeBack
  BY <1>1, <1>2 DEF CalmPart, SectionPart, SectionOK, TablesComeBack
<1>5. QED
  BY <1>3, <1>4 DEF CalmInv

LEMMA NextCalm ==
  ASSUME LinkInv, FlagInv, CalmInv, [Next]_vars
  PROVE  CalmInv'
<1>1. ASSUME NEW pid \in Pids, NEW kind \in Kind, NEW key \in BOOLEAN, NEW step \in Steps, NEW m,
             Pushes(m, pid, kind, key, step)
      PROVE  CalmInv'
  BY <1>1, PushKeepsCalm
<1>2. ASSUME LostOnUplink PROVE CalmInv'
  BY <1>2, LossKeepsCalm DEF LostOnUplink
<1>3. ASSUME LostOnDownlink PROVE CalmInv'
  BY <1>3, LossKeepsCalm DEF LostOnDownlink
<1>4. ASSUME UNCHANGED vars PROVE CalmInv'
  <2>1. UNCHANGED <<demuxer, wire, calm>>
    BY <1>4 DEF vars, ghosts
  <2>2. OrderPart' /\ (Amid' <=> Amid) /\ (AtTable' <=> AtTable)
    BY <2>1 DEF CalmInv, OrderPart, Amid, AtTable
  <2>3. CalmPart' /\ SectionPart' /\ TablesComeBack'
    BY <2>1, <2>2 DEF CalmInv, CalmPart, SectionPart, TablesComeBack
  <2>4. QED
    BY <2>2, <2>3 DEF CalmInv
<1>5. QED
  BY <1>1, <1>2, <1>3, <1>4, CarryKeepsCalm, NextIs DEF Step

(* A table that arrived whole twice in a row is in use, whatever was lost   *)
(* before it, if it fits one packet or if the lengths that a demuxer can    *)
(* wait for end with it: the first of the two arrivals finishes or outlasts *)
(* the section that was there before it, and the second starts a new one.   *)
THEOREM TablesReturn == Spec => []TablesComeBack
<1>1. CalmInv => TablesComeBack
  BY DEF CalmInv
<1>2. LinkInv /\ FlagInv /\ CalmInv /\ [Next]_vars => LinkInv' /\ FlagInv' /\ CalmInv'
  BY NextLink, NextFlags, NextCalm
<1>3. QED
  BY <1>1, <1>2, InitLink, InitFlags, InitCalm, PTL DEF Spec

-----------------------------------------------------------------------------
(* The codecs, where any table fits one packet.  What is announced is in    *)
(* use by the time the PIDs of it carry PES, unless two packets of tables   *)
(* were lost.                                                               *)
OneTable == PsiParts(FullTable(muxer).size) = 1
KindPart ==
  \A pid \in Pids : \A i \in DOMAIN pushed[pid] :
    [pid |-> pid, kind |-> pushed[pid][i].kind] \in AllEntries(muxer)

(* The tables are ahead of the PES.                                         *)
SortedPart == \A i, j \in DOMAIN wire : i < j /\ IsPes(wire[i]) => IsPes(wire[j])
ListPart ==
  \A i \in DOMAIN wire : wire[i].pid = PmtPid =>
    announced # NoTable /\ Lists(wire[i].table, announced.entries, muxer)
ReaderPart ==
  /\ demuxer.pmt_entries \subseteq AllEntries(muxer)
  /\ demuxer.registered # {} => demuxer.pmt_pid_known /\ announced # NoTable

(* What the demuxer still lacks is on the wire, twice as long as nothing of *)
(* the tables was lost.                                                     *)
InUse(e) == e.pid \in demuxer.registered => e \in demuxer.pmt_entries
UsePart ==
  psiLost <= 1 =>
    \A e \in announced.entries : InUse(e) \/ (IF psiLost = 0 THEN Again(wire) ELSE Comes(wire))
CodecPart == psiLost <= 1 => \A e \in done : e.codec = Unit(e.au).kind

TypedInv == OneTable => KindPart /\ SortedPart /\ ListPart /\ ReaderPart /\ UsePart /\ CodecPart

(* With one packet less.                                                    *)
LEMMA TablesLeft ==
  ASSUME LinkInv, wire # <<>>, wire' = Tail(wire)
  PROVE  /\ Again(wire) => Comes(wire')
         /\ wire[1].pid # PmtPid => (Again(wire) => Again(wire')) /\ (Comes(wire) => Comes(wire'))
<1>1. /\ DOMAIN wire = 1..Len(wire) /\ DOMAIN wire' = 1..Len(wire') /\ Len(wire) \in Nat
      /\ Len(wire') = Len(wire) - 1 /\ \A i \in DOMAIN wire' : wire'[i] = wire[i + 1]
  BY WireTail DEF LinkInv, WirePart
<1>2. ASSUME NEW i \in DOMAIN wire, i > 1 PROVE i - 1 \in DOMAIN wire' /\ wire'[i - 1] = wire[i]
  <2>1. i - 1 \in DOMAIN wire' /\ (i - 1) + 1 = i
    BY <1>1, <1>2
  <2>2. QED
    BY <1>1, <2>1
<1>3. ASSUME NEW i \in DOMAIN wire PROVE i \in Nat /\ (i = 1 \/ i > 1)
  BY <1>1
<1>4. ASSUME Again(wire) PROVE Comes(wire')
  <2>1. PICK i, j \in DOMAIN wire : i < j /\ wire[j].pid = PmtPid
    BY <1>4 DEF Again
  <2>2. j > 1
    BY <1>3, <2>1
  <2>3. QED
    BY <1>2, <2>1, <2>2 DEF Comes
<1>5. ASSUME wire[1].pid # PmtPid, Again(wire) PROVE Again(wire')
  <2>1. PICK i, j \in DOMAIN wire : i < j /\ wire[i].pid = PmtPid /\ wire[j].pid = PmtPid
    BY <1>5 DEF Again
  <2>2. i > 1 /\ j > 1 /\ i - 1 < j - 1
    BY <1>3, <1>5, <2>1
  <2>3. QED
    BY <1>2, <2>1, <2>2 DEF Again
<1>6. ASSUME wire[1].pid # PmtPid, Comes(wire) PROVE Comes(wire')
  <2>1. PICK i \in DOMAIN wire : wire[i].pid = PmtPid
    BY <1>6 DEF Comes
  <2>2. i > 1
    BY <1>3, <1>6, <2>1
  <2>3. QED
    BY <1>2, <2>1, <2>2 DEF Comes
<1>7. QED
  BY <1>4, <1>5, <1>6

LEMMA WireStaysSorted ==
  ASSUME LinkInv, wire # <<>>, wire' = Tail(wire), UNCHANGED <<announced, muxer>>
  PROVE  (SortedPart => SortedPart') /\ (ListPart => ListPart')
<1>1. \A i \in DOMAIN wire' : i \in Nat /\ i + 1 \in DOMAIN wire /\ wire'[i] = wire[i + 1]
  BY WireTail
<1>2. ASSUME SortedPart PROVE SortedPart'
  <2>1. ASSUME NEW i \in DOMAIN wire', NEW j \in DOMAIN wire', i < j, IsPes(wire'[i]) PROVE IsPes(wire'[j])
    <3>1. i + 1 < j + 1
      BY <1>1, <2>1
    <3>2. QED
      BY <1>1, <1>2, <2>1, <3>1 DEF SortedPart
  <2>2. QED
    BY <2>1 DEF SortedPart
<1>3. ASSUME ListPart PROVE ListPart'
  BY <1>1, <1>3 DEF ListPart
<1>4. QED
  BY <1>2, <1>3

LEMMA LossKeepsTyped ==
  ASSUME LinkInv, TypedInv, wire # <<>>, Loss(Head(wire)), UNCHANGED <<muxer, demuxer, pushed, announced, done>>
  PROVE  TypedInv'
<1>1. wire' = Tail(wire) /\ Head(wire) = wire[1]
  BY WireTail DEF Loss
<1>2. psiLost \in Nat /\ psiLost' = IF IsPes(wire[1]) THEN psiLost ELSE psiLost + 1
  BY <1>1 DEF LinkInv, CountPart, Loss, IsPsi
<1>3. OneTable' <=> OneTable
  BY DEF OneTable
<1>4. ASSUME OneTable PROVE KindPart' /\ SortedPart' /\ ListPart' /\ ReaderPart'
  <2>1. SortedPart' /\ ListPart'
    BY <1>1, <1>4, WireStaysSorted DEF TypedInv
  <2>2. KindPart' /\ ReaderPart'
    BY <1>4 DEF TypedInv, KindPart, ReaderPart
  <2>3. QED
    BY <2>1, <2>2
<1>5. ASSUME OneTable PROVE UsePart'
  <2>1. ASSUME psiLost' <= 1, NEW e \in announced.entries, ~InUse(e)
        PROVE  IF psiLost' = 0 THEN Again(wire') ELSE Comes(wire')
    <3>1. IF psiLost = 0 THEN Again(wire) ELSE Comes(wire)
      BY <1>2, <1>5, <2>1 DEF TypedInv, UsePart
    <3>2. IsPes(wire[1]) => wire[1].pid # PmtPid
      BY PidFacts DEF IsPes
    <3>3. QED
      BY <1>1, <1>2, <2>1, <3>1, <3>2, TablesLeft
  <2>2. \A e : InUse(e)' = InUse(e)
    BY DEF InUse
  <2>3. QED
    BY <2>1, <2>2 DEF UsePart
<1>6. ASSUME OneTable PROVE CodecPart'
  BY <1>2, <1>6 DEF TypedInv, CodecPart, Unit
<1>7. QED
  BY <1>3, <1>4, <1>5, <1>6 DEF TypedInv

(* What is no larger than what fits one packet fits one packet.             *)
LEMMA SmallerFits ==
  ASSUME NEW size \in Nat, NEW full \in Nat, size >= 16, size <= full, PsiParts(full) = 1
  PROVE  PsiParts(size) = 1
<1> DEFINE n == PsiParts(size)
           i == n - 2
           a == i * Payload
           b == (i + 1) * Payload
           c == 1 * Payload
<1>1. n \in 1..size /\ (n - 1) * Payload < size + 1
  BY PsiPartsFacts DEF Payload
<1>2. full + 1 <= c
  BY PsiPartsFacts DEF Payload
<1>3. c = Payload
  BY MuxerAssumption DEF Payload
<1>4. ASSUME n # 1 PROVE FALSE
  <2>1. i \in Nat /\ n - 1 = i + 1
    BY <1>1, <1>4
  <2>2. b < size + 1
    BY <1>1, <2>1
  <2> HIDE DEF i
  <2>3. a \in Nat /\ b = a + Payload /\ Payload \in Nat
    BY <2>1, OnePacketMore
  <2> HIDE DEF a, b, c
  <2>4. QED
    BY <1>2, <1>3, <2>2, <2>3
<1>5. QED
  BY <1>4

(* A packet that is not of a table changes nothing of what is in use.       *)
LEMMA ReaderStays ==
  ASSUME LinkInv, ReaderPart, UsePart, wire # <<>>, wire' = Tail(wire), wire[1].pid # PmtPid,
         UNCHANGED <<muxer, announced, psiLost>>, demuxer'.registered = demuxer.registered,
         demuxer'.pmt_entries = demuxer.pmt_entries, demuxer.pmt_pid_known => demuxer'.pmt_pid_known
  PROVE  ReaderPart' /\ UsePart'
<1>1. ReaderPart'
  BY DEF ReaderPart
<1>2. \A e : InUse(e)' = InUse(e)
  BY DEF InUse
<1>3. UsePart'
  BY <1>2, TablesLeft DEF UsePart
<1>4. QED
  BY <1>1, <1>3

(* A table of one packet replaces the one before it.                        *)
LEMMA OnePacketTaken ==
  ASSUME NEW good, NEW d, DemuxerOK(d, good), NEW p \in PmtPkt, d.pmt_pid_known, PsiParts(p.table.size) = 1
  PROVE  HandlePacket(d, p).pmt_entries = p.table.entries
<1> DEFINE k == Seen(d, p)
           n == HandlePacket(d, p)
<1>1. p.pid = PmtPid /\ p.pid # Pat /\ p \in Packet /\ ~IsPes(p) /\ p.table \in Table
  BY PidFacts DEF PmtPkt, PsiPkt, Packet, IsPes
<1>2. DemuxerOK(k, good)
  BY <1>1, SeenFacts
<1>3. n = HandlePmt(k, p.table)
  BY <1>1 DEF HandlePacket, PayloadKind, Seen
<1>4. n.pmt_entries = p.table.entries
  BY <1>1, <1>2, <1>3, HandlePmtFacts
<1>5. QED
  BY <1>4

(* One of a table makes the table the one in use, if the demuxer is told of *)
(* tables at all.                                                           *)
LEMMA PmtIsUsed ==
  ASSUME LinkInv, DemuxerOK(demuxer, FALSE), OneTable, ReaderPart, ListPart, UsePart,
         wire # <<>>, wire[1].pid = PmtPid, demuxer' = HandlePacket(demuxer, wire[1]),
         UNCHANGED <<muxer, announced, psiLost>>
  PROVE  ReaderPart' /\ UsePart' /\ NoPes(demuxer')
<1> DEFINE p == wire[1]
           d == demuxer
           n == HandlePacket(d, p)
           T == p.table
<1>1. p \in PmtPkt /\ 1 \in DOMAIN wire
  BY PacketFacts DEF LinkInv, WirePart
<1>2. Lists(T, announced.entries, muxer) /\ announced # NoTable
  BY <1>1 DEF ListPart
<1>3. PsiParts(T.size) = 1
  <2>1. T.size \in Nat /\ T.size >= 16 /\ T.size <= FullTable(muxer).size
    BY <1>1, <1>2 DEF PmtPkt, Table, Lists
  <2>2. FullTable(muxer).size \in Nat /\ FullTable(muxer).size >= 16
    <3>1. IsFiniteSet(AllEntries(muxer)) /\ FullTable(muxer).size = SizeOf(AllEntries(muxer))
      BY AllEntriesFacts DEF LinkInv, MuxerPart
    <3>2. QED
      BY <3>1, SizesCompared
  <2>3. QED
    BY <2>1, <2>2, SmallerFits DEF OneTable
<1>4. DemuxerOK(d, FALSE)
  OBVIOUS
<1> HIDE DEF p, d
<1>5. /\ n.pmt_pid_known = d.pmt_pid_known
      /\ ~d.pmt_pid_known => n.pmt_entries = d.pmt_entries /\ n.registered = d.registered
  BY <1>1, <1>4, PmtTaken
<1>6. d.pmt_pid_known => n.pmt_entries = T.entries
  <2>1. p \in PmtPkt
    BY <1>1
  <2>2. d.pmt_pid_known /\ PsiParts(p.table.size) = 1 => HandlePacket(d, p).pmt_entries = p.table.entries
    BY <1>4, <2>1, OnePacketTaken
  <2>3. QED
    BY <1>3, <2>2
<1>7. NoPes(n)
  BY <1>1, <1>4, PmtHandled
<1>8. demuxer' = n
  BY DEF p, d
<1> HIDE DEF n, T
<1>9. ReaderPart'
  <2>1. n.pmt_entries \subseteq AllEntries(muxer)
    BY <1>2, <1>5, <1>6 DEF Lists, ReaderPart, d
  <2>2. n.registered # {} => n.pmt_pid_known /\ announced # NoTable
    BY <1>2, <1>5 DEF ReaderPart, d
  <2>3. QED
    BY <1>8, <2>1, <2>2 DEF ReaderPart
<1>10. \A e \in announced.entries : InUse(e)'
  <2>1. CASE d.pmt_pid_known
    BY <1>2, <1>6, <1>8, <2>1 DEF Lists, InUse
  <2>2. CASE ~d.pmt_pid_known
    BY <1>5, <1>8, <2>2 DEF ReaderPart, InUse, d
  <2>3. QED
    BY <2>1, <2>2
<1>11. UsePart'
  BY <1>10 DEF UsePart
<1>12. QED
  BY <1>7, <1>8, <1>9, <1>11

(* A PES is decoded as what its muxer announced.                            *)
LEMMA CodecIsThatOfThePid ==
  ASSUME LinkInv, OneTable, KindPart, SortedPart, ReaderPart, UsePart, psiLost <= 1,
         wire # <<>>, IsPes(wire[1]), wire[1].pid \in demuxer.registered,
         NEW au, Own(wire[1].pid, au)
  PROVE  KindOf(demuxer, wire[1].pid) = Unit(au).kind
<1> DEFINE pid == wire[1].pid
           entries == demuxer.pmt_entries
<1>1. 1 \in DOMAIN wire /\ DOMAIN wire \subseteq Nat \ {0} /\ pid \in Pids
  BY DEF LinkInv, WirePart, IsPes
<1>2. PICK e \in announced.entries : e.pid = pid
  BY <1>1 DEF ReaderPart, LinkInv, AnnouncedPart
<1>3. ~Comes(wire) /\ ~Again(wire)
  <2>1. \A j \in DOMAIN wire : IsPes(wire[j])
    <3>1. \A j \in DOMAIN wire : j = 1 \/ 1 < j
      BY <1>1
    <3>2. QED
      BY <1>1, <3>1 DEF SortedPart
  <2>2. QED
    BY <2>1, PidFacts DEF Comes, Again, IsPes
<1>4. e \in entries
  BY <1>2, <1>3 DEF UsePart, InUse
<1>5. \A f, g \in AllEntries(muxer) : f.pid = g.pid => f = g
  BY AllEntriesFacts DEF LinkInv, MuxerPart
<1>6. entries \subseteq AllEntries(muxer)
  BY DEF ReaderPart
<1>7. KindOf(demuxer, pid) = e.kind
  <2>1. \A f \in entries : f.pid = pid => f = e
    BY <1>2, <1>4, <1>5, <1>6
  <2>2. (CHOOSE f \in entries : f.pid = pid) = e
    BY <1>2, <1>4, <2>1
  <2>3. QED
    BY <1>2, <1>4, <2>2 DEF KindOf
<1>8. [pid |-> pid, kind |-> Unit(au).kind] \in AllEntries(muxer)
  BY <1>1 DEF KindPart, Own, Sent, Unit
<1>9. QED
  BY <1>2, <1>4, <1>5, <1>6, <1>7, <1>8

LEMMA CarryKeepsTyped ==
  ASSUME LinkInv, FlagInv, TypedInv, Carry
  PROVE  TypedInv'
<1> DEFINE p == wire[1]
<1>1. /\ wire # <<>> /\ wire' = Tail(wire) /\ demuxer' = HandlePacket(demuxer, p)
      /\ UNCHANGED <<muxer, pushed, announced, psiLost>> /\ done' = done \cup Delivered(demuxer'.events)
  BY WireTail DEF Carry
<1>2. p \in Packet /\ p.pid \in AllPids /\ 1 \in DOMAIN wire
  BY <1>1, WireTail
<1>3. DemuxerOK(demuxer, FALSE)
  BY AnyDemuxer DEF FlagInv
<1>4. OneTable' <=> OneTable
  BY <1>1 DEF OneTable
<1>5. ASSUME OneTable
      PROVE  /\ KindPart /\ SortedPart /\ ListPart /\ ReaderPart /\ UsePart /\ CodecPart
             /\ KindPart' /\ SortedPart' /\ ListPart'
  <2>1. KindPart /\ SortedPart /\ ListPart /\ ReaderPart /\ UsePart /\ CodecPart
    BY <1>5 DEF TypedInv
  <2>2. KindPart'
    BY <1>1, <2>1 DEF KindPart
  <2>3. SortedPart' /\ ListPart'
    BY <1>1, <2>1, WireStaysSorted
  <2>4. QED
    BY <2>1, <2>2, <2>3
<1>6. ASSUME OneTable, NoPes(demuxer') PROVE CodecPart'
  <2>1. Delivered(demuxer'.events) = {}
    BY <1>6 DEF Delivered, NoPes, ToSet
  <2>2. QED
    BY <1>1, <1>5, <1>6, <2>1 DEF CodecPart, Unit
<1>7. CASE IsPes(p)
  <2>1. p \in PesPkt /\ p.pid # PmtPid /\ Own(p.pid, p.pes.au)
    BY <1>1, <1>2, <1>7, PacketFacts, PidFacts, WireTail DEF IsPes
  <2>2. /\ DemuxerOK(demuxer', FALSE) /\ SameReader(demuxer, demuxer') /\ Codes(demuxer', p.pid)
        /\ p.pid \notin demuxer.registered => NoPes(demuxer')
    <3> HIDE DEF p
    <3> DEFINE n == HandlePacket(demuxer, p)
    <3>1. DemuxerOK(n, FALSE) /\ SameReader(demuxer, n) /\ Codes(n, p.pid)
      BY <1>3, <2>1, PesHandled
    <3>2. p.pid \notin demuxer.registered => NoPes(n)
      BY <1>3, <2>1, PesHandled
    <3>3. QED
      BY <1>1, <3>1, <3>2
  <2>3. ASSUME OneTable PROVE ReaderPart' /\ UsePart'
    BY <1>1, <1>5, <2>1, <2>2, <2>3, ReaderStays DEF SameReader
  <2>4. ASSUME OneTable, p.pid \in demuxer.registered, psiLost <= 1, NEW e \in Delivered(demuxer'.events)
        PROVE  e.codec = Unit(e.au).kind
    <3> DEFINE events == demuxer'.events
    <3>1. PICK x \in {y \in ToSet(events) : y.kind = "pes"} :
            e = [au |-> x.header.au, exact |-> Exact(x), ra |-> x.ra, codec |-> x.codec]
      BY <2>4 DEF Delivered
    <3>2. e.au = x.header.au /\ e.codec = x.codec /\ x.kind = "pes"
      BY <3>1
    <3>3. PICK i \in DOMAIN events : x = events[i]
      BY <3>1 DEF ToSet
    <3>4. Own(x.pid, e.au)
      <4>1. EventOK(x, FALSE)
        BY <2>2, <3>3 DEF DemuxerOK
      <4>2. QED
        BY <3>2, <4>1 DEF EventOK
    <3>5. x.pid = p.pid /\ e.codec = KindOf(demuxer', p.pid)
      BY <2>2, <3>2, <3>3 DEF Codes
    <3>6. KindOf(demuxer', p.pid) = KindOf(demuxer, p.pid)
      BY <2>2 DEF KindOf, SameReader
    <3>7. Own(p.pid, e.au)
      BY <3>4, <3>5
    <3>8. QED
      BY <1>1, <1>5, <1>7, <2>4, <3>5, <3>6, <3>7, CodecIsThatOfThePid
  <2>5. ASSUME OneTable PROVE CodecPart'
    <3>1. CASE p.pid \notin demuxer.registered
      BY <1>6, <2>2, <2>5, <3>1
    <3>2. CASE p.pid \in demuxer.registered
      <4>1. psiLost <= 1 => \A e \in done : e.codec = Unit(e.au).kind
        BY <1>5, <2>5 DEF CodecPart
      <4>2. QED
        BY <1>1, <2>4, <2>5, <3>2, <4>1 DEF CodecPart, Unit
    <3>3. QED
      BY <3>1, <3>2
  <2>6. QED
    BY <1>4, <1>5, <2>3, <2>5 DEF TypedInv
<1>8. CASE p.pid = Pat
  <2>1. p \in PatPkt /\ p.pid # PmtPid
    <3>1. p.pid # PmtPid /\ p.pid \notin Pids
      BY <1>8, PidFacts
    <3>2. QED
      BY <1>2, <1>8, <3>1 DEF Packet, PsiPkt, PmtPkt, PesPkt
  <2>2. /\ demuxer'.pmt_pid_known /\ demuxer'.registered = demuxer.registered
        /\ demuxer'.pmt_entries = demuxer.pmt_entries /\ NoPes(demuxer')
    <3> HIDE DEF p
    <3>1. LET n == HandlePacket(demuxer, p) IN
          n.pmt_pid_known /\ n.registered = demuxer.registered /\ n.pmt_entries = demuxer.pmt_entries /\ NoPes(n)
      BY <1>3, <2>1, PatHandled
    <3>2. QED
      BY <1>1, <3>1
  <2>3. ASSUME OneTable PROVE ReaderPart' /\ UsePart'
    BY <1>1, <1>5, <2>1, <2>2, <2>3, ReaderStays
  <2>4. QED
    BY <1>4, <1>5, <1>6, <2>2, <2>3 DEF TypedInv
<1>9. CASE p.pid = PmtPid
  <2>1. ASSUME OneTable PROVE ReaderPart' /\ NoPes(demuxer')
    BY <1>1, <1>3, <1>5, <1>9, <2>1, PmtIsUsed
  <2>2. ASSUME OneTable PROVE UsePart'
    BY <1>1, <1>3, <1>5, <1>9, <2>2, PmtIsUsed
  <2>3. QED
    BY <1>4, <1>5, <1>6, <2>1, <2>2 DEF TypedInv
<1>10. QED
  BY <1>2, <1>7, <1>8, <1>9 DEF IsPes, AllPids

(* What is pushed is new, or was there.                                     *)
PushedNow(pid, kind) ==
  \A q \in Pids : \A i \in DOMAIN pushed'[q] :
    \/ i \in DOMAIN pushed[q] /\ pushed'[q][i] = pushed[q][i]
    \/ q = pid /\ pushed'[q][i].kind = kind
LEMMA PushedIsOfKind ==
  ASSUME LinkInv, NEW m, NEW pid \in Pids, NEW kind \in Kind, NEW key \in BOOLEAN, NEW step \in Steps,
         Push(m, pid, kind, key, step)
  PROVE  PushedNow(pid, kind)
<1> SUFFICES ASSUME NEW q \in Pids, NEW i \in DOMAIN pushed'[q]
             PROVE  \/ i \in DOMAIN pushed[q] /\ pushed'[q][i] = pushed[q][i]
                    \/ q = pid /\ pushed'[q][i].kind = kind
  BY DEF PushedNow
<1> DEFINE n == Parts(m.output, pid)
           new == [kind |-> kind, key |-> key, parts |-> n]
<1>1. new.kind = kind
  OBVIOUS
<1>2. pushed' = IF n = 0 THEN pushed ELSE [pushed EXCEPT ![pid] = Append(@, new)]
  BY DEF Push
<1>3. pushed \in [Pids -> Seq(AccessUnit)]
  BY DEF LinkInv, CountPart
<1> HIDE DEF n, new
<1>4. CASE n = 0 \/ q # pid
  <2>1. pushed'[q] = pushed[q]
    BY <1>2, <1>3, <1>4
  <2>2. QED
    BY <2>1
<1>5. CASE n # 0 /\ q = pid
  <2>1. pushed'[q] = Append(pushed[q], new) /\ pushed[q] \in Seq(AccessUnit)
    BY <1>2, <1>3, <1>5
  <2>2. i \in DOMAIN pushed[q] \/ i = Len(pushed[q]) + 1
    BY <2>1
  <2>3. QED
    BY <1>1, <1>5, <2>1, <2>2
<1>6. QED
  BY <1>4, <1>5

LEMMA PushKeepsTyped ==
  ASSUME LinkInv, FlagInv, TypedInv, ResendCount > 0,
         NEW m, NEW pid \in Pids, NEW kind \in Kind, NEW key \in BOOLEAN, NEW step \in Steps,
         Pushes(m, pid, kind, key, step)
  PROVE  TypedInv'
<1>1. PICK u \in Seq(PsiPkt), w \in Seq(PesPkt) : Lays(u, w, m, pid, key)
  BY PushLays
<1>2. Renews(u, muxer, m) /\ wire' = m.output
  BY <1>1 DEF Lays
<1>3. Leaves(m) /\ Units(m, pid, key)
  BY PushLays
<1>4. SameStreams(muxer, m) /\ MuxerOK(m) /\ MuxerOK(muxer) /\ muxer' = Polled(m)
  BY <1>3 DEF Leaves
<1>5. /\ wire = <<>> /\ UNCHANGED <<demuxer, psiLost, done>> /\ announced' = Announce(announced, m.output)
      /\ Push(m, pid, kind, key, step) /\ [pid |-> pid, kind |-> kind] \in AllEntries(muxer)
  BY DEF Pushes, Push
<1>6. /\ wire' \in Seq(Packet) /\ DOMAIN wire' = 1..(Len(u) + Len(w))
      /\ Len(u) \in Nat /\ Len(w) \in Nat /\ DOMAIN u = 1..Len(u)
      /\ \A i \in 1..Len(u) : wire'[i] = u[i] /\ i \in DOMAIN wire' /\ ~IsPes(wire'[i])
      /\ \A i \in DOMAIN wire' : ~IsPes(wire'[i]) => i \in 1..Len(u)
  BY <1>1 DEF Lays
<1>7. /\ AllEntries(muxer') = AllEntries(muxer) /\ FullTable(muxer').size = FullTable(muxer).size
      /\ OneTable' <=> OneTable
  <2>1. AllEntries(m) = AllEntries(muxer) /\ FullTable(m).size = FullTable(muxer).size
    BY <1>4, SameAll
  <2>2. MuxerOK(muxer') /\ SameStreams(m, muxer')
    BY <1>4, PolledFacts
  <2>3. AllEntries(muxer') = AllEntries(m) /\ FullTable(muxer').size = FullTable(m).size
    BY <1>4, <2>2, SameAll
  <2>4. QED
    BY <2>1, <2>3 DEF OneTable
<1>8. Says(m.output, announced, announced') /\ UpToDate(announced', m)
  BY <1>3 DEF Leaves
<1>9. FullTable(muxer).size \in Nat /\ FullTable(muxer).size >= 16
  <2>1. IsFiniteSet(AllEntries(muxer)) /\ FullTable(muxer).size = SizeOf(AllEntries(muxer))
    BY <1>4, AllEntriesFacts
  <2>2. QED
    BY <2>1, SizesCompared
<1>10. ASSUME OneTable, NEW i \in DOMAIN wire', wire'[i].pid = PmtPid
       PROVE  /\ wire'[i].part = 1 /\ wire'[i].table \in Table
              /\ Lists(wire'[i].table, Entries(m), muxer)
  <2>1. TableLaid(i, u)
    BY <1>1, <1>10, TablesLaid
  <2>2. i \in DOMAIN u /\ wire'[i] = u[i]
    BY <2>1 DEF TableLaid
  <2>3. u[i].part \in Nat \ {0} /\ u[i].table \in Table
    BY <2>1 DEF TableLaid
  <2>4. u[i].part <= PsiParts(u[i].table.size)
    BY <2>1 DEF TableLaid
  <2>5. Lists(u[i].table, Entries(m), muxer)
    BY <1>2, <1>10, <2>2 DEF Renews, Listing
  <2>6. PsiParts(u[i].table.size) = 1
    <3>1. u[i].table.size \in Nat /\ u[i].table.size >= 16
      BY <2>3 DEF Table
    <3>2. u[i].table.size <= FullTable(muxer).size
      BY <2>5 DEF Lists
    <3>3. QED
      BY <1>9, <1>10, <3>1, <3>2, SmallerFits DEF OneTable
  <2>7. QED
    BY <2>2, <2>3, <2>4, <2>5, <2>6
<1>11. ASSUME OneTable, Comes(wire') PROVE announced' # NoTable /\ announced'.entries = Entries(m)
  <2>1. PICK i \in DOMAIN wire' : wire'[i].pid = PmtPid
    BY <1>11 DEF Comes
  <2>2. wire' = m.output
    BY <1>2
  <2>3. i \in TableStarts(m.output)
    BY <1>10, <1>11, <2>1, <2>2 DEF TableStarts
  <2>4. PICK j \in TableStarts(m.output) : announced' = m.output[j].table
    BY <1>8, <2>3 DEF Says
  <2>5. j \in DOMAIN wire' /\ wire'[j].pid = PmtPid /\ announced' = wire'[j].table
    BY <2>2, <2>4 DEF TableStarts
  <2>6. announced' \in Table
    BY <1>10, <1>11, <2>5
  <2>7. announced' # NoTable
    BY <2>6 DEF Table, NoTable
  <2>8. QED
    BY <1>8, <2>7 DEF UpToDate
<1>12. ASSUME OneTable, ~Comes(wire') PROVE announced' = announced
  <2>1. TableStarts(m.output) = {}
    BY <1>2, <1>12 DEF Comes, TableStarts
  <2>2. QED
    BY <1>5, <2>1 DEF Announce
<1>13. ASSUME OneTable
       PROVE  KindPart /\ ReaderPart /\ CodecPart /\ (psiLost <= 1 => \A e \in announced.entries : InUse(e))
  <2>1. KindPart /\ ReaderPart /\ CodecPart /\ UsePart
    BY <1>13 DEF TypedInv
  <2>2. ~Again(wire) /\ ~Comes(wire)
    BY <1>5 DEF Again, Comes
  <2>3. QED
    BY <2>1, <2>2 DEF UsePart
<1>14. ASSUME OneTable PROVE KindPart'
  <2> DEFINE new == pushed'
  <2>1. \A q \in Pids : \A i \in DOMAIN new[q] :
          \/ i \in DOMAIN pushed[q] /\ new[q][i] = pushed[q][i]
          \/ q = pid /\ new[q][i].kind = kind
    <3>1. PushedNow(pid, kind)
      BY <1>5, PushedIsOfKind
    <3>2. QED
      BY <3>1 DEF PushedNow
  <2> HIDE DEF new
  <2>2. ASSUME NEW q \in Pids, NEW i \in DOMAIN new[q]
        PROVE  [pid |-> q, kind |-> new[q][i].kind] \in AllEntries(muxer)
    BY <1>5, <1>13, <1>14, <2>1, <2>2 DEF KindPart
  <2>3. \A q \in Pids : \A i \in DOMAIN new[q] : [pid |-> q, kind |-> new[q][i].kind] \in AllEntries(muxer')
    BY <1>7, <2>2
  <2>4. QED
    BY <2>3, Zenon DEF KindPart, new
<1>15. SortedPart'
  <2>1. ASSUME NEW i \in DOMAIN wire', NEW j \in DOMAIN wire', i < j, IsPes(wire'[i]), ~IsPes(wire'[j]) PROVE FALSE
    <3>1. j \in 1..Len(u) /\ i \in 1..(Len(u) + Len(w))
      BY <1>6, <2>1
    <3>2. i \in 1..Len(u)
      BY <1>6, <2>1, <3>1
    <3>3. QED
      BY <1>6, <2>1, <3>2
  <2>2. QED
    BY <2>1 DEF SortedPart
<1>16. ASSUME OneTable PROVE ListPart'
  <2>1. ASSUME NEW i \in DOMAIN wire', wire'[i].pid = PmtPid
        PROVE  announced' # NoTable /\ Lists(wire'[i].table, announced'.entries, muxer')
    <3>1. Comes(wire')
      BY <2>1 DEF Comes
    <3>2. announced' # NoTable /\ announced'.entries = Entries(m)
      BY <1>11, <1>16, <3>1
    <3>3. Lists(wire'[i].table, Entries(m), muxer)
      BY <1>10, <1>16, <2>1
    <3>4. QED
      BY <1>7, <3>2, <3>3 DEF Lists
  <2>2. QED
    BY <2>1 DEF ListPart
<1>17. ASSUME OneTable PROVE ReaderPart'
  <2>1. announced # NoTable => announced' # NoTable
    BY <1>11, <1>12, <1>17
  <2>2. QED
    BY <1>5, <1>7, <1>13, <1>17, <2>1 DEF ReaderPart
<1>18. ASSUME OneTable PROVE UsePart'
  <2>1. ASSUME psiLost' <= 1, NEW e \in announced'.entries, ~InUse(e)'
        PROVE  Again(wire') /\ Comes(wire')
    <3>1. ~InUse(e) /\ psiLost <= 1
      BY <1>5, <2>1 DEF InUse
    <3>2. e \notin announced.entries
      BY <1>13, <1>18, <3>1
    <3>3. Comes(wire')
      BY <1>12, <1>18, <2>1, <3>2
    <3>4. e \in Entries(m)
      BY <1>11, <1>18, <2>1, <3>3
    <3>5. demuxer.registered # {}
      BY <3>1 DEF InUse
    <3>6. announced.entries = Entries(muxer)
      BY <1>13, <1>18, <3>5 DEF ReaderPart, LinkInv, MuxerPart, UpToDate
    <3>7. Again(u)
      BY <1>2, <3>2, <3>4, <3>6 DEF Renews
    <3>8. PICK i, j \in DOMAIN u : i < j /\ u[i].pid = PmtPid /\ u[j].pid = PmtPid
      BY <3>7 DEF Again
    <3>9. QED
      BY <1>6, <3>3, <3>8 DEF Again
  <2>2. QED
    BY <2>1 DEF UsePart
<1>19. ASSUME OneTable PROVE CodecPart'
  <2>2. \A x \in Pids \X (Nat \ {0}) :
          Sent(x) => x[2] \in DOMAIN pushed'[x[1]] /\ pushed'[x[1]][x[2]] = Unit(x)
    BY <1>3 DEF Units
  <2>3. \A e \in done : Unit(e.au)' = Unit(e.au)
    BY <2>2 DEF FlagInv, DonePart, Unit
  <2>4. QED
    BY <1>5, <1>13, <1>19, <2>3 DEF CodecPart
<1>20. QED
  BY <1>7, <1>14, <1>15, <1>16, <1>17, <1>18, <1>19 DEF TypedInv

LEMMA InitTyped == Init => TypedInv
<1> SUFFICES ASSUME Init PROVE TypedInv
  OBVIOUS
<1>1. /\ wire = <<>> /\ announced = NoTable /\ done = {} /\ demuxer = NewDemuxer
      /\ pushed = [pid \in Pids |-> <<>>]
  BY DEF Init
<1>2. KindPart /\ SortedPart /\ ListPart
  BY <1>1 DEF KindPart, SortedPart, ListPart
<1>3. ReaderPart
  BY <1>1 DEF ReaderPart, NewDemuxer
<1>4. UsePart /\ CodecPart
  BY <1>1 DEF UsePart, CodecPart, NoTable
<1>5. QED
  BY <1>2, <1>3, <1>4 DEF TypedInv

LEMMA NextTyped ==
  ASSUME ResendCount > 0, LinkInv, FlagInv, TypedInv, [Next]_vars
  PROVE  TypedInv'
<1>1. ASSUME NEW pid \in Pids, NEW kind \in Kind, NEW key \in BOOLEAN, NEW step \in Steps, NEW m,
             Pushes(m, pid, kind, key, step)
      PROVE  TypedInv'
  BY <1>1, PushKeepsTyped
<1>2. ASSUME LostOnUplink PROVE TypedInv'
  BY <1>2, LossKeepsTyped DEF LostOnUplink
<1>3. ASSUME LostOnDownlink PROVE TypedInv'
  BY <1>3, LossKeepsTyped DEF LostOnDownlink
<1>4. ASSUME UNCHANGED vars PROVE TypedInv'
  <2>1. UNCHANGED <<muxer, demuxer, wire, pushed, announced, psiLost, done>>
    BY <1>4 DEF vars, ghosts
  <2>2. /\ OneTable' <=> OneTable
        /\ KindPart => KindPart'
        /\ SortedPart => SortedPart'
        /\ ListPart => ListPart'
        /\ ReaderPart => ReaderPart'
    BY <2>1 DEF OneTable, KindPart, SortedPart, ListPart, ReaderPart
  <2>3. (UsePart => UsePart') /\ (CodecPart => CodecPart')
    BY <2>1 DEF UsePart, InUse, CodecPart, Unit
  <2>4. QED
    BY <2>2, <2>3 DEF TypedInv
<1>5. QED
  BY <1>1, <1>2, <1>3, <1>4, CarryKeepsTyped, NextIs DEF Step

(* Where the tables fit one packet, even with nobody suppressed, and a      *)
(* change of them is repeated at all, the loss of any one of their packets  *)
(* leaves no unit with an unknown codec, or with that of another one: what  *)
(* is announced is in use by the time that PES follow it.                   *)
THEOREM OneLossIsRepaired ==
  ASSUME ResendCount > 0
  PROVE  Spec => []TypedDespiteOneLoss
<1>1. TypedInv => TypedDespiteOneLoss
  BY DEF TypedInv, OneTable, CodecPart, TypedDespiteOneLoss
<1>2. LinkInv /\ FlagInv /\ TypedInv /\ [Next]_vars => LinkInv' /\ FlagInv' /\ TypedInv'
  BY NextLink, NextFlags, NextTyped
<1>3. QED
  BY <1>1, <1>2, InitLink, InitFlags, InitTyped, PTL DEF Spec

-----------------------------------------------------------------------------
(* The variables of a stream on its way are what they are taken for; and a  *)
(* partial PES of which the demuxer knows the length has a header, the one  *)
(* that declared it.                                                        *)
THEOREM TypeCorrect == Spec => []TypeOK
<1>1. LinkInv /\ FlagInv => TypeOK
  <2> SUFFICES ASSUME LinkInv, FlagInv PROVE TypeOK
    OBVIOUS
  <2>1. psiLost \in 0..MaxLost
    <3>1. Cardinality(lost) \in Nat /\ psiLost \in Nat /\ MaxLost \in Nat /\ Losses <= MaxLost
      BY FS_CardinalityType, PathAssumption DEF LinkInv, CountPart
    <3>2. QED
      BY <3>1 DEF Losses
  <2>2. \A p \in Pids : demuxer.partials[p].declared # Unbounded => demuxer.partials[p].header # NoHeader
    BY DEF FlagInv, DemuxerOK, PartialOK
  <2>3. checker.gaps \in [AllPids -> Nat]
    BY DEF LinkInv, CheckPart
  <2>4. QED
    BY <2>1, <2>2, <2>3 DEF TypeOK, LinkInv, CountPart
<1>2. LinkInv /\ FlagInv /\ [Next]_vars => LinkInv' /\ FlagInv'
  BY NextLink, NextFlags
<1>3. QED
  BY <1>1, <1>2, InitLink, InitFlags, PTL DEF Spec

(* As long as the tables arrive, the event of a PES has the keyframe flag   *)
(* if and only if its access unit is a keyframe, whatever packets of PES    *)
(* are lost: the flag travels with the first packet of its unit, the PID is *)
(* known when that arrives, and the flush of the unit before does not take  *)
(* it.                                                                      *)
THEOREM FlagsAreRight == Spec => []KeyframeFlag
<1>1. FlagInv => KeyframeFlag
  BY DEF FlagInv, DonePart, KeyframeFlag, Flagged
<1>2. LinkInv /\ FlagInv /\ [Next]_vars => LinkInv' /\ FlagInv'
  BY NextLink, NextFlags
<1>3. QED
  BY <1>1, <1>2, InitLink, InitFlags, PTL DEF Spec

-----------------------------------------------------------------------------
(* What a partial PES is worth.  A unit is spoiled when its event may be    *)
(* wrong: it lost a packet, or what begins its buffer or goes on after it   *)
(* is of another one, which is broken: its first packet was lost, and       *)
(* another one arrived.                                                     *)
LostPart(au) == \E i \in 1..Unit(au).parts : <<au, i>> \in lost
Broken(au) ==
  <<au, 1>> \in lost /\ \E i \in 2..Unit(au).parts : <<au, i>> \notin lost /\ ~OnWire(au, i)
BrokenBefore(au) == \E n \in 1..(au[2] - 1) : Broken(<<au[1], n>>)
Spoiled(au) ==
  LostPart(au) \/ (IF au[1] = Video THEN <<Successor(au), 1>> \in lost ELSE BrokenBefore(au))
Wired(au) == \E j \in DOMAIN wire : IsPes(wire[j]) /\ wire[j].pes.au = au
NotIn(au, i) == <<au, i>> \in lost \/ OnWire(au, i)
Latest(pid) == <<pid, Len(pushed[pid])>>

(* The next packet of the PES is at n, of its size bytes.                   *)
Remains(au, size, n) ==
  \/ n = size /\ ~Wired(au)
  \/ \E i \in DOMAIN wire :
       /\ IsPes(wire[i]) /\ \A j \in DOMAIN wire : IsPes(wire[j]) => i <= j
       /\ wire[i].pes.au = au /\ wire[i].from = n

(* On the wire is what remains of a PES, which is the last one of its PID,  *)
(* after the tables.                                                        *)
UnitPart ==
  /\ \A i, j \in DOMAIN wire : i < j /\ IsPes(wire[i]) => IsPes(wire[j])
  /\ \A i, j \in DOMAIN wire : IsPes(wire[i]) /\ IsPes(wire[j]) =>
       wire[j].pes = wire[i].pes /\ wire[j].part = wire[i].part + (j - i)
  /\ \A i \in DOMAIN wire : IsPes(wire[i]) =>
       LET p == wire[i] IN
       /\ p.pes.au = Latest(p.pid) /\ (p.pes.bounded <=> p.pid # Video) /\ p.len > 0
       /\ p.pid \in Tracked => p.pes.size > PesHeader
       /\ p.part = 1 => p.from = 0 /\ (p.pid \in Tracked => p.len > PesHeader)
       /\ IF i = Len(wire) THEN p.part = Unit(p.pes.au).parts /\ p.from + p.len = p.pes.size
          ELSE p.from + p.len < p.pes.size /\ wire[i + 1].from = p.from + p.len

(* What the buffer of a partial PES has, without a header and with one.     *)
Pure(buf, au) == \A i \in DOMAIN buf : buf[i].au = au /\ buf[i].from = buf[i].at
NoneGood(pid, x) ==
  /\ x.declared = Unbounded
  /\ ~x.exists => x.buf = <<>>
  /\ x.exists =>
       /\ pid # Video
       /\ \/ \E n \in 1..Len(pushed[pid]) : Broken(<<pid, n>>)
          \/ x.buf = <<>> /\ (Wired(Latest(pid)) => NotIn(Latest(pid), 1))
SomeGood(pid, x) ==
  LET au == x.header.au
      size == x.header.size
      end == BufLen(x.buf) + PesHeader
  IN /\ x.exists /\ BufLen(x.buf) > 0 /\ size > PesHeader
     /\ x.declared = IF pid = Video THEN Unbounded ELSE size - PesHeader
     /\ ~NotIn(au, 1) /\ \A j \in (au[2] + 1)..Len(pushed[pid]) : NotIn(<<pid, j>>, 1)
     /\ \A i \in DOMAIN wire : IsPes(wire[i]) /\ wire[i].pes.au = au => wire[i].pes = x.header
     /\ ~Spoiled(au) => Pure(x.buf, au) /\ Remains(au, size, end) /\ (pid # Video => Wired(au))
     /\ pid # Video /\ LostPart(au) /\ au = Latest(pid) /\ ~BrokenBefore(au) =>
          \E m \in (end + 1)..size : Remains(au, size, m)
Good(pid, x) ==
  BufLen(x.buf) \in Nat /\ IF x.header = NoHeader THEN NoneGood(pid, x) ELSE SomeGood(pid, x)

GoodPart ==
  \A pid \in Tracked :
    /\ Good(pid, demuxer.partials[pid])
    /\ demuxer.partials[pid].exists => pid \in demuxer.registered
ExactPart == \A e \in done : e.au[1] \in Tracked => e.exact \/ Spoiled(e.au)
TunedPart ==
  \A au \in tuned :
    /\ au \in Pids \X (Nat \ {0}) /\ Sent(au)
    /\ au[1] \in Tracked => demuxer.partials[au[1]].header.au = au \/ \E e \in done : e.au = au
DeliveryInv == UnitPart /\ GoodPart /\ ExactPart /\ TunedPart

(* The wire when a packet of a PES is the first on it.                      *)
AtPes == wire # <<>> /\ IsPes(wire[1])
HeadFact(p, au, size, parts) ==
  /\ p \in PesPkt /\ p.pid \in Pids /\ au \in Pids \X (Nat \ {0}) /\ au[1] = p.pid /\ Sent(au)
  /\ au = Latest(p.pid) /\ <<au, p.part>> \notin lost /\ size \in Nat
  /\ parts \in Nat /\ p.part \in 1..parts
  /\ p.len \in Nat \ {0} /\ p.from \in Int /\ p.from + p.len <= size
  /\ p.pes.bounded <=> p.pid # Video
  /\ p.pid \in Tracked => size > PesHeader
  /\ p.part = 1 => p.from = 0 /\ (p.pid \in Tracked => p.len > PesHeader)
WireFact(p, au, size, parts) ==
  /\ \A h : Wired(h) <=> h = au
  /\ \A h, n, s : h # au => (Remains(h, s, n) <=> n = s)
  /\ \A n, s : Remains(au, s, n) <=> n = p.from
  /\ \A i : OnWire(au, i) <=> i \in p.part..parts
  /\ \A h, i : OnWire(h, i) => h = au
  /\ \A i \in DOMAIN wire : IsPes(wire[i]) => wire[i].pes = p.pes
TailFact(p, au, size) ==
  /\ \A h, n, s : h # au => (Remains(h, s, n)' <=> n = s)
  /\ \A n : Remains(au, size, n)' <=> n = p.from + p.len
  /\ \A h : Wired(h)' <=> h = au /\ p.from + p.len < size
  /\ \A h, i : OnWire(h, i)' <=> OnWire(h, i) /\ ~(h = au /\ i = p.part)
  /\ \A i \in DOMAIN wire' : IsPes(wire'[i]) => wire'[i].pes = p.pes

LEMMA HeadFacts ==
  ASSUME LinkInv, UnitPart, AtPes
  PROVE  LET p == wire[1] IN HeadFact(p, p.pes.au, p.pes.size, Unit(p.pes.au).parts)
                             /\ WireFact(p, p.pes.au, p.pes.size, Unit(p.pes.au).parts)
<1> DEFINE p == wire[1]
           au == p.pes.au
           size == p.pes.size
           parts == Unit(au).parts
           l == Len(wire)
<1>1. /\ wire \in Seq(Packet) /\ l \in Nat \ {0} /\ DOMAIN wire = 1..l /\ 1 \in DOMAIN wire /\ l \in DOMAIN wire
  <2>1. wire \in Seq(Packet) /\ wire # <<>>
    BY DEF LinkInv, WirePart, AtPes
  <2>2. QED
    BY <2>1
<1>2. p \in PesPkt /\ IsPes(p)
  <2>1. p \in Packet
    BY <1>1
  <2>2. QED
    BY <2>1, PacketFacts DEF AtPes
<1>3. /\ p.pid \in Pids /\ au \in Pids \X (Nat \ {0}) /\ size \in Nat /\ p.part \in Nat \ {0}
      /\ p.from \in Int /\ p.len \in Int
  BY <1>2 DEF PesPkt, Pes
<1>4. au[1] = p.pid /\ Sent(au) /\ <<au, p.part>> \notin lost
  BY <1>1, <1>2 DEF LinkInv, WirePart, Own
<1>5. \A i \in DOMAIN wire : IsPes(wire[i])
  <2>1. ASSUME NEW i \in DOMAIN wire PROVE IsPes(wire[i])
    <3>1. i = 1 \/ 1 < i
      BY <1>1
    <3>2. QED
      BY <1>1, <1>2, <3>1 DEF UnitPart
  <2>2. QED
    BY <2>1
<1>6. \A i \in DOMAIN wire : wire[i].pes = p.pes /\ wire[i].part = p.part + (i - 1)
  BY <1>1, <1>5 DEF UnitPart
<1>7. wire[l].part = parts /\ wire[l].part = p.part + (l - 1)
  <2>1. wire[l].pes = p.pes /\ wire[l].part = p.part + (l - 1)
    BY <1>1, <1>6
  <2>2. wire[l].part = Unit(wire[l].pes.au).parts
    BY <1>1, <1>5 DEF UnitPart
  <2>3. QED
    BY <2>1, <2>2
<1>8. /\ au = Latest(p.pid) /\ (p.pes.bounded <=> p.pid # Video) /\ p.len > 0
      /\ p.pid \in Tracked => size > PesHeader
      /\ p.part = 1 => p.from = 0 /\ (p.pid \in Tracked => p.len > PesHeader)
  BY <1>1, <1>2 DEF UnitPart
<1>9. p.from + p.len <= size
  <2>1. p.from + p.len = size \/ p.from + p.len < size
    BY <1>1, <1>2 DEF UnitPart
  <2>2. QED
    BY <1>3, <2>1
<1>10. parts \in Nat /\ p.part \in 1..parts /\ p.len \in Nat \ {0}
  <2> HIDE DEF p, l, parts
  <2>1. QED
    BY <1>1, <1>3, <1>7, <1>8
<1>11. HeadFact(p, au, size, parts)
  <2> HIDE DEF p, au, size, parts
  <2>1. p.pes.bounded <=> p.pid # Video
    BY <1>8
  <2>2. QED
    BY <1>2, <1>3, <1>4, <1>8, <1>9, <1>10, <2>1 DEF HeadFact
<1>12. \A h : Wired(h) <=> h = au
  BY <1>1, <1>5, <1>6 DEF Wired
<1>13. \A i : OnWire(au, i) <=> i \in p.part..parts
  <2>1. ASSUME NEW i, OnWire(au, i) PROVE i \in p.part..parts
    <3>1. PICK j \in DOMAIN wire : wire[j].part = i
      BY <2>1 DEF OnWire
    <3>2. j \in 1..l /\ i = p.part + (j - 1) /\ parts = p.part + (l - 1)
      BY <1>1, <1>6, <1>7, <3>1
    <3> HIDE DEF p, l, parts
    <3>3. QED
      BY <1>1, <1>3, <3>2
  <2>2. ASSUME NEW i, i \in p.part..parts PROVE OnWire(au, i)
    <3> DEFINE j == i - p.part + 1
    <3>1. j \in 1..l /\ i = p.part + (j - 1)
      <4>1. parts = p.part + (l - 1)
        BY <1>7
      <4> HIDE DEF p, l, parts
      <4>2. QED
        BY SMTT(30), <1>1, <1>3, <2>2, <4>1
    <3> HIDE DEF j
    <3>2. j \in DOMAIN wire /\ wire[j].pes = p.pes /\ wire[j].part = i /\ IsPes(wire[j])
      BY <1>1, <1>5, <1>6, <3>1
    <3>3. QED
      BY <3>2 DEF OnWire
  <2>3. QED
    BY <2>1, <2>2
<1>14. \A h, i : OnWire(h, i) => h = au
  BY <1>6 DEF OnWire
<1>15. ASSUME NEW h, NEW n, NEW s PROVE Remains(h, s, n) <=> IF h = au THEN n = p.from ELSE n = s
  <2>1. \A i \in DOMAIN wire : (\A j \in DOMAIN wire : IsPes(wire[j]) => i <= j) <=> i = 1
    BY <1>1, <1>5
  <2>2. (\E i \in DOMAIN wire : /\ IsPes(wire[i]) /\ \A j \in DOMAIN wire : IsPes(wire[j]) => i <= j
                                /\ wire[i].pes.au = h /\ wire[i].from = n) <=> au = h /\ p.from = n
    BY <1>1, <1>5, <2>1
  <2>3. QED
    BY <1>12, <2>2 DEF Remains
<1>16. WireFact(p, au, size, parts)
  <2> HIDE DEF p, au, size, parts
  <2>1. QED
    BY <1>6, <1>12, <1>13, <1>14, <1>15 DEF WireFact
<1>17. QED
  BY <1>11, <1>16

LEMMA TailIs ==
  ASSUME LinkInv, wire # <<>>, wire' = Tail(wire)
  PROVE  /\ Len(wire) \in Nat \ {0} /\ DOMAIN wire = 1..Len(wire)
         /\ Len(wire') = Len(wire) - 1 /\ DOMAIN wire' = 1..(Len(wire) - 1)
         /\ \A i \in DOMAIN wire' : i \in Nat /\ i >= 1 /\ i + 1 \in DOMAIN wire /\ wire'[i] = wire[i + 1]
         /\ \A i \in DOMAIN wire : i = 1 \/ (i - 1 \in DOMAIN wire' /\ wire'[i - 1] = wire[i])
<1>1. wire \in Seq(Packet) /\ wire' \in Seq(Packet) /\ Len(wire') = Len(wire) - 1
  BY WireTail DEF LinkInv, WirePart
<1>2. Len(wire) \in Nat \ {0} /\ DOMAIN wire = 1..Len(wire) /\ DOMAIN wire' = 1..(Len(wire) - 1)
  BY <1>1
<1>3. \A i \in DOMAIN wire' : i \in Nat /\ i >= 1 /\ i + 1 \in DOMAIN wire /\ wire'[i] = wire[i + 1]
  BY WireTail
<1>4. ASSUME NEW i \in DOMAIN wire, i # 1 PROVE i - 1 \in DOMAIN wire' /\ wire'[i - 1] = wire[i]
  <2>1. i - 1 \in DOMAIN wire' /\ (i - 1) + 1 = i
    BY <1>2, <1>4
  <2>2. QED
    BY <1>3, <2>1
<1>5. QED
  BY <1>1, <1>2, <1>3, <1>4

LEMMA UnitStays ==
  ASSUME LinkInv, UnitPart, wire # <<>>, wire' = Tail(wire), pushed' = pushed
  PROVE  UnitPart'
<1> DEFINE l == Len(wire)
<1>1. /\ l \in Nat \ {0} /\ DOMAIN wire = 1..l /\ Len(wire') = l - 1 /\ DOMAIN wire' = 1..(l - 1)
      /\ \A i \in DOMAIN wire' : i \in Nat /\ i >= 1 /\ i + 1 \in DOMAIN wire /\ wire'[i] = wire[i + 1]
  BY TailIs
<1>2. \A i, j \in DOMAIN wire' : i < j /\ IsPes(wire'[i]) => IsPes(wire'[j])
  <2>1. ASSUME NEW i \in DOMAIN wire', NEW j \in DOMAIN wire', i < j, IsPes(wire'[i]) PROVE IsPes(wire'[j])
    <3>1. i + 1 < j + 1
      BY <1>1, <2>1
    <3>2. QED
      BY <1>1, <2>1, <3>1 DEF UnitPart
  <2>2. QED
    BY <2>1
<1>3. ASSUME NEW i \in DOMAIN wire', NEW j \in DOMAIN wire', IsPes(wire'[i]), IsPes(wire'[j])
      PROVE  wire'[j].pes = wire'[i].pes /\ wire'[j].part = wire'[i].part + (j - i)
  <2>1. wire'[j].pes = wire'[i].pes /\ wire'[j].part = wire'[i].part + ((j + 1) - (i + 1))
    BY <1>1, <1>3 DEF UnitPart
  <2>2. (j + 1) - (i + 1) = j - i
    BY <1>1
  <2>3. QED
    BY <2>1, <2>2
<1>4. ASSUME NEW i \in DOMAIN wire', IsPes(wire'[i])
      PROVE  LET p == wire'[i] IN
             /\ p.pes.au = Latest(p.pid) /\ (p.pes.bounded <=> p.pid # Video) /\ p.len > 0
             /\ p.pid \in Tracked => p.pes.size > PesHeader
             /\ p.part = 1 => p.from = 0 /\ (p.pid \in Tracked => p.len > PesHeader)
             /\ IF i = Len(wire') THEN p.part = Unit(p.pes.au).parts /\ p.from + p.len = p.pes.size
                ELSE p.from + p.len < p.pes.size /\ wire'[i + 1].from = p.from + p.len
  <2> DEFINE n == i + 1
             p == wire'[i]
  <2>1. n \in DOMAIN wire /\ wire'[i] = wire[n] /\ (i = Len(wire') <=> n = l)
    BY <1>1
  <2> HIDE DEF n
  <2>2. /\ p.pes.au = Latest(p.pid) /\ (p.pes.bounded <=> p.pid # Video) /\ p.len > 0
        /\ p.pid \in Tracked => p.pes.size > PesHeader
        /\ p.part = 1 => p.from = 0 /\ (p.pid \in Tracked => p.len > PesHeader)
        /\ IF n = l THEN p.part = Unit(p.pes.au).parts /\ p.from + p.len = p.pes.size
           ELSE p.from + p.len < p.pes.size /\ wire[n + 1].from = p.from + p.len
    BY <1>4, <2>1 DEF UnitPart
  <2>3. i # Len(wire') => wire'[i + 1] = wire[n + 1]
    <3>1. i # Len(wire') => i + 1 \in DOMAIN wire'
      BY <1>1
    <3>2. QED
      BY <1>1, <3>1 DEF n
  <2>4. QED
    BY <2>1, <2>2, <2>3
<1>5. \A pid : Latest(pid)' = Latest(pid)
  BY DEF Latest
<1>6. \A au : Unit(au)' = Unit(au)
  BY DEF Unit
<1>7. QED
  BY <1>2, <1>3, <1>4, <1>5, <1>6 DEF UnitPart

LEMMA PsiGone ==
  ASSUME LinkInv, wire # <<>>, ~IsPes(wire[1]), wire' = Tail(wire)
  PROVE  /\ \A au : Wired(au)' <=> Wired(au)
         /\ \A au, i : OnWire(au, i)' <=> OnWire(au, i)
         /\ \A au, size, n : Remains(au, size, n)' <=> Remains(au, size, n)
         /\ \A i \in DOMAIN wire' : IsPes(wire'[i]) => \E j \in DOMAIN wire : wire'[i] = wire[j]
<1>1. /\ \A i \in DOMAIN wire' : i \in Nat /\ i + 1 \in DOMAIN wire /\ wire'[i] = wire[i + 1]
      /\ \A i \in DOMAIN wire : IsPes(wire[i]) => i - 1 \in DOMAIN wire' /\ wire'[i - 1] = wire[i]
      /\ \A i \in DOMAIN wire : i \in Nat
  BY TailIs
<1>2. \A au : Wired(au)' <=> Wired(au)
  BY <1>1 DEF Wired
<1>3. \A au, i : OnWire(au, i)' <=> OnWire(au, i)
  BY <1>1 DEF OnWire
<1>4. ASSUME NEW au, NEW size, NEW n PROVE Remains(au, size, n)' <=> Remains(au, size, n)
  <2> DEFINE First(i) == /\ IsPes(wire[i]) /\ \A j \in DOMAIN wire : IsPes(wire[j]) => i <= j
             FirstNow(i) == /\ IsPes(wire'[i]) /\ \A j \in DOMAIN wire' : IsPes(wire'[j]) => i <= j
  <2>1. ASSUME NEW i \in DOMAIN wire, First(i) PROVE FirstNow(i - 1)
    <3>1. ASSUME NEW j \in DOMAIN wire', IsPes(wire'[j]) PROVE i - 1 <= j
      <4>1. i <= j + 1
        BY <1>1, <2>1, <3>1
      <4>2. QED
        BY <1>1, <4>1
    <3>2. QED
      BY <1>1, <2>1, <3>1
  <2>2. ASSUME NEW i \in DOMAIN wire', FirstNow(i) PROVE First(i + 1)
    <3>1. ASSUME NEW j \in DOMAIN wire, IsPes(wire[j]) PROVE i + 1 <= j
      <4>1. i <= j - 1
        BY <1>1, <2>2, <3>1
      <4>2. QED
        BY <1>1, <4>1
    <3>2. QED
      BY <1>1, <2>2, <3>1
  <2>3. (\E i \in DOMAIN wire : First(i) /\ wire[i].pes.au = au /\ wire[i].from = n)
          <=> (\E i \in DOMAIN wire' : FirstNow(i) /\ wire'[i].pes.au = au /\ wire'[i].from = n)
    <3> HIDE DEF First, FirstNow
    <3>1. \A i \in DOMAIN wire : First(i) => i - 1 \in DOMAIN wire' /\ wire'[i - 1] = wire[i]
      BY <1>1 DEF First
    <3>2. QED
      BY <1>1, <2>1, <2>2, <3>1
  <2>4. QED
    BY <1>2, <2>3 DEF Remains
<1>5. QED
  BY <1>1, <1>2, <1>3, <1>4

LEMMA TailFacts ==
  ASSUME LinkInv, UnitPart, AtPes, wire' = Tail(wire), NEW p, p = wire[1]
  PROVE  TailFact(p, p.pes.au, p.pes.size)
<1> DEFINE au == p.pes.au
           size == p.pes.size
           parts == Unit(au).parts
           l == Len(wire)
<1>1. HeadFact(p, au, size, parts) /\ WireFact(p, au, size, parts)
  BY HeadFacts
<1>2. /\ l \in Nat \ {0} /\ DOMAIN wire = 1..l /\ DOMAIN wire' = 1..(l - 1)
      /\ \A i \in DOMAIN wire' : i \in Nat /\ i >= 1 /\ i + 1 \in DOMAIN wire /\ wire'[i] = wire[i + 1]
      /\ \A i \in DOMAIN wire : i = 1 \/ (i - 1 \in DOMAIN wire' /\ wire'[i - 1] = wire[i])
      /\ 1 \in DOMAIN wire /\ wire # <<>>
  BY TailIs DEF AtPes
<1>3. \A i \in DOMAIN wire : IsPes(wire[i]) /\ wire[i].pes = p.pes
  <2>1. ASSUME NEW i \in DOMAIN wire PROVE IsPes(wire[i])
    <3>1. i = 1 \/ 1 < i
      BY <1>2
    <3>2. QED
      BY <1>2, <3>1 DEF UnitPart, AtPes
  <2>2. QED
    BY <1>2, <2>1 DEF UnitPart
<1>4. /\ l = 1 => p.from + p.len = size
      /\ l # 1 => p.from + p.len < size /\ wire[2].from = p.from + p.len /\ 1 \in DOMAIN wire' /\ wire'[1] = wire[2]
  <2>1. IF 1 = l THEN p.from + p.len = size ELSE p.from + p.len < size /\ wire[1 + 1].from = p.from + p.len
    BY <1>2, <1>3 DEF UnitPart
  <2>2. l # 1 => 1 \in DOMAIN wire'
    BY <1>2
  <2>3. QED
    BY <1>2, <2>1, <2>2
<1>5. p.from \in Int /\ p.len \in Int /\ size \in Nat
  BY <1>1 DEF HeadFact
<1>6. \A i \in DOMAIN wire' : IsPes(wire'[i]) /\ wire'[i].pes = p.pes
  BY <1>2, <1>3
<1>7. \A h : Wired(h)' <=> h = au /\ p.from + p.len < size
  <2>1. CASE l = 1
    <3>1. DOMAIN wire' = {} /\ ~(p.from + p.len < size)
      BY <1>2, <1>4, <1>5, <2>1
    <3>2. QED
      BY <3>1 DEF Wired
  <2>2. CASE l # 1
    BY <1>4, <1>6, <2>2 DEF Wired
  <2>3. QED
    BY <2>1, <2>2
<1>8. ASSUME NEW h, NEW n, NEW s
      PROVE  Remains(h, s, n)' <=>
               IF h = au THEN (IF l = 1 THEN n = s ELSE n = p.from + p.len) ELSE n = s
  <2>1. CASE l = 1
    <3>1. DOMAIN wire' = {} /\ ~Wired(h)'
      BY <1>2, <1>4, <1>5, <1>7, <2>1
    <3>2. QED
      BY <2>1, <3>1 DEF Remains
  <2>2. CASE l # 1
    <3>1. \A i \in DOMAIN wire' : (\A j \in DOMAIN wire' : IsPes(wire'[j]) => i <= j) <=> i = 1
      BY <1>2, <1>4, <1>6, <2>2
    <3>2. 1 \in DOMAIN wire' /\ wire'[1].pes.au = au /\ wire'[1].from = p.from + p.len
      BY <1>4, <1>6, <2>2
    <3>3. (\E i \in DOMAIN wire' : /\ IsPes(wire'[i]) /\ \A j \in DOMAIN wire' : IsPes(wire'[j]) => i <= j
                                   /\ wire'[i].pes.au = h /\ wire'[i].from = n) <=> au = h /\ p.from + p.len = n
      BY ONLY <3>1, <3>2, <1>6
    <3>4. Wired(h)' <=> h = au
      BY <1>4, <1>7, <2>2
    <3>5. QED
      BY <2>2, <3>3, <3>4 DEF Remains
  <2>3. QED
    BY <2>1, <2>2
<1>9. ASSUME NEW h, NEW i PROVE OnWire(h, i)' <=> OnWire(h, i) /\ ~(h = au /\ i = p.part)
  <2>1. ASSUME OnWire(h, i)' PROVE OnWire(h, i) /\ ~(h = au /\ i = p.part)
    <3>1. PICK j \in DOMAIN wire' : IsPes(wire'[j]) /\ wire'[j].pes.au = h /\ wire'[j].part = i
      BY <2>1 DEF OnWire
    <3>2. <<wire'[j].pes.au, wire'[j].part>> # <<au, p.part>>
      BY <1>2, <1>3, <3>1, WireTail
    <3>3. QED
      BY <1>2, <3>1, <3>2 DEF OnWire
  <2>2. ASSUME OnWire(h, i), ~(h = au /\ i = p.part) PROVE OnWire(h, i)'
    <3>1. PICK j \in DOMAIN wire : IsPes(wire[j]) /\ wire[j].pes.au = h /\ wire[j].part = i
      BY <2>2 DEF OnWire
    <3>2. j # 1
      BY <2>2, <3>1
    <3>3. j - 1 \in DOMAIN wire' /\ wire'[j - 1] = wire[j]
      BY <1>2, <3>2
    <3>4. QED
      BY <3>1, <3>3 DEF OnWire
  <2>3. QED
    BY <2>1, <2>2
<1>10. TailFact(p, au, size)
  <2>1. \A n : Remains(au, size, n)' <=> n = p.from + p.len
    BY <1>4, <1>8
  <2>2. \A h, n, s : h # au => (Remains(h, s, n)' <=> n = s)
    BY <1>8
  <2> HIDE DEF au, size, parts, l
  <2>3. QED
    BY <1>6, <1>7, <1>9, <2>1, <2>2 DEF TailFact
<1>11. QED
  BY <1>10

(* What is known of the units stays so while packets are taken off.         *)
LEMMA SpoiledStays ==
  ASSUME pushed' = pushed, lost \subseteq lost',
         \A au, i : <<au, i>> \in lost' => <<au, i>> \in lost \/ OnWire(au, i),
         \A au, i : OnWire(au, i)' => OnWire(au, i)
  PROVE  \A au : /\ LostPart(au) => LostPart(au)'
                 /\ Broken(au) => Broken(au)'
                 /\ BrokenBefore(au) => BrokenBefore(au)'
                 /\ Spoiled(au) => Spoiled(au)'
<1>1. \A au : Unit(au)' = Unit(au)
  BY DEF Unit
<1>2. \A au : LostPart(au) => LostPart(au)'
  BY <1>1 DEF LostPart
<1>3. \A au : Broken(au) => Broken(au)'
  BY <1>1 DEF Broken
<1>4. \A au : BrokenBefore(au) => BrokenBefore(au)'
  BY <1>3 DEF BrokenBefore
<1>5. \A au : Spoiled(au) => Spoiled(au)'
  BY <1>2, <1>4 DEF Spoiled, Successor
<1>6. QED
  BY <1>2, <1>3, <1>4, <1>5

(* A packet of the tables is nothing to a PES.                              *)
LEMMA PsiKeepsGood ==
  ASSUME LinkInv, wire # <<>>, ~IsPes(wire[1]), wire' = Tail(wire), UNCHANGED <<lost, pushed>>,
         NEW pid, NEW x, Good(pid, x)
  PROVE  Good(pid, x)'
<1>1. /\ \A au : Wired(au)' <=> Wired(au)
      /\ \A au, i : OnWire(au, i)' <=> OnWire(au, i)
      /\ \A au, size, n : Remains(au, size, n)' <=> Remains(au, size, n)
      /\ \A i \in DOMAIN wire' : IsPes(wire'[i]) => \E j \in DOMAIN wire : wire'[i] = wire[j]
  BY PsiGone
<1>2. \A au : Unit(au)' = Unit(au) /\ Latest(au)' = Latest(au)
  BY DEF Unit, Latest
<1>3. \A au : (LostPart(au)' <=> LostPart(au)) /\ (Broken(au)' <=> Broken(au))
  BY <1>1, <1>2 DEF LostPart, Broken
<1>4. \A au : BrokenBefore(au)' <=> BrokenBefore(au)
  BY <1>3 DEF BrokenBefore
<1>5. \A au : Spoiled(au)' <=> Spoiled(au)
  BY <1>3, <1>4 DEF Spoiled, Successor
<1>6. \A au, i : NotIn(au, i)' <=> NotIn(au, i)
  BY <1>1 DEF NotIn
<1>7. NoneGood(pid, x) => NoneGood(pid, x)'
  BY <1>1, <1>2, <1>3, <1>6 DEF NoneGood
<1>8. SomeGood(pid, x) => SomeGood(pid, x)'
  BY <1>1, <1>2, <1>3, <1>4, <1>5, <1>6 DEF SomeGood
<1>9. QED
  BY <1>7, <1>8 DEF Good

(* A packet of a PES is taken off the wire, lost or not.                    *)
LostNow(p) == lost' = lost \cup {<<p.pes.au, p.part>>}
LEMMA PesGone ==
  ASSUME LinkInv, UnitPart, AtPes, wire' = Tail(wire), pushed' = pushed, NEW p, p = wire[1],
         lost' = lost \/ LostNow(p)
  PROVE  LET au == p.pes.au IN
         /\ \A h : /\ LostPart(h) => LostPart(h)'
                   /\ Broken(h) => Broken(h)'
                   /\ BrokenBefore(h) => BrokenBefore(h)'
                   /\ Spoiled(h) => Spoiled(h)'
         /\ \A h : h # au => (LostPart(h)' <=> LostPart(h))
         /\ \A h, i : h # au => (NotIn(h, i)' <=> NotIn(h, i))
         /\ LostNow(p) => \A i : NotIn(au, i)' <=> NotIn(au, i)
         /\ lost' = lost => \A i : NotIn(au, i)' <=> NotIn(au, i) /\ i # p.part
<1> DEFINE au == p.pes.au
           size == p.pes.size
           parts == Unit(au).parts
<1>1. HeadFact(p, au, size, parts) /\ WireFact(p, au, size, parts) /\ TailFact(p, au, size)
  BY HeadFacts, TailFacts
<1>2. OnWire(au, p.part) /\ <<au, p.part>> \notin lost
  BY <1>1 DEF HeadFact, WireFact
<1>3. \A h, i : OnWire(h, i)' <=> OnWire(h, i) /\ ~(h = au /\ i = p.part)
  BY <1>1 DEF TailFact
<1>4. lost \subseteq lost' /\ \A h, i : <<h, i>> \in lost' <=> <<h, i>> \in lost \/ (LostNow(p) /\ h = au /\ i = p.part)
  <2>1. CASE lost' = lost
    BY <1>2, <2>1 DEF LostNow
  <2>2. CASE LostNow(p)
    BY <2>2 DEF LostNow
  <2>3. QED
    BY <2>1, <2>2
<1> HIDE DEF au
<1>5. \A h : /\ LostPart(h) => LostPart(h)'
             /\ Broken(h) => Broken(h)'
             /\ BrokenBefore(h) => BrokenBefore(h)'
             /\ Spoiled(h) => Spoiled(h)'
  <2>1. \A h, i : <<h, i>> \in lost' => <<h, i>> \in lost \/ OnWire(h, i)
    BY <1>2, <1>4
  <2>2. \A h, i : OnWire(h, i)' => OnWire(h, i)
    BY <1>3
  <2>3. QED
    BY <1>4, <2>1, <2>2, SpoiledStays
<1>6. \A h : h # au => (LostPart(h)' <=> LostPart(h))
  <2>1. \A h : Unit(h)' = Unit(h)
    BY DEF Unit
  <2>2. QED
    BY <1>4, <2>1 DEF LostPart
<1>7. \A h, i : h # au => (NotIn(h, i)' <=> NotIn(h, i))
  BY <1>3, <1>4 DEF NotIn
<1>8. LostNow(p) => \A i : NotIn(au, i)' <=> NotIn(au, i)
  BY <1>2, <1>3, <1>4 DEF NotIn
<1>9. lost' = lost => \A i : NotIn(au, i)' <=> NotIn(au, i) /\ i # p.part
  BY <1>2, <1>3 DEF NotIn
<1>10. QED
  BY <1>5, <1>6, <1>7, <1>8, <1>9 DEF au

(* A partial PES of another unit than that of the packet, when the packet   *)
(* is lost or of another PID.                                               *)
LEMMA OtherKeepsGood ==
  ASSUME LinkInv, UnitPart, AtPes, wire' = Tail(wire), pushed' = pushed, NEW p, p = wire[1],
         lost' = lost \/ LostNow(p), NEW pid, pid # p.pid \/ LostNow(p),
         NEW x, x.header.au # p.pes.au, Good(pid, x)
  PROVE  Good(pid, x)'
<1> DEFINE au == p.pes.au
           size == p.pes.size
           parts == Unit(au).parts
<1>1. HeadFact(p, au, size, parts) /\ WireFact(p, au, size, parts) /\ TailFact(p, au, size)
  BY HeadFacts, TailFacts
<1>2. /\ \A h : /\ Broken(h) => Broken(h)'
                /\ BrokenBefore(h) => BrokenBefore(h)'
                /\ Spoiled(h) => Spoiled(h)'
      /\ \A h : h # au => (LostPart(h)' <=> LostPart(h))
      /\ \A h, i : h # au => (NotIn(h, i)' <=> NotIn(h, i))
      /\ LostNow(p) => \A i : NotIn(au, i)' <=> NotIn(au, i)
  BY PesGone
<1>3. \A h : Wired(h)' => Wired(h)
  BY <1>1 DEF WireFact, TailFact
<1>4. \A j, i : NotIn(<<pid, j>>, i)' <=> NotIn(<<pid, j>>, i)
  <2>1. CASE LostNow(p)
    BY <1>2, <2>1
  <2>2. CASE pid # p.pid
    <3>1. \A j : <<pid, j>>[1] = pid
      OBVIOUS
    <3>2. au[1] = p.pid
      BY <1>1 DEF HeadFact
    <3>3. \A j : <<pid, j>> # au
      BY <2>2, <3>1, <3>2
    <3>4. QED
      BY <1>2, <3>3
  <2>3. QED
    BY <2>1, <2>2
<1>5. Latest(pid)' = Latest(pid) /\ Latest(pid) = <<pid, Len(pushed[pid])>> /\ pushed'[pid] = pushed[pid]
  BY DEF Latest
<1>6. ASSUME NoneGood(pid, x) PROVE NoneGood(pid, x)'
  BY <1>2, <1>3, <1>4, <1>5, <1>6 DEF NoneGood
<1>7. ASSUME SomeGood(pid, x) PROVE SomeGood(pid, x)'
  <2> DEFINE h == x.header.au
             s == x.header.size
             end == BufLen(x.buf) + PesHeader
  <2>1. h # au
    OBVIOUS
  <2>2. /\ x.exists /\ BufLen(x.buf) > 0 /\ s > PesHeader
        /\ x.declared = IF pid = Video THEN Unbounded ELSE s - PesHeader
        /\ ~NotIn(h, 1) /\ \A j \in (h[2] + 1)..Len(pushed[pid]) : NotIn(<<pid, j>>, 1)
        /\ \A i \in DOMAIN wire : IsPes(wire[i]) /\ wire[i].pes.au = h => wire[i].pes = x.header
        /\ ~Spoiled(h) => Pure(x.buf, h) /\ Remains(h, s, end) /\ (pid # Video => Wired(h))
        /\ pid # Video /\ LostPart(h) /\ h = Latest(pid) /\ ~BrokenBefore(h) =>
             \E m \in (end + 1)..s : Remains(h, s, m)
    BY <1>7 DEF SomeGood
  <2> HIDE DEF h, s, end, au
  <2>3. ~Wired(h) /\ \A n : Remains(h, s, n)' <=> Remains(h, s, n)
    BY <1>1, <2>1 DEF WireFact, TailFact
  <2>4. ~NotIn(h, 1)'
    BY <1>2, <2>1, <2>2
  <2>5. \A j \in (h[2] + 1)..Len(pushed'[pid]) : NotIn(<<pid, j>>, 1)'
    BY <1>4, <1>5, <2>2
  <2>6. \A i \in DOMAIN wire' : IsPes(wire'[i]) /\ wire'[i].pes.au = h => wire'[i].pes = x.header
    BY <1>1, <2>1 DEF TailFact, au
  <2>7. ~Spoiled(h)' => Pure(x.buf, h) /\ Remains(h, s, end)' /\ (pid # Video => Wired(h)')
    BY <1>2, <2>2, <2>3
  <2>8. pid # Video /\ LostPart(h)' /\ h = Latest(pid)' /\ ~BrokenBefore(h)' =>
          \E m \in (end + 1)..s : Remains(h, s, m)'
    BY <1>2, <1>5, <2>1, <2>2, <2>3
  <2>9. QED
    BY <2>2, <2>4, <2>5, <2>6, <2>7, <2>8 DEF SomeGood, h, s, end, Pure
<1>8. QED
  BY <1>6, <1>7 DEF Good

(* A packet is lost of the unit of the partial PES.                         *)
LEMMA LossOfUnitKeepsGood ==
  ASSUME LinkInv, UnitPart, AtPes, wire' = Tail(wire), pushed' = pushed, NEW p, p = wire[1], LostNow(p),
         NEW pid \in Tracked, NEW x \in Partial, x.header # NoHeader, x.header.au = p.pes.au, Good(pid, x)
  PROVE  Good(pid, x)'
<1> DEFINE au == p.pes.au
           size == p.pes.size
           parts == Unit(au).parts
           end == BufLen(x.buf) + PesHeader
<1>1. HeadFact(p, au, size, parts) /\ WireFact(p, au, size, parts) /\ TailFact(p, au, size)
  BY HeadFacts, TailFacts
<1>2. /\ \A h : /\ BrokenBefore(h) => BrokenBefore(h)'
                /\ Spoiled(h) => Spoiled(h)'
      /\ \A h, i : NotIn(h, i)' <=> NotIn(h, i)
  BY PesGone
<1>3. /\ x.exists /\ BufLen(x.buf) > 0 /\ x.header.size > PesHeader /\ BufLen(x.buf) \in Nat
      /\ x.declared = IF pid = Video THEN Unbounded ELSE x.header.size - PesHeader
      /\ ~NotIn(au, 1) /\ \A j \in (au[2] + 1)..Len(pushed[pid]) : NotIn(<<pid, j>>, 1)
      /\ \A i \in DOMAIN wire : IsPes(wire[i]) /\ wire[i].pes.au = au => wire[i].pes = x.header
      /\ ~Spoiled(au) => Remains(au, x.header.size, end)
      /\ pid # Video /\ LostPart(au) /\ au = Latest(pid) /\ ~BrokenBefore(au) =>
           \E m \in (end + 1)..x.header.size : Remains(au, x.header.size, m)
  BY DEF Good, SomeGood
<1>4. x.header = p.pes /\ IsPes(p) /\ 1 \in DOMAIN wire
  <2>1. IsPes(p) /\ 1 \in DOMAIN wire
    BY WireTail DEF AtPes
  <2>2. QED
    BY <1>3, <2>1
<1>5. /\ p.from \in Int /\ p.len \in Nat \ {0} /\ size \in Nat /\ p.from + p.len <= size /\ p.part \in 1..parts
      /\ au = Latest(p.pid) /\ au[1] = p.pid
  BY <1>1 DEF HeadFact
<1>6. LostPart(au)' /\ Spoiled(au)'
  <2>1. Unit(au)' = Unit(au)
    BY DEF Unit
  <2>2. <<au, p.part>> \in lost'
    BY DEF LostNow
  <2>3. QED
    BY <1>5, <2>1, <2>2 DEF LostPart, Spoiled
<1>7. ASSUME pid # Video, au = Latest(pid), ~BrokenBefore(au)'
      PROVE  \E m \in (end + 1)..size : Remains(au, size, m)'
  <2>1. ~BrokenBefore(au)
    BY <1>2, <1>7
  <2>2. end \in Int /\ end <= p.from
    <3>1. end \in Int
      BY <1>3 DEF PesHeader
    <3>2. CASE ~Spoiled(au)
      <4>1. Remains(au, size, end)
        BY <1>3, <1>4, <3>2
      <4>2. p.from = end
        BY <1>1, <4>1 DEF WireFact
      <4>3. QED
        BY <1>5, <3>1, <4>2
    <3>3. CASE Spoiled(au)
      <4>1. LostPart(au)
        <5>1. au[1] # Video
          BY <1>5, <1>7 DEF Latest
        <5>2. QED
          BY <2>1, <3>3, <5>1 DEF Spoiled
      <4>2. PICK m \in (end + 1)..size : Remains(au, size, m)
        BY <1>3, <1>4, <1>7, <2>1, <4>1
      <4>3. m = p.from
        BY <1>1, <4>2 DEF WireFact
      <4> HIDE DEF end, size
      <4>4. QED
        BY <1>5, <3>1, <4>2, <4>3
    <3>4. QED
      BY <3>2, <3>3
  <2>3. p.from + p.len \in (end + 1)..size
    <3> HIDE DEF end, size
    <3>1. QED
      BY <1>5, <2>2
  <2>4. Remains(au, size, p.from + p.len)'
    BY <1>1 DEF TailFact
  <2>5. QED
    BY <2>3, <2>4
<1>8. Latest(pid)' = Latest(pid) /\ pushed'[pid] = pushed[pid]
  BY DEF Latest
<1>9. \A i \in DOMAIN wire' : IsPes(wire'[i]) => wire'[i].pes = x.header
  BY <1>1, <1>4 DEF TailFact
<1>10. SomeGood(pid, x)'
  <2>1. ~NotIn(au, 1)' /\ \A j \in (au[2] + 1)..Len(pushed'[pid]) : NotIn(<<pid, j>>, 1)'
    BY <1>2, <1>3, <1>8
  <2>2. x.header.au = au /\ x.header.size = size
    BY <1>4
  <2> HIDE DEF au, size
  <2>3. QED
    BY <1>3, <1>6, <1>7, <1>8, <1>9, <2>1, <2>2 DEF SomeGood
<1>11. QED
  BY <1>3, <1>10 DEF Good

(* A PES event is right when it has the bytes of its unit, unless that is   *)
(* spoiled.                                                                 *)
Right(h, buf) == (Pure(buf, h.au) /\ BufLen(buf) = h.size - PesHeader) \/ Spoiled(h.au)

LEMMA PureFacts ==
  ASSUME NEW buf \in Seq(Piece), NEW au \in Pids \X (Nat \ {0}), NEW from \in Int, NEW len \in Int,
         Pure(buf, au), from = BufLen(buf)
  PROVE  Pure(Extended(buf, au, from, len), au)
<1> DEFINE piece == [au |-> au, from |-> from, len |-> len, at |-> BufLen(buf)]
           longer == Append(buf, piece)
<1>1. piece \in Piece /\ piece.au = au /\ piece.from = piece.at
  BY BufFacts DEF Piece
<1>2. Extended(buf, au, from, len) = longer
  BY DEF Extended
<1> HIDE DEF piece
<1>3. \A i \in DOMAIN longer : longer[i] = piece \/ (i \in DOMAIN buf /\ longer[i] = buf[i])
  BY <1>1, AppendProperties
<1>4. QED
  BY <1>1, <1>2, <1>3 DEF Pure

LEMMA EmptiedFacts ==
  ASSUME NEW x
  PROVE  /\ Emptied(x).exists /\ Emptied(x).header = NoHeader /\ Emptied(x).declared = Unbounded
         /\ Emptied(x).buf = <<>> /\ BufLen(<<>>) = 0
  BY DEF Emptied, NoPartial, BufLen

LEMMA NothingGood ==
  ASSUME NEW pid, pid # Video, NEW x,
         \/ \E n \in 1..Len(pushed'[pid]) : Broken(<<pid, n>>)'
         \/ ~Wired(Latest(pid))'
  PROVE  Good(pid, Emptied(x))'
<1> DEFINE y == Emptied(x)
<1>1. y.exists /\ y.header = NoHeader /\ y.declared = Unbounded /\ y.buf = <<>> /\ BufLen(y.buf) = 0
  BY EmptiedFacts
<1> HIDE DEF y
<1>2. NoneGood(pid, y)'
  BY <1>1 DEF NoneGood
<1>3. Good(pid, y)'
  BY <1>1, <1>2 DEF Good
<1>4. QED
  BY <1>3 DEF y

(* A PES ends the one before it, which was of another unit.                 *)
LEMMA EndIsRight ==
  ASSUME LinkInv, UnitPart, AtPes, wire' = Tail(wire), UNCHANGED <<pushed, lost>>, NEW p, p = wire[1],
         p.part = 1, p.pid \in Tracked, NEW x \in Partial, Good(p.pid, x), x.header # NoHeader,
         Own(p.pid, x.header.au)
  PROVE  Ends(x) /\ Right(x.header, x.buf)'
<1> DEFINE au == p.pes.au
           parts == Unit(au).parts
           h == x.header.au
           s == x.header.size
           end == BufLen(x.buf) + PesHeader
<1>1. HeadFact(p, au, p.pes.size, parts) /\ WireFact(p, au, p.pes.size, parts)
  BY HeadFacts
<1>2. /\ BufLen(x.buf) > 0 /\ ~NotIn(h, 1) /\ BufLen(x.buf) \in Nat
      /\ ~Spoiled(h) => Pure(x.buf, h) /\ Remains(h, s, end) /\ (p.pid # Video => Wired(h))
  BY DEF Good, SomeGood
<1>3. Ends(x)
  BY <1>2 DEF Ends
<1>4. OnWire(au, 1)
  BY <1>1 DEF HeadFact, WireFact
<1>5. h # au
  BY <1>2, <1>4 DEF NotIn
<1>6. ASSUME ~Spoiled(h) PROVE Pure(x.buf, h) /\ BufLen(x.buf) = s - PesHeader
  <2>1. end = s
    BY <1>1, <1>2, <1>5, <1>6 DEF WireFact
  <2>2. s \in Int
    BY NoHeaderFacts DEF Partial, Pes
  <2>3. QED
    BY <1>2, <1>6, <2>1, <2>2 DEF PesHeader
<1>7. Spoiled(h) => Spoiled(h)'
  BY PesGone
<1>8. QED
  BY <1>3, <1>6, <1>7 DEF Right, Pure

LEMMA BegunIs ==
  ASSUME LinkInv, UnitPart, AtPes, NEW p, p = wire[1], p.part = 1, p.pid \in Tracked,
         NEW x \in Partial, Good(p.pid, x), x.header # NoHeader => Ends(x), NEW ra
  PROVE  LET new == Begun(x, ra, p) IN
         /\ new.exists /\ new.header = p.pes
         /\ new.declared = IF p.pid = Video THEN Unbounded ELSE p.pes.size - PesHeader
         /\ BufLen(new.buf) \in Nat /\ BufLen(new.buf) > 0
         /\ \/ Pure(new.buf, p.pes.au) /\ BufLen(new.buf) = p.len - PesHeader
            \/ p.pid # Video /\ BrokenBefore(p.pes.au)
<1> DEFINE au == p.pes.au
           parts == Unit(au).parts
           kept == Kept(x)
           len == p.len - PesHeader
           buf == Extended(kept, au, 0, len)
           new == Begun(x, ra, p)
<1>1. HeadFact(p, au, p.pes.size, parts) /\ WireFact(p, au, p.pes.size, parts)
  BY HeadFacts
<1>2. /\ au \in Pids \X (Nat \ {0}) /\ p.len \in Nat \ {0} /\ p.len > PesHeader /\ 0 \in Int /\ len \in Int /\ len > 0
      /\ au = Latest(p.pid) /\ au[1] = p.pid /\ (p.pes.bounded <=> p.pid # Video)
  <2>1. /\ au \in Pids \X (Nat \ {0}) /\ p.len \in Nat \ {0} /\ p.len > PesHeader
        /\ au = Latest(p.pid) /\ au[1] = p.pid /\ (p.pes.bounded <=> p.pid # Video)
    BY <1>1 DEF HeadFact
  <2>2. QED
    BY <2>1 DEF PesHeader
<1>3. kept \in Seq(Piece) /\ (kept = <<>> \/ (kept = x.buf /\ x.header = NoHeader))
  BY DEF Kept, Partial
<1>4. BufLen(kept) \in Nat
  <2>1. BufLen(<<>>) = 0
    BY DEF BufLen
  <2>2. QED
    BY <1>3, <2>1 DEF Good
<1>5. buf \in Seq(Piece) /\ BufLen(buf) = BufLen(kept) + len
  <2> DEFINE from == 0
             longer == Extended(kept, au, from, len)
  <2>1. from \in Int /\ longer = buf
    OBVIOUS
  <2>4. kept \in Seq(Piece) /\ au \in Pids \X (Nat \ {0}) /\ from \in Int /\ len \in Int
    BY <1>2, <1>3, <2>1
  <2> HIDE DEF kept, len, au, from, buf, new
  <2>2. longer \in Seq(Piece) /\ BufLen(longer) = BufLen(kept) + len
    BY <2>4, BufFacts, ZenonT(30)
  <2>3. QED
    BY <2>1, <2>2
<1>6. \/ kept = <<>>
      \/ p.pid # Video /\ BrokenBefore(au)
  <2>1. ASSUME kept # <<>> PROVE p.pid # Video /\ BrokenBefore(au)
    <3>1. kept = x.buf /\ NoneGood(p.pid, x)
      BY <1>3, <2>1 DEF Good
    <3>2. p.pid # Video /\ \E n \in 1..Len(pushed[p.pid]) : Broken(<<p.pid, n>>)
      BY <2>1, <3>1 DEF NoneGood
    <3>3. PICK n \in 1..Len(pushed[p.pid]) : Broken(<<p.pid, n>>)
      BY <3>2
    <3>4. n # au[2]
      <4>1. OnWire(au, 1) /\ <<au, 1>> \notin lost
        BY <1>1 DEF HeadFact, WireFact
      <4>2. <<p.pid, n>> # au
        BY <3>3, <4>1 DEF Broken
      <4>3. QED
        BY <1>2, <4>2 DEF Latest
    <3>5. n \in 1..(au[2] - 1)
      <4>1. au[2] = Len(pushed[p.pid]) /\ au[2] \in Nat
        BY <1>2 DEF Latest
      <4> HIDE DEF au
      <4>2. QED
        BY <3>4, <4>1
    <3>6. QED
      BY <1>2, <3>2, <3>3, <3>5 DEF BrokenBefore
  <2>2. QED
    BY <2>1
<1>7. kept = <<>> => Pure(buf, au) /\ BufLen(buf) = len
  <2>1. ASSUME kept = <<>> PROVE Pure(buf, au) /\ BufLen(buf) = len
    <3>1. Pure(<<>>, au) /\ BufLen(<<>>) = 0 /\ <<>> \in Seq(Piece)
      BY DEF Pure, BufLen
    <3> HIDE DEF au, len, kept
    <3>2. Pure(Extended(<<>>, au, 0, len), au)
      BY <1>2, <3>1, PureFacts
    <3>3. QED
      BY <1>2, <1>5, <2>1, <3>1, <3>2
  <2>2. QED
    BY <2>1
<1>8. BufLen(buf) \in Nat /\ BufLen(buf) > 0
  <2> HIDE DEF buf, kept, len
  <2>1. QED
    BY <1>2, <1>4, <1>5
<1>9. /\ new.exists /\ new.header = p.pes /\ new.buf = buf
      /\ new.declared = IF p.pid = Video THEN Unbounded ELSE p.pes.size - PesHeader
  BY <1>2 DEF Begun, DeclaredLen
<1> HIDE DEF new, buf, kept
<1>10. QED
  BY <1>6, <1>7, <1>8, <1>9 DEF new

(* A PES that starts.                                                       *)
LEMMA StartKeepsGood ==
  ASSUME LinkInv, UnitPart, AtPes, wire' = Tail(wire), UNCHANGED <<pushed, lost>>, NEW p, p = wire[1],
         p.part = 1, NEW pid \in Tracked, pid = p.pid, NEW x \in Partial, Good(pid, x),
         x.header # NoHeader => Own(pid, x.header.au), NEW ra, NEW new, new = Begun(x, ra, p)
  PROVE  /\ Good(pid, Left(new))'
         /\ Flushes(new) => Right(p.pes, new.buf)'
         /\ new.header = p.pes
<1> DEFINE au == p.pes.au
           size == p.pes.size
           parts == Unit(au).parts
           end == BufLen(new.buf) + PesHeader
<1>1. HeadFact(p, au, size, parts) /\ WireFact(p, au, size, parts) /\ TailFact(p, au, size)
  BY HeadFacts, TailFacts
<1>2. x.header # NoHeader => Ends(x)
  BY EndIsRight
<1>3. /\ new.exists /\ new.header = p.pes
      /\ new.declared = IF pid = Video THEN Unbounded ELSE size - PesHeader
      /\ BufLen(new.buf) \in Nat /\ BufLen(new.buf) > 0
      /\ \/ Pure(new.buf, au) /\ BufLen(new.buf) = p.len - PesHeader
         \/ pid # Video /\ BrokenBefore(au)
  BY <1>2, BegunIs
<1>4. /\ p.from = 0 /\ p.len \in Nat \ {0} /\ size \in Nat /\ size > PesHeader /\ p.from + p.len <= size
      /\ au = Latest(pid) /\ au[1] = pid /\ p.pes # NoHeader /\ au[2] \in Nat \ {0} /\ au \in Pids \X (Nat \ {0})
  BY <1>1, NoHeaderFacts DEF HeadFact, PesPkt
<1>5. /\ BrokenBefore(au) => BrokenBefore(au)'
      /\ Spoiled(au) => Spoiled(au)'
      /\ \A i : NotIn(au, i)' <=> NotIn(au, i) /\ i # p.part
  BY PesGone
<1>6. BrokenBefore(au) /\ pid # Video => Spoiled(au)'
  <2>1. BrokenBefore(au) /\ au[1] # Video => Spoiled(au)
    BY DEF Spoiled
  <2>2. QED
    BY <1>4, <1>5, <2>1
<1>7. pushed'[pid] = pushed[pid] /\ Latest(pid)' = au
  BY <1>4 DEF Latest
<1>8. CASE Flushes(new)
  <2>1. pid # Video /\ BufLen(new.buf) >= size - PesHeader
    BY <1>3, <1>4, <1>8 DEF Flushes, PesHeader
  <2>2. CASE Pure(new.buf, au) /\ BufLen(new.buf) = p.len - PesHeader
    <3>1. p.len = size
      <4> HIDE DEF size
      <4>1. QED
        BY <1>4, <2>1, <2>2 DEF PesHeader
    <3>2. Right(p.pes, new.buf)'
      BY <2>2, <3>1 DEF Right, Pure
    <3>3. ~Wired(au)'
      BY <1>1, <1>4, <3>1 DEF TailFact
    <3>4. Good(pid, Emptied(new))'
      BY <1>7, <2>1, <3>3, NothingGood
    <3>5. QED
      BY <1>3, <1>8, <3>2, <3>4 DEF Left
  <2>3. CASE BrokenBefore(au)
    <3>1. Right(p.pes, new.buf)'
      BY <1>6, <2>1, <2>3 DEF Right
    <3>2. \E n \in 1..Len(pushed'[pid]) : Broken(<<pid, n>>)'
      <4>1. PICK n \in 1..(au[2] - 1) : Broken(<<au[1], n>>)'
        BY <1>5, <2>3 DEF BrokenBefore
      <4>2. au[2] = Len(pushed'[pid])
        BY <1>4, <1>7 DEF Latest
      <4>3. n \in 1..Len(pushed'[pid])
        <5> HIDE DEF au
        <5>1. QED
          BY <1>4, <4>1, <4>2
      <4>4. QED
        BY <1>4, <4>1, <4>3
    <3>3. Good(pid, Emptied(new))'
      BY <2>1, <3>2, NothingGood
    <3>4. QED
      BY <1>3, <1>8, <3>1, <3>3 DEF Left
  <2>4. QED
    BY <1>3, <2>2, <2>3
<1>9. CASE ~Flushes(new)
  <2>1. new.header.au = au /\ new.header.size = size
    BY <1>3
  <2>2. ~NotIn(au, 1)'
    BY <1>5
  <2>3. \A j \in (au[2] + 1)..Len(pushed'[pid]) : NotIn(<<pid, j>>, 1)'
    <3>1. au[2] = Len(pushed'[pid])
      BY <1>4, <1>7 DEF Latest
    <3> HIDE DEF au
    <3>2. (au[2] + 1)..Len(pushed'[pid]) = {}
      BY <1>4, <3>1
    <3>3. QED
      BY <3>2
  <2>4. \A i \in DOMAIN wire' : IsPes(wire'[i]) => wire'[i].pes = new.header
    BY <1>1, <1>3 DEF TailFact
  <2>5. ~BrokenBefore(au)' => ~LostPart(au)'
    <3>1. \A i \in p.part..parts : <<au, i>> \notin lost
      <4>1. \A i \in p.part..parts : OnWire(au, i)
        BY <1>1 DEF WireFact
      <4>2. \A i : OnWire(au, i) => <<au, i>> \notin lost
        BY DEF OnWire, LinkInv, WirePart
      <4>3. QED
        BY <4>1, <4>2
    <3>2. Unit(au)' = Unit(au) /\ lost' = lost
      BY DEF Unit
    <3>3. QED
      BY <3>1, <3>2 DEF LostPart
  <2>6. ASSUME ~Spoiled(au)' PROVE Pure(new.buf, au) /\ Remains(au, size, end)' /\ (pid # Video => Wired(au)')
    <3>1. Pure(new.buf, au) /\ BufLen(new.buf) = p.len - PesHeader
      BY <1>3, <1>6, <2>6
    <3>2. end = p.from + p.len
      BY <1>4, <3>1 DEF PesHeader
    <3>3. Remains(au, size, end)'
      BY <1>1, <3>2 DEF TailFact
    <3>4. ASSUME pid # Video PROVE Wired(au)'
      <4>1. new.declared = size - PesHeader
        BY <1>3, <3>4
      <4>2. p.from + p.len < size
        <5> HIDE DEF size
        <5>1. QED
          BY <1>4, <1>9, <3>1, <4>1 DEF Flushes, Unbounded, PesHeader
      <4>3. QED
        BY <1>1, <4>2 DEF TailFact
    <3>5. QED
      BY <3>1, <3>3, <3>4
  <2>7. SomeGood(pid, new)'
    <3>1. /\ new.exists /\ BufLen(new.buf) > 0 /\ size > PesHeader
          /\ new.declared = IF pid = Video THEN Unbounded ELSE size - PesHeader
      BY <1>3, <1>4
    <3>2. ~(pid # Video /\ LostPart(au)' /\ ~BrokenBefore(au)')
      BY <2>5
    <3> HIDE DEF au, size
    <3>3. QED
      BY <2>1, <2>2, <2>3, <2>4, <2>6, <3>1, <3>2 DEF SomeGood, Pure
  <2>8. Good(pid, new)'
    BY <1>3, <1>4, <2>7 DEF Good
  <2>9. QED
    BY <1>3, <1>9, <2>8 DEF Left
<1>10. QED
  BY <1>8, <1>9

(* A PES that goes on.                                                      *)
LEMMA GrownIs ==
  ASSUME NEW p \in PesPkt, p.len > 0, NEW x \in Partial, x.exists, BufLen(x.buf) \in Nat, NEW new, new = Grown(x, p)
  PROVE  /\ new.exists /\ new.header = x.header /\ new.declared = x.declared
         /\ BufLen(new.buf) = BufLen(x.buf) + p.len /\ BufLen(new.buf) \in Nat
         /\ Pure(x.buf, p.pes.au) /\ p.from = BufLen(x.buf) + PesHeader => Pure(new.buf, p.pes.au)
<1> DEFINE from == p.from - PesHeader
           buf == Extended(x.buf, p.pes.au, from, p.len)
<1>1. /\ x.buf \in Seq(Piece) /\ p.pes.au \in Pids \X (Nat \ {0}) /\ p.len \in Int /\ p.from \in Int
      /\ from \in Int
  BY DEF Partial, PesPkt, Pes, PesHeader
<1>2. new = [x EXCEPT !.buf = buf]
  BY DEF Grown
<1>3. new.exists /\ new.header = x.header /\ new.declared = x.declared /\ new.buf = buf
  BY <1>2 DEF Partial
<1>4. p.from = BufLen(x.buf) + PesHeader => from = BufLen(x.buf)
  BY <1>1 DEF PesHeader
<1> HIDE DEF from
<1>5. BufLen(buf) = BufLen(x.buf) + p.len
  <2> DEFINE au == p.pes.au
             len == p.len
             old == x.buf
             longer == Extended(old, au, from, len)
  <2>1. old \in Seq(Piece) /\ au \in Pids \X (Nat \ {0}) /\ from \in Int /\ len \in Int /\ buf = longer
    BY <1>1
  <2> HIDE DEF au, len, old, buf
  <2>2. BufLen(longer) = BufLen(old) + len
    BY <2>1, BufFacts, ZenonT(90)
  <2> HIDE DEF longer
  <2>3. QED
    BY <2>1, <2>2 DEF len, old
<1>6. Pure(x.buf, p.pes.au) /\ from = BufLen(x.buf) => Pure(buf, p.pes.au)
  BY <1>1, PureFacts
<1>7. BufLen(buf) \in Nat
  <2> HIDE DEF buf
  <2>1. QED
    BY <1>1, <1>5
<1>8. QED
  BY <1>3, <1>4, <1>5, <1>6, <1>7

LEMMA ContinueKeepsGood ==
  ASSUME LinkInv, UnitPart, AtPes, wire' = Tail(wire), UNCHANGED <<pushed, lost>>, NEW p, p = wire[1],
         p.part # 1, NEW pid \in Tracked, pid = p.pid, NEW x \in Partial, Good(pid, x),
         x.header # NoHeader => Own(pid, x.header.au), NEW new, new = Grown(x, p)
  PROVE  /\ Good(pid, Left(new))'
         /\ Flushes(new) => Right(new.header, new.buf)'
         /\ new.header = x.header
<1> DEFINE au == p.pes.au
           size == p.pes.size
           parts == Unit(au).parts
<1>1. HeadFact(p, au, size, parts) /\ WireFact(p, au, size, parts) /\ TailFact(p, au, size)
  BY HeadFacts, TailFacts
<1>2. /\ p \in PesPkt /\ p.from \in Int /\ p.len \in Nat \ {0} /\ size \in Nat /\ p.from + p.len <= size
      /\ au = Latest(pid) /\ au[1] = pid /\ au[2] \in Nat \ {0} /\ p.part \in 2..parts /\ <<au, p.part>> \notin lost
      /\ au = <<pid, Len(pushed[pid])>> /\ p.len > 0
  <2>1. /\ p \in PesPkt /\ p.from \in Int /\ p.len \in Nat \ {0} /\ size \in Nat /\ p.from + p.len <= size
        /\ au = Latest(pid) /\ au[1] = pid /\ au \in Pids \X (Nat \ {0}) /\ p.part \in 1..parts /\ parts \in Nat
        /\ <<au, p.part>> \notin lost
    BY <1>1 DEF HeadFact
  <2> HIDE DEF parts
  <2>2. QED
    BY <2>1 DEF Latest
<1>3. p.from \in Int /\ p.len \in Nat \ {0} /\ size \in Nat /\ p.from + p.len <= size
  BY <1>2
<1>4. \A h : ~OnWire(h, 1)
  <2>1. ~(1 \in p.part..parts)
    <3> HIDE DEF parts
    <3>1. QED
      BY <1>2
  <2>2. QED
    BY <1>1, <2>1 DEF WireFact
<1>5. /\ \A h : /\ LostPart(h) => LostPart(h)'
                /\ Broken(h) => Broken(h)'
                /\ BrokenBefore(h) => BrokenBefore(h)'
                /\ Spoiled(h) => Spoiled(h)'
      /\ \A h : LostPart(h)' <=> LostPart(h)
      /\ \A h : NotIn(h, 1)' <=> NotIn(h, 1)
  <2>1. \A h : LostPart(h)' <=> LostPart(h)
    BY DEF LostPart, Unit
  <2>2. /\ \A h : /\ LostPart(h) => LostPart(h)'
                  /\ Broken(h) => Broken(h)'
                  /\ BrokenBefore(h) => BrokenBefore(h)'
                  /\ Spoiled(h) => Spoiled(h)'
        /\ \A h, i : h # au => (NotIn(h, i)' <=> NotIn(h, i))
        /\ \A i : NotIn(au, i)' <=> NotIn(au, i) /\ i # p.part
    BY PesGone
  <2> HIDE DEF au
  <2>3. \A h : NotIn(h, 1)' <=> NotIn(h, 1)
    BY <2>2
  <2>4. QED
    BY <2>1, <2>2, <2>3
<1>6. NotIn(au, 1) => <<au, 1>> \in lost /\ Broken(au)'
  <2>1. ~OnWire(au, 1)
    BY <1>4
  <2>2. ~OnWire(au, p.part)'
    BY <1>1 DEF TailFact
  <2>3. Unit(au)' = Unit(au)
    BY DEF Unit
  <2>4. QED
    BY <1>2, <2>1, <2>2, <2>3 DEF NotIn, Broken
<1>7. pushed'[pid] = pushed[pid] /\ Latest(pid)' = au
  BY <1>2 DEF Latest
<1>8. Broken(au)' => \E n \in 1..Len(pushed'[pid]) : Broken(<<pid, n>>)'
  <2>1. Len(pushed[pid]) \in 1..Len(pushed[pid])
    <3>1. au[2] = Len(pushed[pid]) /\ au[2] \in Nat \ {0}
      BY <1>2
    <3> HIDE DEF au
    <3>2. QED
      BY <3>1
  <2>2. QED
    BY <1>2, <1>7, <2>1
<1>9. BufLen(x.buf) \in Nat
  BY DEF Good
<1>10. CASE ~x.exists
  <2>1. new = x /\ NoneGood(pid, x) /\ x.header = NoHeader
    BY <1>10 DEF Grown, Good, SomeGood
  <2>2. ~Flushes(new) /\ Left(new) = x
    BY <2>1 DEF NoneGood, Flushes, Left
  <2>3. NoneGood(pid, x)'
    BY <1>10, <2>1 DEF NoneGood
  <2>4. QED
    BY <1>9, <2>1, <2>2, <2>3 DEF Good
<1>11. ASSUME x.exists
       PROVE  /\ new.exists /\ new.header = x.header /\ new.declared = x.declared
              /\ BufLen(new.buf) = BufLen(x.buf) + p.len /\ BufLen(new.buf) \in Nat
              /\ Pure(x.buf, au) /\ p.from = BufLen(x.buf) + PesHeader => Pure(new.buf, au)
  <2>1. p \in PesPkt /\ p.len > 0
    BY <1>2
  <2>2. QED
    BY <1>9, <1>11, <2>1, GrownIs, ZenonT(30)
<1>12. CASE x.exists /\ x.header = NoHeader
  <2>1. /\ x.declared = Unbounded /\ pid # Video
        /\ \/ \E n \in 1..Len(pushed[pid]) : Broken(<<pid, n>>)
           \/ x.buf = <<>> /\ (Wired(au) => NotIn(au, 1))
    BY <1>2, <1>12 DEF Good, NoneGood
  <2>2. ~Flushes(new) /\ Left(new) = new /\ new.header = NoHeader /\ new.declared = Unbounded /\ new.exists
    BY <1>11, <1>12, <2>1 DEF Flushes, Left
  <2>3. \E n \in 1..Len(pushed'[pid]) : Broken(<<pid, n>>)'
    <3>1. Wired(au)
      BY <1>1 DEF WireFact
    <3>2. QED
      BY <1>5, <1>6, <1>7, <1>8, <2>1, <3>1
  <2>4. NoneGood(pid, new)'
    BY <2>1, <2>2, <2>3 DEF NoneGood
  <2>5. QED
    BY <1>11, <1>12, <2>2, <2>4 DEF Good
<1>13. CASE x.exists /\ x.header # NoHeader
  <2> DEFINE h == x.header.au
             s == x.header.size
             end == BufLen(x.buf) + PesHeader
             later == BufLen(new.buf) + PesHeader
  <2>1. /\ BufLen(x.buf) > 0 /\ s > PesHeader
        /\ x.declared = IF pid = Video THEN Unbounded ELSE s - PesHeader
        /\ ~NotIn(h, 1) /\ \A j \in (h[2] + 1)..Len(pushed[pid]) : NotIn(<<pid, j>>, 1)
        /\ \A i \in DOMAIN wire : IsPes(wire[i]) /\ wire[i].pes.au = h => wire[i].pes = x.header
        /\ ~Spoiled(h) => Pure(x.buf, h) /\ Remains(h, s, end) /\ (pid # Video => Wired(h))
        /\ pid # Video /\ LostPart(h) /\ h = Latest(pid) /\ ~BrokenBefore(h) =>
             \E m \in (end + 1)..s : Remains(h, s, m)
    BY <1>13 DEF Good, SomeGood
  <2>2. /\ new.exists /\ new.header = x.header /\ new.declared = x.declared
        /\ BufLen(new.buf) = BufLen(x.buf) + p.len /\ BufLen(new.buf) \in Nat
        /\ Pure(x.buf, au) /\ p.from = BufLen(x.buf) + PesHeader => Pure(new.buf, au)
    BY <1>11, <1>13
  <2>3. h \in Pids \X (Nat \ {0}) /\ s \in Nat /\ h[1] = pid /\ Sent(h)
    BY <1>13, NoHeaderFacts DEF Partial, Pes, Own
  <2>4. end \in Int /\ later \in Int /\ later = end + p.len /\ BufLen(new.buf) > 0
    <3> DEFINE b == BufLen(x.buf)
               c == BufLen(new.buf)
               n == p.len
    <3>1. b \in Nat /\ c \in Nat /\ c = b + n /\ b > 0 /\ end = b + PesHeader /\ later = c + PesHeader /\ n \in Nat
      BY <1>3, <1>9, <2>1, <2>2
    <3> HIDE DEF b, c, n, end, later
    <3>2. end \in Int /\ later \in Int
      BY <3>1 DEF PesHeader
    <3>3. c > 0
      BY <3>1
    <3>4. later = end + n
      BY <3>1 DEF PesHeader
    <3>5. QED
      BY <3>2, <3>3, <3>4 DEF c, n
  <2>5. Flushes(new) => pid # Video /\ later >= s
    BY <2>1, <2>2, <2>3 DEF Flushes, PesHeader
  <2>6. ~Flushes(new) /\ pid # Video => later < s
    BY <2>1, <2>2, <2>3 DEF Flushes, Unbounded, PesHeader
  <2>7. ~NotIn(h, 1)' /\ \A j \in (h[2] + 1)..Len(pushed'[pid]) : NotIn(<<pid, j>>, 1)'
    BY <1>5, <1>7, <2>1
  <2>8. \A i \in DOMAIN wire' : IsPes(wire'[i]) /\ wire'[i].pes.au = h => wire'[i].pes = x.header
    <3>1. \A i \in DOMAIN wire' : i + 1 \in DOMAIN wire /\ wire'[i] = wire[i + 1]
      BY TailIs DEF AtPes
    <3>2. QED
      BY <2>1, <3>1
  <2>9. ASSUME ~Flushes(new),
               ~Spoiled(h)' => Pure(new.buf, h) /\ Remains(h, s, later)' /\ (pid # Video => Wired(h)'),
               pid # Video /\ LostPart(h)' /\ h = Latest(pid)' /\ ~BrokenBefore(h)' =>
                 \E m \in (later + 1)..s : Remains(h, s, m)'
        PROVE  Good(pid, Left(new))'
    <3>1. new.header.au = h /\ new.header.size = s /\ Left(new) = new /\ new.header # NoHeader
      BY <1>13, <2>2, <2>9 DEF Left
    <3>2. new.declared = IF pid = Video THEN Unbounded ELSE s - PesHeader
      BY <2>1, <2>2
    <3> HIDE DEF h, s
    <3>3. SomeGood(pid, new)'
      BY <2>1, <2>2, <2>4, <2>7, <2>8, <2>9, <3>1, <3>2 DEF SomeGood, Pure
    <3>4. QED
      BY <2>2, <3>1, <3>3 DEF Good
  <2>10. CASE h # au
    <3>1. NotIn(au, 1)
      <4>1. h[2] \in DOMAIN pushed[pid] /\ pushed[pid] \in Seq(AccessUnit)
        BY <2>3 DEF Sent, LinkInv, CountPart
      <4>2. h[2] \in 1..Len(pushed[pid]) /\ h[2] # Len(pushed[pid]) /\ Len(pushed[pid]) \in Nat
        <5>1. h = <<h[1], h[2]>>
          BY <2>3
        <5>2. h[2] # Len(pushed[pid])
          BY <1>2, <2>3, <2>10, <5>1
        <5>3. QED
          BY <4>1, <5>2
      <4> DEFINE l == Len(pushed[pid])
                 k == h[2]
      <4>3. k \in 1..l /\ k # l /\ l \in Nat
        BY <4>2
      <4> HIDE DEF l, k
      <4>4. l \in (k + 1)..l
        BY <4>3
      <4>5. NotIn(<<pid, l>>, 1)
        BY <2>1, <4>4 DEF l, k
      <4>6. QED
        BY <1>2, <4>5 DEF l
    <3>2. Spoiled(h)
      <4>1. CASE pid # Video
        BY <1>1, <2>1, <2>10, <4>1 DEF WireFact
      <4>2. CASE pid = Video
        <5>1. h[2] + 1 \in (h[2] + 1)..Len(pushed[pid])
          <6>1. h[2] \in DOMAIN pushed[pid] /\ pushed[pid] \in Seq(AccessUnit)
            BY <2>3 DEF Sent, LinkInv, CountPart
          <6>2. h[2] # Len(pushed[pid])
            <7>1. h = <<h[1], h[2]>>
              BY <2>3
            <7>2. QED
              BY <1>2, <2>3, <2>10, <7>1
          <6> DEFINE l == Len(pushed[pid])
                     k == h[2]
          <6>3. k \in 1..l /\ k # l /\ l \in Nat
            BY <6>1, <6>2
          <6> HIDE DEF l, k
          <6>4. k + 1 \in (k + 1)..l
            BY <6>3
          <6>5. QED
            BY <6>4 DEF l, k
        <5>2. NotIn(Successor(h), 1)
          BY <2>1, <2>3, <5>1 DEF Successor
        <5>3. <<Successor(h), 1>> \in lost
          BY <1>4, <5>2 DEF NotIn
        <5>4. QED
          BY <2>3, <4>2, <5>3 DEF Spoiled
      <4>3. QED
        BY <4>1, <4>2
    <3>3. Spoiled(h)' /\ \E n \in 1..Len(pushed'[pid]) : Broken(<<pid, n>>)'
      BY <1>5, <1>6, <1>8, <3>1, <3>2
    <3>4. CASE Flushes(new)
      <4>1. Left(new) = Emptied(new) /\ Good(pid, Emptied(new))'
        BY <2>5, <3>3, <3>4, NothingGood DEF Left
      <4>2. QED
        BY <2>2, <3>3, <3>4, <4>1 DEF Right
    <3>5. CASE ~Flushes(new)
      <4>1. h # Latest(pid)'
        BY <1>7, <2>10
      <4>2. Good(pid, Left(new))'
        <5> HIDE DEF h, s, later
        <5>1. QED
          BY <2>9, <3>3, <3>5, <4>1
      <4>3. QED
        BY <2>2, <3>5, <4>2
    <3>6. QED
      BY <3>4, <3>5
  <2>11. CASE h = au
    <3>1. x.header = p.pes /\ s = size
      <4>1. IsPes(p) /\ 1 \in DOMAIN wire
        BY WireTail DEF AtPes
      <4>2. QED
        BY <2>1, <2>11, <4>1
    <3>2. CASE ~Spoiled(h)
      <4>1. Pure(x.buf, h) /\ p.from = end /\ ~LostPart(h)
        <5>1. Remains(au, size, end)
          BY <2>1, <2>11, <3>1, <3>2
        <5>2. QED
          BY <1>1, <2>1, <3>2, <5>1 DEF WireFact, Spoiled
      <4>2. Pure(new.buf, h) /\ later = p.from + p.len
        BY <2>2, <2>4, <2>11, <4>1
      <4>3. CASE Flushes(new)
        <5>1. later = size /\ BufLen(new.buf) = size - PesHeader
          <6>1. later = size
            <7> HIDE DEF later, s, size
            <7>1. QED
              BY <1>3, <2>4, <2>5, <3>1, <4>2, <4>3
          <6> DEFINE c == BufLen(new.buf)
          <6>2. c \in Nat /\ c + PesHeader = size
            BY <2>2, <6>1
          <6> HIDE DEF c, size
          <6>3. c = size - PesHeader
            BY <1>3, <6>2 DEF PesHeader
          <6>4. QED
            BY <6>1, <6>3 DEF c
        <5>2. Right(new.header, new.buf)'
          BY <2>2, <2>11, <3>1, <4>2, <5>1 DEF Right, Pure
        <5>3. ~Wired(au)'
          BY <1>1, <1>2, <4>2, <5>1 DEF TailFact
        <5>4. Good(pid, Emptied(new))'
          BY <1>7, <2>5, <4>3, <5>3, NothingGood
        <5>5. QED
          BY <2>2, <4>3, <5>2, <5>4 DEF Left
      <4>4. CASE ~Flushes(new)
        <5>1. Remains(h, s, later)'
          BY <1>1, <2>11, <3>1, <4>2 DEF TailFact
        <5>2. pid # Video => Wired(h)'
          <6>1. pid # Video => p.from + p.len < size
            BY <2>6, <3>1, <4>2, <4>4
          <6>2. QED
            BY <1>1, <2>11, <6>1 DEF TailFact
        <5>3. ~LostPart(h)'
          BY <1>5, <4>1
        <5>4. Good(pid, Left(new))'
          <6> HIDE DEF h, s, later
          <6>1. QED
            BY <2>9, <4>2, <4>4, <5>1, <5>2, <5>3
        <5>5. QED
          BY <2>2, <4>4, <5>4
      <4>5. QED
        BY <4>3, <4>4
    <3>3. CASE Spoiled(h) /\ (pid = Video \/ BrokenBefore(h))
      <4>1. Spoiled(h)' /\ (pid = Video \/ BrokenBefore(h)')
        BY <1>5, <3>3
      <4>2. CASE Flushes(new)
        <5>1. Right(new.header, new.buf)'
          BY <2>2, <4>1 DEF Right
        <5>2. \E n \in 1..Len(pushed'[pid]) : Broken(<<pid, n>>)'
          <6>1. BrokenBefore(au)'
            BY <2>5, <2>11, <4>1, <4>2
          <6>2. PICK n \in 1..(au[2] - 1) : Broken(<<au[1], n>>)'
            BY <6>1 DEF BrokenBefore
          <6>3. n \in 1..Len(pushed'[pid])
            <7>1. au[2] = Len(pushed'[pid])
              BY <1>2, <1>7
            <7> HIDE DEF au
            <7>2. QED
              BY <1>2, <6>2, <7>1
          <6>4. QED
            BY <1>2, <6>2, <6>3
        <5>3. Left(new) = Emptied(new) /\ Good(pid, Emptied(new))'
          BY <2>5, <4>2, <5>2, NothingGood DEF Left
        <5>4. QED
          BY <2>2, <5>1, <5>3
      <4>3. CASE ~Flushes(new)
        <5>1. Good(pid, Left(new))'
          <6> HIDE DEF h, s, later
          <6>1. QED
            BY <2>9, <4>1, <4>3
        <5>2. QED
          BY <2>2, <4>3, <5>1
      <4>4. QED
        BY <4>2, <4>3
    <3>4. CASE Spoiled(h) /\ pid # Video /\ ~BrokenBefore(h)
      <4>1. LostPart(h)
        BY <2>3, <3>4 DEF Spoiled
      <4>2. PICK m \in (end + 1)..s : Remains(h, s, m)
        BY <1>2, <2>1, <2>11, <3>4, <4>1
      <4>3. m = p.from
        BY <1>1, <2>11, <4>2 DEF WireFact
      <4>4. p.from + p.len \in (later + 1)..s /\ later < s
        <5> DEFINE n == p.len
                   from == p.from
        <5>1. /\ from \in Int /\ n \in Nat \ {0} /\ s \in Nat /\ from + n <= s /\ from \in (end + 1)..s
              /\ end \in Int /\ later = end + n
          BY <1>3, <2>4, <3>1, <4>2, <4>3
        <5> HIDE DEF end, later, s, n, from
        <5>2. from + n \in (later + 1)..s /\ later < s
          BY <5>1
        <5>3. QED
          BY <5>2 DEF n, from
      <4>5. ~Flushes(new)
        <5> HIDE DEF later, s
        <5>1. QED
          BY <2>3, <2>4, <2>5, <4>4
      <4>6. Remains(h, s, p.from + p.len)' /\ Spoiled(h)'
        BY <1>1, <1>5, <2>11, <3>1, <3>4 DEF TailFact
      <4>7. Good(pid, Left(new))'
        <5> HIDE DEF h, s, later
        <5>1. QED
          BY <2>9, <4>4, <4>5, <4>6
      <4>8. QED
        BY <2>2, <4>5, <4>7
    <3>5. QED
      BY <3>2, <3>3, <3>4
  <2>12. QED
    BY <2>10, <2>11
<1>14. QED
  BY <1>10, <1>12, <1>13

-----------------------------------------------------------------------------
(* The steps.                                                               *)
LEMMA UnitFacts == (\A au \in Pids \X (Nat \ {0}) : au # <<>>) /\ (\A p \in PesPkt : p.pes.au # <<>>)
<1>1. \A y \in Pids, n \in Nat \ {0} : Len(<<y, n>>) = 2 /\ Len(<<>>) = 0
  OBVIOUS
<1>2. \A au \in Pids \X (Nat \ {0}) : au # <<>>
  BY <1>1
<1>3. QED
  BY <1>2 DEF PesPkt, Pes

LEMMA PartialFacts ==
  ASSUME NEW d, DemuxerOK(d, FALSE), NEW pid \in Pids, NEW x, x = d.partials[pid]
  PROVE  /\ x \in Partial
         /\ x.header # NoHeader => Own(pid, x.header.au) /\ x.header.au \in Pids \X (Nat \ {0})
         /\ \A p \in PesPkt : x.header = NoHeader => x.header.au # p.pes.au
<1>1. x \in Partial /\ (x.header # NoHeader => Own(pid, x.header.au))
  BY DemuxerFields DEF DemuxerOK, PartialOK
<1>2. x.header # NoHeader => x.header \in Pes
  BY <1>1, NoHeaderFacts DEF Partial
<1>3. QED
  BY <1>1, <1>2, UnitFacts, NoHeaderFacts DEF Pes

LEMMA TrackedFacts ==
  ASSUME FlagInv, NEW pid \in Tracked, NEW x, x = demuxer.partials[pid]
  PROVE  /\ x \in Partial /\ pid \in Pids
         /\ x.header # NoHeader => Own(pid, x.header.au) /\ x.header.au \in Pids \X (Nat \ {0})
         /\ \A p \in PesPkt : x.header = NoHeader => x.header.au # p.pes.au
<1>1. pid \in Pids
  BY DEF Tracked
<1>2. PICK d : d = demuxer
  OBVIOUS
<1>3. DemuxerOK(d, FALSE) /\ x = d.partials[pid]
  BY <1>2, AnyDemuxer DEF FlagInv
<1>4. QED
  BY ONLY <1>1, <1>3, PartialFacts

LEMMA SpoiledGone ==
  ASSUME LinkInv, UnitPart, wire # <<>>, wire' = Tail(wire), pushed' = pushed, NEW p, p = wire[1],
         lost' = lost \/ (IsPes(p) /\ LostNow(p))
  PROVE  \A au : Spoiled(au) => Spoiled(au)'
<1>1. CASE IsPes(p)
  BY <1>1, PesGone DEF AtPes
<1>2. CASE ~IsPes(p)
  <2>1. lost' = lost /\ \A au, i : OnWire(au, i)' <=> OnWire(au, i)
    BY <1>2, PsiGone
  <2>2. lost \subseteq lost' /\ \A au, i : <<au, i>> \in lost' => <<au, i>> \in lost \/ OnWire(au, i)
    BY <2>1
  <2>3. QED
    BY <2>1, <2>2, SpoiledStays
<1>3. QED
  BY <1>1, <1>2

(* What is good stays so if that only says what the step leaves alone.      *)
GoodKept == \A pid \in Tracked : \A x : x = demuxer.partials[pid] /\ Good(pid, x) => Good(pid, x)'
LEMMA GoodStays ==
  ASSUME GoodPart, GoodKept, demuxer'.partials = demuxer.partials, demuxer.registered \subseteq demuxer'.registered
  PROVE  GoodPart'
<1>1. ASSUME NEW pid \in Tracked
      PROVE  Good(pid, demuxer.partials[pid])' /\ (demuxer'.partials[pid].exists => pid \in demuxer'.registered)
  <2>1. PICK x : x = demuxer.partials[pid]
    OBVIOUS
  <2>2. Good(pid, x)'
    BY <2>1 DEF GoodPart, GoodKept
  <2>3. x = demuxer'.partials[pid]
    BY <2>1
  <2>4. Good(pid, demuxer.partials[pid])'
    BY <2>2, <2>3
  <2>5. QED
    BY <2>4 DEF GoodPart
<1>2. QED
  BY <1>1 DEF GoodPart

LEMMA LossKeepsDelivery ==
  ASSUME LinkInv, FlagInv, DeliveryInv, wire # <<>>, Loss(Head(wire)),
         UNCHANGED <<demuxer, pushed, tuned, done>>
  PROVE  DeliveryInv'
<1>1. PICK p : p = wire[1]
  OBVIOUS
<1>2. /\ wire' = Tail(wire) /\ (lost' = lost \/ (IsPes(p) /\ LostNow(p))) /\ Head(wire) = p
      /\ p \in Packet
  BY <1>1, LossCounts, WireTail DEF LostNow
<1>3. IsPes(p) => LostNow(p)
  BY <1>2 DEF Loss, LostNow
<1>4. UnitPart'
  BY <1>2, UnitStays DEF DeliveryInv
<1>5. ASSUME NEW pid \in Tracked, NEW x, x = demuxer.partials[pid], Good(pid, x) PROVE Good(pid, x)'
  <2>1. CASE ~IsPes(p)
    <3>1. UNCHANGED <<lost, pushed>>
      BY <1>2, <2>1
    <3>2. QED
      BY <1>1, <1>2, <1>5, <2>1, <3>1, PsiKeepsGood
  <2>2. CASE IsPes(p)
    <3>1. AtPes /\ LostNow(p) /\ UnitPart /\ p \in PesPkt
      BY <1>1, <1>2, <1>3, <2>2, PacketFacts DEF AtPes, DeliveryInv
    <3>2. x \in Partial /\ (x.header = NoHeader => x.header.au # p.pes.au)
      BY <1>5, <3>1, TrackedFacts
    <3>3. CASE x.header.au # p.pes.au
      BY <1>1, <1>2, <1>5, <3>1, <3>3, OtherKeepsGood
    <3>4. CASE x.header.au = p.pes.au
      BY <1>1, <1>2, <1>5, <3>1, <3>2, <3>4, LossOfUnitKeepsGood
    <3>5. QED
      BY <3>3, <3>4
  <2>3. QED
    BY <2>1, <2>2
<1>6. GoodPart'
  <2>1. GoodKept
    BY <1>5 DEF GoodKept
  <2>2. QED
    BY <2>1, GoodStays DEF DeliveryInv
<1>7. ExactPart'
  <2>1. \A au : Spoiled(au) => Spoiled(au)'
    BY <1>1, <1>2, SpoiledGone DEF DeliveryInv
  <2>2. QED
    BY <2>1 DEF DeliveryInv, ExactPart
<1>8. TunedPart'
  BY DEF DeliveryInv, TunedPart, Sent
<1>9. QED
  BY <1>4, <1>6, <1>7, <1>8 DEF DeliveryInv

(* What is delivered is what the handler brings.                            *)
LEMMA DeliveredAre ==
  ASSUME NEW n
  PROVE  /\ \A r \in Delivered(n.events) :
              \E h, b : Brings(n, h, b) /\ r.au = h.au /\ (r.exact <=> Pure(b, h.au) /\ BufLen(b) = h.size - PesHeader)
         /\ \A h, b : Brings(n, h, b) => \E r \in Delivered(n.events) : r.au = h.au
<1> DEFINE of(e) == [au |-> e.header.au, exact |-> Exact(e), ra |-> e.ra, codec |-> e.codec]
<1>1. \A e : Exact(e) <=> Pure(e.buf, e.header.au) /\ BufLen(e.buf) = e.header.size - PesHeader
  BY DEF Exact, Pure
<1>2. \A e : of(e).au = e.header.au /\ of(e).exact = Exact(e)
  OBVIOUS
<1>3. Delivered(n.events) = {of(e) : e \in {x \in ToSet(n.events) : x.kind = "pes"}}
  BY DEF Delivered
<1>4. \A e : e \in ToSet(n.events) <=> \E i \in DOMAIN n.events : e = n.events[i]
  BY DEF ToSet
<1> HIDE DEF of
<1>5. ASSUME NEW r \in Delivered(n.events)
      PROVE  \E h, b : Brings(n, h, b) /\ r.au = h.au /\ (r.exact <=> Pure(b, h.au) /\ BufLen(b) = h.size - PesHeader)
  <2>1. PICK i \in DOMAIN n.events : n.events[i].kind = "pes" /\ r = of(n.events[i])
    BY <1>3, <1>4
  <2>2. Brings(n, n.events[i].header, n.events[i].buf)
    BY <2>1 DEF Brings
  <2>3. QED
    BY <1>1, <1>2, <2>1, <2>2
<1>6. ASSUME NEW h, NEW b, Brings(n, h, b) PROVE \E r \in Delivered(n.events) : r.au = h.au
  <2>1. PICK i \in DOMAIN n.events : n.events[i].kind = "pes" /\ n.events[i].header = h
    BY <1>6 DEF Brings
  <2>2. of(n.events[i]) \in Delivered(n.events)
    BY <1>3, <1>4, <2>1
  <2>3. QED
    BY <1>2, <2>1, <2>2
<1>7. QED
  BY <1>5, <1>6

(* A packet that brings nothing and leaves the partial PES alone: one of    *)
(* the tables, or of a PID that the reader does not know.                   *)
LEMMA QuietKeepsDelivery ==
  ASSUME LinkInv, FlagInv, DeliveryInv, Carry, NEW p, p = wire[1],
         demuxer'.partials = demuxer.partials, demuxer.registered \subseteq demuxer'.registered,
         NoPes(demuxer'), tuned' = tuned, IsPes(p) => p.pid \notin demuxer.registered
  PROVE  DeliveryInv'
<1>1. /\ wire # <<>> /\ wire' = Tail(wire) /\ UNCHANGED <<pushed, lost>> /\ p \in Packet
      /\ done' = done \cup Delivered(demuxer'.events)
  BY WireTail DEF Carry
<1>2. Delivered(demuxer'.events) = {}
  BY DEF Delivered, NoPes, ToSet
<1>3. UnitPart'
  BY <1>1, UnitStays DEF DeliveryInv
<1>4. ASSUME NEW pid \in Tracked, NEW x, x = demuxer.partials[pid], Good(pid, x) PROVE Good(pid, x)'
  <2>1. CASE ~IsPes(p)
    BY <1>1, <1>4, <2>1, PsiKeepsGood
  <2>2. CASE IsPes(p)
    <3>1. AtPes /\ UnitPart /\ p \in PesPkt /\ Own(p.pid, p.pes.au)
      BY <1>1, <2>2, PacketFacts, WireTail DEF AtPes, DeliveryInv
    <3>2. /\ x.header # NoHeader => Own(pid, x.header.au)
          /\ x.header = NoHeader => x.header.au # p.pes.au
      BY <1>4, <3>1, TrackedFacts
    <3>3. CASE pid # p.pid
      <4>1. x.header.au # p.pes.au
        BY <3>1, <3>2, <3>3 DEF Own
      <4>2. QED
        BY <1>1, <1>4, <3>1, <3>3, <4>1, OtherKeepsGood
    <3>4. CASE pid = p.pid
      <4>1. ~x.exists
        BY <1>4, <2>2, <3>4 DEF DeliveryInv, GoodPart
      <4>2. x.header = NoHeader /\ NoneGood(pid, x) /\ BufLen(x.buf) \in Nat
        BY <1>4, <4>1 DEF Good, SomeGood
      <4>3. NoneGood(pid, x)'
        BY <4>1, <4>2 DEF NoneGood
      <4>4. QED
        BY <4>2, <4>3 DEF Good
    <3>5. QED
      BY <3>3, <3>4
  <2>3. QED
    BY <2>1, <2>2
<1>5. GoodPart'
  <2>1. GoodKept
    BY <1>4 DEF GoodKept
  <2>2. QED
    BY <2>1, GoodStays DEF DeliveryInv
<1>6. ExactPart'
  <2>1. \A au : Spoiled(au) => Spoiled(au)'
    BY <1>1, SpoiledGone DEF DeliveryInv
  <2>2. QED
    BY <1>1, <1>2, <2>1 DEF DeliveryInv, ExactPart
<1>7. TunedPart'
  BY <1>1, <1>2 DEF DeliveryInv, TunedPart, Sent
<1>8. QED
  BY <1>3, <1>5, <1>6, <1>7 DEF DeliveryInv

(* A packet of a PES that the reader takes for one: it brings what is       *)
(* right, and new is the partial PES that it leaves.                        *)
Tuned(p, new) ==
  \A au \in tuned' : au[1] = p.pid /\ p.pid \in Tracked =>
    \/ Left(new).header.au = au
    \/ \E h, b : Brings(demuxer', h, b) /\ h.au = au
    \/ \E e \in done : e.au = au

LEMMA PesKeepsDelivery ==
  ASSUME LinkInv, FlagInv, DeliveryInv, Carry, NEW p, p = wire[1], IsPes(p), NEW new,
         demuxer'.partials = [demuxer.partials EXCEPT ![p.pid] = Left(new)],
         demuxer'.registered = demuxer.registered, p.pid \in demuxer.registered,
         p.pid \in Tracked => Good(p.pid, Left(new))' /\ Tuned(p, new),
         \A h, b : Brings(demuxer', h, b) /\ h.au[1] \in Tracked => Right(h, b)',
         tuned' = tuned \/ tuned' = tuned \cup {p.pes.au}
  PROVE  DeliveryInv'
<1>1. /\ wire # <<>> /\ wire' = Tail(wire) /\ UNCHANGED <<pushed, lost>> /\ p \in Packet
      /\ done' = done \cup Delivered(demuxer'.events) /\ AtPes /\ UnitPart
  BY WireTail DEF Carry, AtPes, DeliveryInv
<1>2. p \in PesPkt /\ p.pid \in Pids /\ Own(p.pid, p.pes.au) /\ p.pes.au \in Pids \X (Nat \ {0})
  BY <1>1, PacketFacts, WireTail DEF PesPkt, Pes
<1>3. demuxer \in Demuxer /\ DemuxerOK(demuxer, FALSE) /\ DOMAIN demuxer.partials = Pids
  <2>1. DemuxerOK(demuxer, FALSE)
    BY AnyDemuxer DEF FlagInv
  <2>2. QED
    BY <2>1, DemuxerFields DEF DemuxerOK
<1>4. /\ demuxer'.partials[p.pid] = Left(new)
      /\ \A pid \in Pids : pid # p.pid => demuxer'.partials[pid] = demuxer.partials[pid]
  BY <1>2, <1>3
<1>5. ASSUME NEW pid \in Tracked, pid # p.pid, NEW x, x = demuxer.partials[pid], Good(pid, x) PROVE Good(pid, x)'
  <2>1. /\ x.header # NoHeader => Own(pid, x.header.au)
        /\ x.header = NoHeader => x.header.au # p.pes.au
    BY <1>2, <1>5, TrackedFacts
  <2>2. x.header.au # p.pes.au
    BY <1>2, <1>5, <2>1 DEF Own
  <2>3. QED
    BY <1>1, <1>5, <2>2, OtherKeepsGood
<1>6. GoodPart'
  <2>1. ASSUME NEW pid \in Tracked
        PROVE  Good(pid, demuxer.partials[pid])' /\ (demuxer'.partials[pid].exists => pid \in demuxer'.registered)
    <3>1. CASE pid = p.pid
      <4>1. PICK x : x = Left(new)
        OBVIOUS
      <4>2. Good(pid, x)'
        BY <3>1, <4>1
      <4>3. x = demuxer'.partials[pid]
        BY <1>4, <3>1, <4>1
      <4>4. Good(pid, demuxer.partials[pid])'
        BY <4>2, <4>3
      <4>5. QED
        BY <3>1, <4>4
    <3>2. CASE pid # p.pid
      <4>1. PICK x : x = demuxer.partials[pid]
        OBVIOUS
      <4>2. Good(pid, x)'
        BY <1>5, <3>2, <4>1 DEF DeliveryInv, GoodPart
      <4>3. x = demuxer'.partials[pid] /\ demuxer'.partials[pid] = demuxer.partials[pid]
        BY <1>4, <3>2, <4>1 DEF Tracked
      <4>4. Good(pid, demuxer.partials[pid])'
        BY <4>2, <4>3
      <4>5. QED
        BY <4>3, <4>4 DEF DeliveryInv, GoodPart
    <3>3. QED
      BY <3>1, <3>2
  <2>2. QED
    BY <2>1 DEF GoodPart
<1>7. ExactPart'
  <2>1. \A au : Spoiled(au) => Spoiled(au)'
    BY <1>1, SpoiledGone
  <2>2. ASSUME NEW e \in Delivered(demuxer'.events), e.au[1] \in Tracked PROVE e.exact \/ Spoiled(e.au)'
    <3>1. PICK n : n = demuxer'
      OBVIOUS
    <3>2. PICK h, b : Brings(n, h, b) /\ e.au = h.au /\ (e.exact <=> Pure(b, h.au) /\ BufLen(b) = h.size - PesHeader)
      BY <2>2, <3>1, DeliveredAre
    <3>3. Right(h, b)'
      BY <2>2, <3>1, <3>2
    <3>4. QED
      BY <3>2, <3>3 DEF Right, Pure
  <2>3. QED
    BY <1>1, <2>1, <2>2 DEF DeliveryInv, ExactPart
<1>8. TunedPart'
  <2>1. ASSUME NEW au \in tuned'
        PROVE  au \in Pids \X (Nat \ {0}) /\ Sent(au)'
    BY <1>1, <1>2, <2>1 DEF DeliveryInv, TunedPart, Sent, Own
  <2>2. ASSUME NEW au \in tuned', au[1] \in Tracked
        PROVE  demuxer'.partials[au[1]].header.au = au \/ \E e \in done' : e.au = au
    <3>1. CASE au[1] = p.pid
      <4>1. Tuned(p, new)
        BY <2>2, <3>1
      <4>2. CASE \E h, b : Brings(demuxer', h, b) /\ h.au = au
        <5>1. PICK n : n = demuxer'
          OBVIOUS
        <5>2. PICK h, b : Brings(n, h, b) /\ h.au = au
          BY <4>2, <5>1
        <5>3. \A k : \A j, c : Brings(k, j, c) => \E r \in Delivered(k.events) : r.au = j.au
          BY ONLY DeliveredAre
        <5>4. PICK r \in Delivered(n.events) : r.au = h.au
          BY ONLY <5>2, <5>3
        <5>5. QED
          BY <1>1, <5>1, <5>2, <5>4
      <4>3. QED
        BY <1>1, <1>4, <2>2, <3>1, <4>1, <4>2 DEF Tuned
    <3>2. CASE au[1] # p.pid
      <4>1. au \in tuned /\ au[1] \in Pids
        BY <1>2, <2>2, <3>2 DEF Own, Tracked
      <4>2. demuxer'.partials[au[1]] = demuxer.partials[au[1]]
        BY <1>4, <3>2, <4>1
      <4>3. QED
        BY <1>1, <2>2, <4>1, <4>2 DEF DeliveryInv, TunedPart
    <3>3. QED
      BY <3>1, <3>2
  <2>3. QED
    BY <2>1, <2>2 DEF TunedPart
<1>9. QED
  BY <1>1, <1>6, <1>7, <1>8, UnitStays DEF DeliveryInv

LEMMA CarryKeepsDelivery ==
  ASSUME LinkInv, FlagInv, DeliveryInv, Carry
  PROVE  DeliveryInv'
<1>1. PICK p : p = wire[1]
  OBVIOUS
<1>2. PICK d : d = demuxer
  OBVIOUS
<1>3. PICK n : n = HandlePacket(d, p)
  OBVIOUS
<1>4. /\ wire # <<>> /\ wire' = Tail(wire) /\ UNCHANGED <<pushed, lost>> /\ p \in Packet /\ Head(wire) = p
      /\ demuxer' = n
  BY <1>1, <1>2, <1>3, WireTail DEF Carry
<1>5. tuned' = IF IsPes(p) /\ PayloadKind(d, p) = "PesStart" THEN tuned \cup {p.pes.au} ELSE tuned
  BY <1>2, <1>4 DEF Carry
<1>6. DemuxerOK(d, FALSE)
  BY <1>2, AnyDemuxer DEF FlagInv
<1>7. CASE ~IsPes(p)
  <2>1. p \in PatPkt \/ p \in PmtPkt
    BY <1>4, <1>7, PacketFacts DEF Packet, PsiPkt
  <2>2. NoPes(n) /\ SamePartials(d, n)
    <3>1. CASE p \in PatPkt
      BY <1>3, <1>6, <3>1, PatHandled
    <3>2. CASE p \in PmtPkt
      BY <1>3, <1>6, <3>2, PmtHandled
    <3>3. QED
      BY <2>1, <3>1, <3>2
  <2>3. QED
    BY <1>1, <1>2, <1>4, <1>5, <1>7, <2>2, QuietKeepsDelivery DEF SamePartials
<1>8. CASE IsPes(p)
  <2>1. p \in PesPkt /\ Own(p.pid, p.pes.au) /\ p.pid \in Pids /\ AtPes /\ UnitPart
    BY <1>1, <1>4, <1>8, PacketFacts, WireTail DEF IsPes, AtPes, DeliveryInv
  <2>2. /\ SameReader(d, n)
        /\ p.pid \notin d.registered => NoPes(n) /\ n.partials = d.partials
        /\ PayloadKind(d, p) = "PesStart" => PesStarted(Seen(d, p), n, p)
        /\ PayloadKind(d, p) = "PesContinuation" => PesContinued(Seen(d, p), n, p)
    BY <1>3, <1>6, <2>1, PesHandled
  <2>3. PICK k : k = Seen(d, p)
    OBVIOUS
  <2>4. k.partials = d.partials /\ NoPes(k)
    BY <1>4, <1>6, <2>3, SeenFacts
  <2>5. \A h, b : ~Brings(k, h, b)
    BY <2>4 DEF Brings, NoPes
  <2>6. PayloadKind(d, p) = IF p.pid \notin d.registered THEN "Raw"
                            ELSE IF p.part = 1 THEN "PesStart" ELSE "PesContinuation"
    BY <2>1, PidFacts DEF PayloadKind
  <2>7. PICK x : x = d.partials[p.pid]
    OBVIOUS
  <2>8. x \in Partial /\ (x.header # NoHeader => Own(p.pid, x.header.au))
    BY <1>6, <2>1, <2>7, PartialFacts
  <2>9. p.pid \in Tracked => Good(p.pid, x)
    BY <1>2, <2>7 DEF DeliveryInv, GoodPart
  <2>10. \A au \in tuned : au[1] = p.pid /\ p.pid \in Tracked => x.header.au = au \/ \E e \in done : e.au = au
    BY <1>2, <2>7 DEF DeliveryInv, TunedPart
  <2>11. CASE p.pid \notin d.registered
    BY <1>1, <1>2, <1>4, <1>5, <2>2, <2>6, <2>11, QuietKeepsDelivery DEF SameReader
  <2>12. CASE PayloadKind(d, p) = "PesStart"
    <3>1. PICK new : new = Begun(x, k.last_ra[p.pid], p)
      OBVIOUS
    <3>2. /\ n.partials = [d.partials EXCEPT ![p.pid] = Left(new)]
          /\ \A h, b : Brings(n, h, b) <=> Ended(x, h, b) \/ Flushed(new, h, b)
      BY <2>2, <2>3, <2>4, <2>5, <2>7, <2>12, <3>1 DEF PesStarted
    <3>3. p.part = 1 /\ p.pid \in d.registered
      BY <2>6, <2>12
    <3>4. new.header = p.pes
      BY <3>1 DEF Begun
    <3>5. ASSUME p.pid \in Tracked
          PROVE  /\ Good(p.pid, Left(new))' /\ (Flushes(new) => Right(p.pes, new.buf)')
                 /\ x.header # NoHeader => Ends(x) /\ Right(x.header, x.buf)'
      <4>1. PICK pid \in Tracked : pid = p.pid
        BY <3>5
      <4>2. Good(pid, Left(new))' /\ (Flushes(new) => Right(p.pes, new.buf)')
        BY <1>1, <1>4, <2>1, <2>8, <2>9, <3>1, <3>3, <4>1, StartKeepsGood
      <4>3. x.header # NoHeader => Ends(x) /\ Right(x.header, x.buf)'
        BY <1>1, <1>4, <2>1, <2>8, <2>9, <3>3, <3>5, EndIsRight
      <4>4. QED
        BY <4>1, <4>2, <4>3
    <3>6. ASSUME NEW h, NEW b, Brings(n, h, b), h.au[1] \in Tracked PROVE Right(h, b)'
      <4>1. CASE Ended(x, h, b)
        <5>1. h = x.header /\ b = x.buf /\ x.header # NoHeader
          BY <4>1 DEF Ended, Ends
        <5>2. p.pid \in Tracked
          BY <2>8, <3>6, <5>1 DEF Own
        <5>3. QED
          BY <3>5, <5>1, <5>2
      <4>2. CASE Flushed(new, h, b)
        <5>1. h = p.pes /\ b = new.buf /\ Flushes(new)
          BY <3>4, <4>2 DEF Flushed
        <5>2. p.pid \in Tracked
          BY <2>1, <3>6, <5>1 DEF Own
        <5>3. QED
          BY <3>5, <5>1, <5>2
      <4>3. QED
        BY <3>2, <3>6, <4>1, <4>2
    <3>7. ASSUME NEW au \in tuned', au[1] = p.pid, p.pid \in Tracked
          PROVE  \/ Left(new).header.au = au
                 \/ \E h, b : Brings(n, h, b) /\ h.au = au
                 \/ \E e \in done : e.au = au
      <4>1. CASE au = p.pes.au
        <5>1. CASE Flushes(new)
          BY <3>2, <3>4, <4>1, <5>1 DEF Flushed
        <5>2. CASE ~Flushes(new)
          BY <3>4, <4>1, <5>2 DEF Left
        <5>3. QED
          BY <5>1, <5>2
      <4>2. CASE au # p.pes.au
        <5>1. au \in tuned /\ au \in Pids \X (Nat \ {0})
          BY <1>5, <3>7, <4>2 DEF DeliveryInv, TunedPart
        <5>2. CASE x.header.au = au
          <6>1. x.header # NoHeader
            <7>1. \A y \in Pids \X (Nat \ {0}) : y # <<>>
              BY UnitFacts
            <7>2. QED
              BY <5>1, <5>2, <7>1, NoHeaderFacts
          <6>2. Brings(n, x.header, x.buf)
            BY <3>2, <3>5, <3>7, <6>1 DEF Ended
          <6>3. QED
            BY <5>2, <6>2
        <5>3. QED
          BY <2>10, <3>7, <5>1, <5>2
      <4>3. QED
        BY <4>1, <4>2
    <3>8. Tuned(p, new)
      BY <1>4, <3>7 DEF Tuned
    <3>9. /\ demuxer'.partials = [demuxer.partials EXCEPT ![p.pid] = Left(new)]
          /\ demuxer'.registered = demuxer.registered /\ p.pid \in demuxer.registered
          /\ tuned' = tuned \cup {p.pes.au}
      BY <1>2, <1>4, <1>5, <1>8, <2>2, <2>12, <3>2, <3>3 DEF SameReader
    <3>10. \A h, b : Brings(demuxer', h, b) /\ h.au[1] \in Tracked => Right(h, b)'
      BY <1>4, <3>6
    <3>11. QED
      BY <1>1, <1>8, <3>5, <3>8, <3>9, <3>10, PesKeepsDelivery
  <2>13. CASE PayloadKind(d, p) = "PesContinuation"
    <3>1. PICK new : new = Grown(x, p)
      OBVIOUS
    <3>2. /\ n.partials = [d.partials EXCEPT ![p.pid] = Left(new)]
          /\ \A h, b : Brings(n, h, b) <=> Flushed(new, h, b)
      BY <2>2, <2>3, <2>4, <2>5, <2>7, <2>13, <3>1 DEF PesContinued
    <3>3. p.part # 1 /\ p.pid \in d.registered
      BY <2>6, <2>13
    <3>4. ASSUME p.pid \in Tracked
          PROVE  /\ Good(p.pid, Left(new))' /\ (Flushes(new) => Right(new.header, new.buf)')
      <4>1. PICK pid \in Tracked : pid = p.pid
        BY <3>4
      <4>2. Good(pid, Left(new))' /\ (Flushes(new) => Right(new.header, new.buf)')
        BY <1>1, <1>4, <2>1, <2>8, <2>9, <3>1, <3>3, <4>1, ContinueKeepsGood
      <4>3. QED
        BY <4>1, <4>2
    <3>5. new.header = x.header
      BY <2>8, <3>1 DEF Grown, Partial
    <3>6. ASSUME NEW h, NEW b, Brings(n, h, b), h.au[1] \in Tracked PROVE Right(h, b)'
      <4>1. h = new.header /\ b = new.buf /\ Flushes(new) /\ new.declared # Unbounded
        BY <3>2, <3>6 DEF Flushed, Flushes
      <4>2. new.declared = x.declared
        BY <2>8, <3>1 DEF Grown, Partial
      <4>3. x.header # NoHeader
        BY <1>6, <2>1, <2>7, <4>1, <4>2 DEF DemuxerOK, PartialOK
      <4>4. p.pid \in Tracked
        BY <2>8, <3>5, <3>6, <4>1, <4>3 DEF Own
      <4>5. QED
        BY <3>4, <4>1, <4>4
    <3>7. Tuned(p, new)
      <4>1. ASSUME NEW au \in tuned', au[1] = p.pid, p.pid \in Tracked
            PROVE  \/ Left(new).header.au = au
                   \/ \E h, b : Brings(n, h, b) /\ h.au = au
                   \/ \E e \in done : e.au = au
        <5>1. au \in tuned
          BY <1>5, <2>13, <4>1
        <5>2. CASE x.header.au = au
          <6>1. CASE Flushes(new)
            BY <3>2, <3>5, <5>2, <6>1 DEF Flushed
          <6>2. CASE ~Flushes(new)
            BY <3>5, <5>2, <6>2 DEF Left
          <6>3. QED
            BY <6>1, <6>2
        <5>3. QED
          BY <2>10, <4>1, <5>1, <5>2
      <4>2. QED
        BY <1>4, <4>1 DEF Tuned
    <3>8. /\ demuxer'.partials = [demuxer.partials EXCEPT ![p.pid] = Left(new)]
          /\ demuxer'.registered = demuxer.registered /\ p.pid \in demuxer.registered
          /\ tuned' = tuned
      BY <1>2, <1>4, <1>5, <2>2, <2>13, <3>2, <3>3 DEF SameReader
    <3>9. \A h, b : Brings(demuxer', h, b) /\ h.au[1] \in Tracked => Right(h, b)'
      BY <1>4, <3>6
    <3>10. QED
      BY <1>1, <1>8, <3>4, <3>7, <3>8, <3>9, PesKeepsDelivery
  <2>14. QED
    BY <2>6, <2>11, <2>12, <2>13
<1>9. QED
  BY <1>7, <1>8

(* A push puts the packets of one new unit on the wire, all of them.        *)
LEMMA PartsCounted ==
  ASSUME NEW u \in Seq(PsiPkt), NEW w \in Seq(PesPkt), NEW pid \in Pids, \A i \in 1..Len(w) : w[i].pid = pid
  PROVE  Parts(u \o w, pid) = Len(w)
<1> DEFINE x == u \o w
           a == Len(u)
           b == Len(w)
           I == {i \in DOMAIN x : x[i].pid = pid}
<1>1. /\ DOMAIN x = 1..(a + b)
      /\ \A i \in 1..a : i \in DOMAIN x /\ x[i] = u[i] /\ ~IsPes(x[i])
      /\ \A i \in 1..b : a + i \in DOMAIN x /\ x[a + i] = w[i]
  BY PushedWire
<1>2. a \in Nat /\ b \in Nat
  OBVIOUS
<1>3. Parts(x, pid) = Cardinality(I)
  BY DEF Parts
<1> HIDE DEF x, a
<1>4. \A i \in DOMAIN x : x[i].pid = pid <=> i \in (a + 1)..(a + b)
  <2>1. ASSUME NEW i \in DOMAIN x, x[i].pid = pid PROVE i \in (a + 1)..(a + b)
    <3>1. i \notin 1..a
      BY <1>1, <2>1 DEF IsPes
    <3>2. QED
      BY <1>1, <1>2, <2>1, <3>1
  <2>2. ASSUME NEW i \in (a + 1)..(a + b) PROVE x[i].pid = pid
    <3>1. i - a \in 1..b /\ a + (i - a) = i
      BY <1>2, <2>2
    <3>2. QED
      BY <1>1, <3>1
  <2>3. QED
    BY <2>1, <2>2
<1>5. I = (a + 1)..(a + b)
  <2>1. (a + 1)..(a + b) \subseteq DOMAIN x
    BY <1>1, <1>2
  <2>2. QED
    BY <1>4, <2>1
<1>6. Cardinality((a + 1)..(a + b)) = b
  <2> DEFINE lo == a + 1
             hi == a + b
  <2>1. lo \in Int /\ hi \in Int /\ (lo > hi <=> b = 0) /\ hi - lo + 1 = b
    BY <1>2
  <2> HIDE DEF lo, hi
  <2>2. Cardinality(lo..hi) = IF lo > hi THEN 0 ELSE hi - lo + 1
    BY <2>1, FS_Interval
  <2>3. Cardinality(lo..hi) = b
    BY <2>1, <2>2
  <2>4. QED
    BY <2>3 DEF lo, hi
<1>7. QED
  BY <1>3, <1>5, <1>6 DEF x

Adds(pid, au, n) ==
  /\ pushed' \in [Pids -> Seq(AccessUnit)]
  /\ \A h \in Pids \X (Nat \ {0}) : Sent(h) => Sent(h)' /\ Unit(h)' = Unit(h)
  /\ \A q \in Pids : q # pid \/ n = 0 => Len(pushed'[q]) = Len(pushed[q])
  /\ n # 0 => Len(pushed'[pid]) = Len(pushed[pid]) + 1 /\ Unit(au)'.parts = n

LEMMA UnitAdded ==
  ASSUME LinkInv, NEW m, NEW pid \in Pids, NEW kind \in Kind, NEW key \in BOOLEAN, NEW step \in Steps,
         Push(m, pid, kind, key, step), m.output \in Seq(Packet), NEW au, au = Id(pid),
         NEW n \in Nat, Parts(m.output, pid) = n
  PROVE  Adds(pid, au, n)
<1> DEFINE new == [kind |-> kind, key |-> key, parts |-> n]
           old == pushed[pid]
           longer == Append(old, new)
<1>1. pushed' = IF n = 0 THEN pushed ELSE [pushed EXCEPT ![pid] = longer]
  BY DEF Push
<1>2. pushed \in [Pids -> Seq(AccessUnit)] /\ old \in Seq(AccessUnit) /\ new \in AccessUnit /\ new.parts = n
  BY DEF LinkInv, CountPart, AccessUnit
<1>3. pushed' \in [Pids -> Seq(AccessUnit)] /\ \A h \in Pids \X (Nat \ {0}) : Sent(h) => Sent(h)' /\ Unit(h)' = Unit(h)
  BY UnitsArePushed DEF Sent, Unit, Units
<1>4. au[1] = pid /\ au[2] = Len(old) + 1
  BY IdFacts
<1> HIDE DEF new
<1>5. /\ longer[Len(old) + 1] = new /\ Len(longer) = Len(old) + 1
  BY <1>2, AppendProperties
<1> HIDE DEF longer
<1>6. CASE n = 0
  BY <1>1, <1>3, <1>6 DEF Adds
<1>7. CASE n # 0
  <2>1. pushed'[pid] = longer /\ \A q \in Pids : q # pid => pushed'[q] = pushed[q]
    BY <1>1, <1>2, <1>7
  <2>2. Unit(au)' = new
    BY <1>4, <1>5, <2>1 DEF Unit
  <2>3. QED
    BY <1>2, <1>3, <1>5, <1>7, <2>1, <2>2 DEF Adds
<1>8. QED
  BY <1>6, <1>7

LEMMA PushedUnit ==
  ASSUME LinkInv, NEW m, NEW pid \in Pids, NEW kind \in Kind, NEW key \in BOOLEAN, NEW step \in Steps,
         Pushes(m, pid, kind, key, step), NEW au, au = Id(pid)
  PROVE  /\ wire = <<>> /\ UNCHANGED <<demuxer, lost, tuned, done>>
         /\ UnitPart' /\ \E n \in Nat : Adds(pid, au, n) /\ (n # 0 => OnWire(au, 1)')
         /\ \A h, i : OnWire(h, i)' => h = au
         /\ \A h : Wired(h)' => h = au /\ OnWire(au, 1)'
         /\ \A i \in DOMAIN wire' : IsPes(wire'[i]) => wire'[i].pes.au = au
<1>1. PICK u \in Seq(PsiPkt), w \in Seq(PesPkt) : Lays(u, w, m, pid, key)
  BY PushLays
<1>2. Carries(w, m, pid, au, key)
  BY <1>1 DEF Lays
<1>3. wire = <<>> /\ UNCHANGED <<demuxer, lost, tuned, done>>
  BY DEF Pushes, Push
<1> DEFINE a == Len(u)
           b == Len(w)
<1>4. /\ DOMAIN wire' = 1..(a + b) /\ Len(wire') = a + b /\ a \in Nat /\ b \in Nat
      /\ \A i \in DOMAIN wire' : IsPes(wire'[i]) <=> i > a
      /\ \A i \in DOMAIN wire' : i > a => i - a \in 1..b /\ wire'[i] = w[i - a]
      /\ \A i \in 1..b : a + i \in DOMAIN wire' /\ wire'[a + i] = w[i]
  BY <1>1 DEF Lays
<1>5. /\ \A i \in 1..b : /\ w[i].pid = pid /\ w[i].part = i /\ w[i].pes.au = au
                         /\ w[i].pes.bounded <=> pid # Video
                         /\ pid \in Tracked => w[i].pes.size > PesHeader
      /\ Unbroken(w)
  BY <1>2 DEF Carries
<1> HIDE DEF a
<1>6. \A i \in DOMAIN wire' : IsPes(wire'[i]) => wire'[i].pes.au = au /\ wire'[i].part = i - a
  BY SMTT(30), <1>4, <1>5
<1>7. Adds(pid, au, b)
  <2>1. Parts(m.output, pid) = b
    <3>1. \A i \in 1..Len(w) : w[i].pid = pid
      BY <1>5
    <3>2. Parts(u \o w, pid) = b
      BY <3>1, PartsCounted
    <3>3. QED
      BY <1>1, <3>2 DEF Lays
  <2>2. m.output \in Seq(Packet) /\ Push(m, pid, kind, key, step)
    BY <1>1 DEF Lays, Pushes
  <2>3. PICK n \in Nat : n = b
    BY <1>4
  <2>4. Adds(pid, au, n)
    BY <2>1, <2>2, <2>3, UnitAdded
  <2>5. QED
    BY <2>3, <2>4
<1>8. b # 0 => OnWire(au, 1)'
  <2>1. ASSUME b # 0 PROVE OnWire(au, 1)'
    <3>1. 1 \in 1..b
      BY <1>4, <2>1
    <3>2. a + 1 \in DOMAIN wire' /\ IsPes(wire'[a + 1]) /\ wire'[a + 1] = w[1]
      BY <1>4, <3>1, SMTT(30)
    <3>3. w[1].pes.au = au /\ w[1].part = 1
      BY <1>5, <3>1, Zenon
    <3>4. QED
      BY <3>2, <3>3 DEF OnWire
  <2>2. QED
    BY <2>1
<1>9. /\ \A h, i : OnWire(h, i)' => h = au
      /\ \A h : Wired(h)' => h = au /\ b # 0
  BY <1>4, <1>6 DEF OnWire, Wired
<1>10. UnitPart'
  <2>1. \A i, j \in DOMAIN wire' : i < j /\ IsPes(wire'[i]) => IsPes(wire'[j])
    BY <1>4
  <2>2. ASSUME NEW i \in DOMAIN wire', NEW j \in DOMAIN wire', IsPes(wire'[i]), IsPes(wire'[j])
        PROVE  wire'[j].pes = wire'[i].pes /\ wire'[j].part = wire'[i].part + (j - i)
    <3>1. i - a \in 1..b /\ j - a \in 1..b /\ wire'[i] = w[i - a] /\ wire'[j] = w[j - a]
      BY <1>4, <2>2
    <3>2. w[i - a].pes = w[1].pes /\ w[j - a].pes = w[1].pes
      BY <1>5, <3>1 DEF Unbroken
    <3>3. i \in Int /\ j \in Int
      BY <1>4
    <3>4. j - a = (i - a) + (j - i)
      BY <1>4, <3>3
    <3>5. QED
      BY <1>6, <2>2, <3>1, <3>2, <3>4
  <2>3. ASSUME NEW i \in DOMAIN wire', IsPes(wire'[i])
        PROVE  LET p == wire'[i] IN
               /\ p.pid = pid /\ p.pes.au = au /\ b # 0 /\ (p.pes.bounded <=> p.pid # Video) /\ p.len > 0
               /\ p.pid \in Tracked => p.pes.size > PesHeader
               /\ p.part = 1 => p.from = 0 /\ (p.pid \in Tracked => p.len > PesHeader)
               /\ IF i = Len(wire') THEN p.part = b /\ p.from + p.len = p.pes.size
                  ELSE p.from + p.len < p.pes.size /\ wire'[i + 1].from = p.from + p.len
    <3> DEFINE j == i - a
               p == wire'[i]
    <3>1. /\ j \in 1..b /\ p = w[j] /\ i \in Int /\ (i = Len(wire') <=> j = b)
          /\ i # Len(wire') => i + 1 \in DOMAIN wire' /\ i + 1 > a /\ (i + 1) - a = j + 1
      BY <1>4, <2>3
    <3>2. /\ p.pid = pid /\ p.part = j /\ p.pes.au = au /\ (p.pes.bounded <=> pid # Video)
          /\ pid \in Tracked => p.pes.size > PesHeader
      BY <1>5, <3>1
    <3>3. /\ p.len > 0 /\ (j = 1 => p.from = 0 /\ (p.pes.size > PesHeader => p.len > PesHeader))
          /\ IF j = b THEN p.from + p.len = p.pes.size
             ELSE p.from + p.len < p.pes.size /\ w[j + 1].from = p.from + p.len
      BY <1>5, <3>1 DEF Unbroken
    <3>4. i # Len(wire') => wire'[i + 1] = w[j + 1]
      <4>1. \A l \in DOMAIN wire' : l > a => wire'[l] = w[l - a]
        BY <1>4
      <4>2. QED
        BY <3>1, <4>1
    <3>5. b # 0
      BY <1>4, <3>1
    <3> HIDE DEF j
    <3>6. QED
      BY <3>1, <3>2, <3>3, <3>4, <3>5
  <2>4. ASSUME b # 0 PROVE au = <<pid, Len(pushed'[pid])>> /\ pushed'[au[1]][au[2]].parts = b
    <3>1. Len(pushed'[pid]) = Len(pushed[pid]) + 1 /\ Unit(au)'.parts = b
      BY <1>7, <2>4 DEF Adds
    <3>2. QED
      BY <3>1 DEF Id, Unit
  <2> HIDE DEF b
  <2>5. ASSUME NEW i \in DOMAIN wire', IsPes(wire'[i])
        PROVE  LET p == wire'[i] IN
               /\ p.pes.au = <<p.pid, Len(pushed'[p.pid])>> /\ (p.pes.bounded <=> p.pid # Video) /\ p.len > 0
               /\ p.pid \in Tracked => p.pes.size > PesHeader
               /\ p.part = 1 => p.from = 0 /\ (p.pid \in Tracked => p.len > PesHeader)
               /\ IF i = Len(wire') THEN p.part = pushed'[p.pes.au[1]][p.pes.au[2]].parts /\ p.from + p.len = p.pes.size
                  ELSE p.from + p.len < p.pes.size /\ wire'[i + 1].from = p.from + p.len
    BY <2>3, <2>4, <2>5
  <2>6. QED
    BY <2>1, <2>2, <2>5 DEF UnitPart, Latest, Unit
<1>11. QED
  BY <1>3, <1>4, <1>6, <1>7, <1>8, <1>9, <1>10

LEMMA PushKeepsDelivery ==
  ASSUME LinkInv, FlagInv, DeliveryInv,
         NEW m, NEW pid \in Pids, NEW kind \in Kind, NEW key \in BOOLEAN, NEW step \in Steps,
         Pushes(m, pid, kind, key, step)
  PROVE  DeliveryInv'
<1>1. PICK au : au = Id(pid)
  OBVIOUS
<1>2. /\ wire = <<>> /\ UNCHANGED <<demuxer, lost, tuned, done>>
      /\ UnitPart' /\ \E n \in Nat : Adds(pid, au, n) /\ (n # 0 => OnWire(au, 1)')
      /\ \A h, i : OnWire(h, i)' => h = au
      /\ \A h : Wired(h)' => h = au /\ OnWire(au, 1)'
      /\ \A i \in DOMAIN wire' : IsPes(wire'[i]) => wire'[i].pes.au = au
  BY <1>1, PushedUnit
<1>3. PICK n \in Nat : Adds(pid, au, n) /\ (n # 0 => OnWire(au, 1)')
  BY <1>2
<1>4. /\ \A h, i : ~OnWire(h, i)
      /\ \A h : ~Wired(h)
      /\ \A h, s, i : Remains(h, s, i) <=> i = s
  BY <1>2 DEF OnWire, Wired, Remains
<1>5. \A h, s, i : h # au => (Remains(h, s, i)' <=> i = s)
  BY <1>2 DEF Remains
<1>6. /\ au \in Pids \X (Nat \ {0}) /\ au = <<pid, Len(pushed[pid]) + 1>> /\ ~Sent(au)
      /\ \A q \in Pids : Len(pushed[q]) \in Nat /\ DOMAIN pushed[q] = 1..Len(pushed[q])
      /\ \A l \in lost : Sent(l[1])
  <2>1. \A q \in Pids : pushed[q] \in Seq(AccessUnit)
    BY DEF LinkInv, CountPart
  <2>2. \A q \in Pids : Len(pushed[q]) \in Nat /\ DOMAIN pushed[q] = 1..Len(pushed[q])
    BY <2>1
  <2>3. au \in Pids \X (Nat \ {0}) /\ au = <<pid, Len(pushed[pid]) + 1>>
    BY <1>1, IdFacts DEF Id
  <2>4. ~Sent(au)
    <3>1. DOMAIN pushed[au[1]] = 1..Len(pushed[pid]) /\ au[2] = Len(pushed[pid]) + 1 /\ Len(pushed[pid]) \in Nat
      BY <2>2, <2>3
    <3>2. QED
      BY <3>1 DEF Sent
  <2>5. QED
    BY <2>2, <2>3, <2>4 DEF LinkInv, CountPart
<1>7. \A i : <<au, i>> \notin lost
  BY <1>6
<1>8. \A q \in Pids, j \in Nat \ {0} : j <= Len(pushed[q]) => Sent(<<q, j>>)
  BY <1>6 DEF Sent
<1>9. \A q \in Pids : \/ Len(pushed'[q]) = Len(pushed[q]) /\ Latest(q)' = Latest(q)
                      \/ q = pid /\ Len(pushed'[q]) = Len(pushed[q]) + 1 /\ Latest(q)' = au /\ OnWire(au, 1)'
  BY <1>3, <1>6 DEF Adds, Latest
<1>10. \A h \in Pids \X (Nat \ {0}) : Sent(h) => Sent(h)' /\ Unit(h)' = Unit(h) /\ h # au
  BY <1>3, <1>6 DEF Adds
<1>11. ASSUME NEW h \in Pids \X (Nat \ {0}), Sent(h)
       PROVE  /\ LostPart(h)' <=> LostPart(h)
              /\ Broken(h) => Broken(h)'
              /\ \A i : NotIn(h, i)' <=> NotIn(h, i)
  <2>1. h # au /\ Unit(h)' = Unit(h) /\ \A i : ~OnWire(h, i)' /\ ~OnWire(h, i)
    BY <1>2, <1>4, <1>10, <1>11
  <2>2. LostPart(h)' <=> LostPart(h)
    BY <1>2, <2>1 DEF LostPart
  <2>3. Broken(h) => Broken(h)'
    BY <1>2, <2>1 DEF Broken
  <2>4. \A i : NotIn(h, i)' <=> NotIn(h, i)
    BY <1>2, <2>1 DEF NotIn
  <2>5. QED
    BY <2>2, <2>3, <2>4
<1>12. ASSUME NEW h \in Pids \X (Nat \ {0}), Sent(h)
       PROVE  (BrokenBefore(h) => BrokenBefore(h)') /\ (Spoiled(h) => Spoiled(h)')
  <2>1. h[1] \in Pids /\ h[2] \in Nat \ {0} /\ h[2] <= Len(pushed[h[1]])
    BY <1>6, <1>12 DEF Sent
  <2>2. \A i \in 1..(h[2] - 1) : Broken(<<h[1], i>>) => Broken(<<h[1], i>>)'
    <3>1. ASSUME NEW i \in 1..(h[2] - 1) PROVE Broken(<<h[1], i>>) => Broken(<<h[1], i>>)'
      <4>1. i \in Nat \ {0} /\ i <= Len(pushed[h[1]])
        BY <1>6, <2>1
      <4>2. <<h[1], i>> \in Pids \X (Nat \ {0}) /\ Sent(<<h[1], i>>)
        BY <1>8, <2>1, <4>1
      <4>3. QED
        BY <1>11, <4>2
    <3>2. QED
      BY <3>1
  <2>3. BrokenBefore(h) => BrokenBefore(h)'
    BY <2>2 DEF BrokenBefore
  <2>4. QED
    BY <1>2, <1>11, <1>12, <2>3 DEF Spoiled, Successor
<1>13. ASSUME NEW q \in Tracked, NEW x, x = demuxer.partials[q], Good(q, x) PROVE Good(q, x)'
  <2>1. /\ x.header # NoHeader => Own(q, x.header.au) /\ x.header.au \in Pids \X (Nat \ {0})
        /\ q \in Pids
    BY <1>13, TrackedFacts
  <2>2. ASSUME NoneGood(q, x) PROVE NoneGood(q, x)'
    <3>1. ASSUME NEW i \in 1..Len(pushed[q]), Broken(<<q, i>>)
          PROVE  i \in 1..Len(pushed'[q]) /\ Broken(<<q, i>>)'
      <4>1. i \in Nat \ {0} /\ i <= Len(pushed[q]) /\ <<q, i>> \in Pids \X (Nat \ {0})
        BY <1>6, <2>1
      <4>2. Broken(<<q, i>>)'
        BY <1>8, <1>11, <2>1, <3>1, <4>1
      <4>3. QED
        BY <1>6, <1>9, <2>1, <4>1, <4>2
    <3>2. Wired(Latest(q))' => NotIn(Latest(q), 1)'
      BY <1>2 DEF NotIn
    <3>3. /\ x.declared = Unbounded /\ (~x.exists => x.buf = <<>>)
          /\ x.exists => q # Video /\ (x.buf = <<>> \/ \E i \in 1..Len(pushed[q]) : Broken(<<q, i>>))
      BY <2>2 DEF NoneGood
    <3>4. (\E i \in 1..Len(pushed[q]) : Broken(<<q, i>>)) => \E i \in 1..Len(pushed'[q]) : Broken(<<q, i>>)'
      BY <3>1
    <3>5. QED
      BY <3>2, <3>3, <3>4 DEF NoneGood
  <2>3. ASSUME SomeGood(q, x), x.header # NoHeader PROVE SomeGood(q, x)'
    <3> DEFINE h == x.header.au
               s == x.header.size
               end == BufLen(x.buf) + PesHeader
    <3>1. /\ x.exists /\ BufLen(x.buf) > 0 /\ s > PesHeader
          /\ x.declared = IF q = Video THEN Unbounded ELSE s - PesHeader
          /\ ~NotIn(h, 1) /\ \A j \in (h[2] + 1)..Len(pushed[q]) : NotIn(<<q, j>>, 1)
          /\ ~Spoiled(h) => Pure(x.buf, h) /\ Remains(h, s, end) /\ (q # Video => Wired(h))
          /\ q # Video /\ LostPart(h) /\ h = Latest(q) /\ ~BrokenBefore(h) =>
               \E i \in (end + 1)..s : Remains(h, s, i)
      BY <2>3 DEF SomeGood
    <3>2. h \in Pids \X (Nat \ {0}) /\ Sent(h) /\ h # au /\ h[1] = q
      BY <1>10, <2>1, <2>3 DEF Own
    <3>3. /\ LostPart(h)' <=> LostPart(h)
          /\ NotIn(h, 1)' <=> NotIn(h, 1)
          /\ BrokenBefore(h) => BrokenBefore(h)'
          /\ Spoiled(h) => Spoiled(h)'
      BY <1>11, <1>12, <3>2
    <3>4. ASSUME NEW j \in (h[2] + 1)..Len(pushed'[q]) PROVE NotIn(<<q, j>>, 1)'
      <4>1. j \in Nat \ {0} /\ j >= h[2] + 1 /\ h[2] \in Nat /\ j <= Len(pushed'[q])
        BY <3>2
      <4>2. CASE j <= Len(pushed[q])
        <5>1. NotIn(<<q, j>>, 1) /\ Sent(<<q, j>>) /\ <<q, j>> \in Pids \X (Nat \ {0})
          BY <1>6, <1>8, <2>1, <3>1, <4>1, <4>2
        <5>2. QED
          BY <1>11, <5>1
      <4>3. CASE ~(j <= Len(pushed[q]))
        <5>1. q = pid /\ j = Len(pushed[q]) + 1 /\ OnWire(au, 1)'
          BY <1>6, <1>9, <2>1, <4>1, <4>3
        <5>2. QED
          BY <1>6, <5>1 DEF NotIn
      <4>4. QED
        BY <4>2, <4>3
    <3>5. \A i \in DOMAIN wire' : IsPes(wire'[i]) /\ wire'[i].pes.au = h => wire'[i].pes = x.header
      BY <1>2, <3>2
    <3>6. ~Spoiled(h)' => Pure(x.buf, h) /\ Remains(h, s, end)' /\ (q # Video => Wired(h)')
      BY <1>4, <1>5, <3>1, <3>2, <3>3
    <3>7. q # Video /\ LostPart(h)' /\ h = Latest(q)' /\ ~BrokenBefore(h)' => \E i \in (end + 1)..s : Remains(h, s, i)'
      BY <1>4, <1>5, <1>9, <2>1, <3>1, <3>2, <3>3
    <3> HIDE DEF h, s, end
    <3>8. QED
      BY <3>1, <3>3, <3>4, <3>5, <3>6, <3>7 DEF SomeGood, h, s, end, Pure
  <2>4. QED
    BY <1>13, <2>2, <2>3 DEF Good
<1>14. GoodPart'
  <2>1. GoodKept
    BY <1>13 DEF GoodKept
  <2>2. QED
    BY <1>2, <2>1, GoodStays DEF DeliveryInv
<1>15. ExactPart'
  <2>1. \A e \in done : e.au \in Pids \X (Nat \ {0}) /\ Sent(e.au)
    BY DEF FlagInv, DonePart
  <2>2. QED
    BY <1>2, <1>12, <2>1 DEF DeliveryInv, ExactPart
<1>16. TunedPart'
  BY <1>2, <1>10 DEF DeliveryInv, TunedPart
<1>17. QED
  BY <1>2, <1>14, <1>15, <1>16 DEF DeliveryInv

LEMMA InitDelivery == Init => DeliveryInv
<1> SUFFICES ASSUME Init PROVE DeliveryInv
  OBVIOUS
<1>1. /\ wire = <<>> /\ done = {} /\ tuned = {} /\ demuxer = NewDemuxer
  BY DEF Init
<1>2. UnitPart /\ ExactPart /\ TunedPart
  BY <1>1 DEF UnitPart, ExactPart, TunedPart
<1>3. ASSUME NEW pid \in Tracked
      PROVE  LET x == demuxer.partials[pid] IN Good(pid, x) /\ ~x.exists
  <2>1. demuxer.partials[pid] = NoPartial
    BY <1>1 DEF NewDemuxer, Tracked
  <2>2. /\ ~NoPartial.exists /\ NoPartial.header = NoHeader /\ NoPartial.declared = Unbounded
        /\ NoPartial.buf = <<>> /\ BufLen(<<>>) = 0
    BY DEF NoPartial, BufLen
  <2>3. Good(pid, NoPartial)
    BY <2>2 DEF Good, NoneGood
  <2>4. QED
    BY <2>1, <2>2, <2>3
<1>4. GoodPart
  BY <1>3 DEF GoodPart
<1>5. QED
  BY <1>2, <1>4 DEF DeliveryInv

LEMMA NextDelivery ==
  ASSUME LinkInv, FlagInv, DeliveryInv, [Next]_vars
  PROVE  DeliveryInv'
<1>1. ASSUME NEW pid \in Pids, NEW kind \in Kind, NEW key \in BOOLEAN, NEW step \in Steps, NEW m,
             Pushes(m, pid, kind, key, step)
      PROVE  DeliveryInv'
  BY <1>1, PushKeepsDelivery
<1>2. ASSUME LostOnUplink PROVE DeliveryInv'
  BY <1>2, LossKeepsDelivery DEF LostOnUplink
<1>3. ASSUME LostOnDownlink PROVE DeliveryInv'
  BY <1>3, LossKeepsDelivery DEF LostOnDownlink
<1>4. ASSUME UNCHANGED vars PROVE DeliveryInv'
  <2>1. UNCHANGED <<demuxer, wire, pushed, lost, tuned, done>>
    BY <1>4 DEF vars, ghosts
  <2>2. /\ \A au : Wired(au)' <=> Wired(au)
        /\ \A au, i : NotIn(au, i)' <=> NotIn(au, i)
        /\ \A au, s, n : Remains(au, s, n)' <=> Remains(au, s, n)
        /\ \A pid : Latest(pid)' = Latest(pid)
    BY <2>1 DEF Wired, NotIn, OnWire, Remains, Latest
  <2>3. \A au : (LostPart(au)' <=> LostPart(au)) /\ (Broken(au)' <=> Broken(au))
    BY <2>1 DEF LostPart, Broken, Unit, OnWire
  <2>4. \A au : (BrokenBefore(au)' <=> BrokenBefore(au)) /\ (Spoiled(au)' <=> Spoiled(au))
    BY <2>1, <2>3 DEF BrokenBefore, Spoiled, Successor
  <2>5. \A pid, x : (NoneGood(pid, x)' <=> NoneGood(pid, x)) /\ (SomeGood(pid, x)' <=> SomeGood(pid, x))
    BY <2>1, <2>2, <2>3, <2>4 DEF NoneGood, SomeGood, Pure
  <2>6. \A pid, x : Good(pid, x) => Good(pid, x)'
    BY <2>5 DEF Good
  <2>7. GoodPart'
    <3>1. GoodKept
      BY <2>6 DEF GoodKept
    <3>2. QED
      BY <2>1, <3>1, GoodStays DEF DeliveryInv
  <2>8. UnitPart'
    BY <2>1 DEF DeliveryInv, UnitPart, Latest, Unit
  <2>9. ExactPart' /\ TunedPart'
    BY <2>1, <2>4 DEF DeliveryInv, ExactPart, TunedPart, Sent
  <2>10. QED
    BY <2>7, <2>8, <2>9 DEF DeliveryInv
<1>5. QED
  BY <1>1, <1>2, <1>3, <1>4, CarryKeepsDelivery, NextIs DEF Step

(* A unit of which something is still on the wire has not arrived.          *)
LEMMA WiredIsComing ==
  ASSUME LinkInv, UnitPart, NEW au, Wired(au)
  PROVE  ~Arrived(au)
<1> DEFINE l == Len(wire)
<1>1. wire \in Seq(Packet) /\ \A p \in Packet : IsPes(p) => p.part \in Nat \ {0}
  BY PacketFacts DEF LinkInv, WirePart, PesPkt
<1>2. PICK j \in DOMAIN wire : IsPes(wire[j]) /\ wire[j].pes.au = au
  BY DEF Wired
<1>3. DOMAIN wire = 1..l /\ l \in Nat /\ l \in DOMAIN wire /\ (j = l \/ j < l)
  BY <1>1, <1>2
<1>4. IsPes(wire[l])
  BY <1>2, <1>3 DEF UnitPart
<1>5. wire[l].pes = wire[j].pes /\ wire[l].part = Unit(wire[l].pes.au).parts
  BY <1>2, <1>3, <1>4 DEF UnitPart
<1>6. wire[l].part \in Nat \ {0}
  BY <1>1, <1>3, <1>4
<1>7. OnWire(au, wire[l].part) /\ wire[l].part \in 1..Unit(au).parts
  BY <1>2, <1>3, <1>4, <1>5, <1>6 DEF OnWire
<1>8. QED
  BY <1>7 DEF Arrived

(* What the delivery of a unit depends on.                                  *)
LEMMA UnspoiledIsDelivered ==
  ASSUME LinkInv, DeliveryInv, NEW au \in tuned, au[1] \in Tracked, Arrived(au), ~Spoiled(au),
         au[1] = Video => Due(au)
  PROVE  (\E e \in done : e.au = au) /\ \A e \in done : e.au = au => e.exact
<1>1. au \in Pids \X (Nat \ {0}) /\ Sent(au) /\ au[1] \in Pids
  BY DEF DeliveryInv, TunedPart
<1>2. \A e \in done : e.au = au => e.exact
  BY DEF DeliveryInv, ExactPart
<1>3. PICK x : x = demuxer.partials[au[1]]
  OBVIOUS
<1>4. x.header.au = au \/ \E e \in done : e.au = au
  BY <1>3 DEF DeliveryInv, TunedPart
<1>5. ASSUME x.header.au = au PROVE FALSE
  <2>1. x.header # NoHeader
    BY <1>1, <1>5, UnitFacts, NoHeaderFacts
  <2>2. SomeGood(au[1], x)
    BY <1>3, <2>1 DEF DeliveryInv, GoodPart, Good
  <2>3. CASE au[1] # Video
    <3>1. Wired(au)
      BY <1>5, <2>2, <2>3 DEF SomeGood
    <3>2. QED
      BY <3>1, WiredIsComing DEF DeliveryInv
  <2>4. CASE au[1] = Video
    <3>1. Sent(Successor(au)) /\ ~NotIn(Successor(au), 1)
      BY <2>4 DEF Due, NotIn
    <3>2. Len(pushed[au[1]]) \in Nat /\ DOMAIN pushed[au[1]] = 1..Len(pushed[au[1]])
      <4>1. pushed[au[1]] \in Seq(AccessUnit)
        BY <1>1 DEF LinkInv, CountPart
      <4>2. QED
        BY <4>1
    <3>3. au[2] + 1 \in (au[2] + 1)..Len(pushed[au[1]])
      BY <1>1, <3>1, <3>2 DEF Sent, Successor
    <3>4. NotIn(<<au[1], au[2] + 1>>, 1)
      BY <1>5, <2>2, <3>3 DEF SomeGood
    <3>5. QED
      BY <3>1, <3>4 DEF Successor
  <2>5. QED
    BY <2>3, <2>4
<1>6. QED
  BY <1>2, <1>4, <1>5

LEMMA DeliveryAlways == Spec => [](LinkInv /\ DeliveryInv)
<1>1. LinkInv /\ FlagInv /\ DeliveryInv /\ [Next]_vars => LinkInv' /\ FlagInv' /\ DeliveryInv'
  BY NextLink, NextFlags, NextDelivery
<1>2. QED
  BY <1>1, InitLink, InitFlags, InitDelivery, PTL DEF Spec

(* As long as no unit of an audio PID has arrived without its first packet, *)
(* every unit of it that arrived whole is delivered, once its first packet  *)
(* found the PID known, and with its own bytes: whatever else was lost, of  *)
(* the units next to it too.                                                *)
THEOREM AudioIsExact == Spec => []AudioIsExactUntilHeadless
<1>1. ASSUME LinkInv, DeliveryInv PROVE AudioIsExactUntilHeadless
  <2> SUFFICES ASSUME NEW au \in tuned, au[1] # Video, Arrived(au),
                      \A n \in 1..(au[2] - 1) : ~Headless(<<au[1], n>>)
               PROVE  (\E e \in done : e.au = au) /\ \A e \in done : e.au = au => e.exact
    BY DEF AudioIsExactUntilHeadless
  <2>1. au \in Pids \X (Nat \ {0}) /\ Sent(au) /\ au[1] \in Tracked
    BY <1>1 DEF DeliveryInv, TunedPart, Tracked
  <2>2. DOMAIN pushed[au[1]] = 1..Len(pushed[au[1]]) /\ Len(pushed[au[1]]) \in Nat
    <3>1. pushed[au[1]] \in Seq(AccessUnit)
      BY <1>1, <2>1 DEF LinkInv, CountPart
    <3>2. QED
      BY <3>1
  <2>3. ~BrokenBefore(au)
    <3>1. ASSUME NEW n \in 1..(au[2] - 1), Broken(<<au[1], n>>) PROVE FALSE
      <4>1. Sent(<<au[1], n>>)
        BY <2>1, <2>2 DEF Sent
      <4>2. Headless(<<au[1], n>>)
        BY <3>1, <4>1 DEF Broken, Headless
      <4>3. QED
        BY <4>2
    <3>2. QED
      BY <3>1 DEF BrokenBefore
  <2>4. ~Spoiled(au)
    BY <2>3 DEF Spoiled, LostPart, Arrived
  <2>5. QED
    BY <1>1, <2>1, <2>4, UnspoiledIsDelivered
<1>2. QED
  BY <1>1, DeliveryAlways, PTL

(* A video unit that arrived whole is delivered with its own bytes as soon  *)
(* as the first packet of the next one arrives, whatever else was lost:     *)
(* where no access unit is empty.  The event of an empty one does not come, *)
(* because its PES leaves nothing in the buffer to flush.                   *)
THEOREM VideoIsContained ==
  ASSUME 0 \notin Lens
  PROVE  Spec => []VideoDamageIsContained
<1>1. ASSUME LinkInv, DeliveryInv PROVE VideoDamageIsContained
  <2> SUFFICES ASSUME NEW au \in tuned, au[1] = Video, Arrived(au), Due(au)
               PROVE  (\E e \in done : e.au = au) /\ \A e \in done : e.au = au => e.exact
    BY DEF VideoDamageIsContained
  <2>1. au[1] \in Tracked
    BY <1>1 DEF DeliveryInv, TunedPart, Tracked
  <2>2. ~Spoiled(au)
    BY DEF Spoiled, LostPart, Arrived, Due
  <2>3. QED
    BY <1>1, <2>1, <2>2, UnspoiledIsDelivered
<1>2. QED
  BY <1>1, DeliveryAlways, PTL
=============================================================================
