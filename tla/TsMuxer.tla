------------------------------ MODULE TsMuxer ------------------------------
(***************************************************************************)
(* The MPEG-TS muxer (crates/ts-muxer/src/lib.rs), as operators from one   *)
(* muxer record to the next: which packets a push writes, with what        *)
(* continuity counters, and when the tables (PAT and PMT) are written.     *)
(* Sizes are the bytes of the code.  Contents are not: a packet of a PES   *)
(* says which bytes of which access unit it carries, a packet of a PMT     *)
(* which part of which table.                                              *)
(***************************************************************************)
EXTENDS Naturals, Sequences, FiniteSets, SequencesExt

CONSTANTS
  PacketSize,       \* TS_PACKET_SIZE
  CcModulus,        \* continuity counters have 4 bits
  VersionModulus,   \* the version of a PMT has 5
  ResendCount,      \* PMT_RESEND_COUNT
  PsiInterval,      \* PSI_INTERVAL_TICKS
  SparseThreshold   \* sparse_threshold_ms, in frames of silence

ASSUME MuxerAssumption ==
  /\ {PacketSize, CcModulus, VersionModulus, PsiInterval} \subseteq Nat \ {0}
  /\ {ResendCount, SparseThreshold} \subseteq Nat
  /\ PacketSize > 32      \* the headers of a packet and of a PES fit in a packet
  /\ CcModulus > 1 /\ VersionModulus > 1

Pat == "pat"
PmtPid == "pmt"
Video == "video"
FirstAudio == "audio"     \* DEFAULT_AUDIO_PID

NoTable == [version |-> 0, pcr |-> Pat, entries |-> {}, size |-> 0]

(* A new AudioStream, and a new muxer.                                      *)
AudioStream(pid, kind) ==
  [pid |-> pid, kind |-> kind, cc |-> 0, silence |-> 0, suppressed |-> FALSE]
NewMuxer ==
  [video_enabled |-> TRUE, video_codec |-> "h264", video_cc |-> 0, audio_streams |-> <<AudioStream(FirstAudio, "opus")>>,
   pat_cc |-> 0, pmt_cc |-> 0, output |-> <<>>, pat_pmt_emitted |-> FALSE, last_psi_pts |-> 0,
   sparse_enabled |-> FALSE, pmt_dirty |-> FALSE, pmt_resend_count |-> 0, pmt_version |-> 0]

(* What is called before the first push.                                    *)
SetVideoCodec(m, codec) ==
  [m EXCEPT !.video_codec = IF codec \in {"av1", "hevc"} THEN codec ELSE "h264"]
SetVideoEnabled(m, enabled) == [m EXCEPT !.video_enabled = enabled]
SetSparseEnabled(m, enabled) == [m EXCEPT !.sparse_enabled = enabled]
SetAudioCodec(m, codec) == [m EXCEPT !.audio_streams[1].kind = codec]
AddAudioPid(m, pid, codec) ==
  IF \E i \in DOMAIN m.audio_streams : m.audio_streams[i].pid = pid THEN m
  ELSE [m EXCEPT !.audio_streams = Append(@, AudioStream(pid, codec))]

-----------------------------------------------------------------------------
(* The streams, by index, that are not dropped from the tables for their    *)
(* silence.                                                                 *)
ActiveAudio(m) ==
  {i \in DOMAIN m.audio_streams : ~(m.sparse_enabled /\ m.audio_streams[i].suppressed)}

PcrPid(m) ==
  IF m.video_enabled THEN Video
  ELSE IF ActiveAudio(m) = {} THEN FirstAudio ELSE m.audio_streams[Min(ActiveAudio(m))].pid

(* The bytes of an entry of a PMT: 5, and the registration descriptor where *)
(* the stream type does not name the codec.                                 *)
EntrySize(kind) ==
  CASE kind \in {"h264", "hevc"} -> 5 [] kind = "opus" -> 15 [] kind \in {"av1", "s302m"} -> 11

Entries(m) ==
  {[pid |-> m.audio_streams[i].pid, kind |-> m.audio_streams[i].kind] : i \in ActiveAudio(m)}
    \cup (IF m.video_enabled THEN {[pid |-> Video, kind |-> m.video_codec]} ELSE {})
TableOf(m) ==
  LET bytes(n) == n * Cardinality({e \in Entries(m) : EntrySize(e.kind) = n})
  IN [version |-> m.pmt_version, pcr |-> PcrPid(m), entries |-> Entries(m),
      size |-> 16 + bytes(5) + bytes(11) + bytes(15)]

(* packetize_psi: the parts of a section, of which only the first has the   *)
(* pointer field and so one byte less of room.                              *)
PsiParts(size) ==
  CHOOSE n \in 1..size : (n - 1) * (PacketSize - 4) < size + 1 /\ size + 1 <= n * (PacketSize - 4)

PatPacket(m) == [pid |-> Pat, cc |-> m.pat_cc]
PmtPackets(m) ==
  [i \in 1..PsiParts(TableOf(m).size) |->
     [pid |-> PmtPid, cc |-> (m.pmt_cc + i - 1) % CcModulus, part |-> i, table |-> TableOf(m)]]

(* write_pat and write_pmt, which are always called together.               *)
WritePsi(m) ==
  [m EXCEPT !.output = Append(@, PatPacket(m)) \o PmtPackets(m),
            !.pat_cc = (@ + 1) % CcModulus,
            !.pmt_cc = (@ + PsiParts(TableOf(m).size)) % CcModulus]
WritePsiAt(m, pts) == [WritePsi(m) EXCEPT !.last_psi_pts = pts]

-----------------------------------------------------------------------------
(* packetize: the bytes of a PES that go into its i-th packet.  The first   *)
(* packet has 8 bytes less of room when it carries the PCR.                 *)
Room(i, pcr) == PacketSize - 4 - (IF i = 1 /\ pcr THEN 8 ELSE 0)
Offset(i, pcr) == IF i = 1 THEN 0 ELSE Room(1, pcr) + (i - 2) * Room(2, pcr)
PesParts(size, pcr) ==
  CHOOSE n \in 1..size : Offset(n, pcr) < size /\ size <= Offset(n + 1, pcr)
Chunk(i, size, pcr) ==
  IF size - Offset(i, pcr) < Room(i, pcr) THEN size - Offset(i, pcr) ELSE Room(i, pcr)

(* Only a packet with an adaptation field can carry the random access       *)
(* indicator: one with the PCR or with stuffing.                            *)
HasAdaptation(i, size, pcr) == (i = 1 /\ pcr) \/ Chunk(i, size, pcr) < Room(i, pcr)

PesPackets(pid, cc, pes, pcr, random_access) ==
  [i \in 1..PesParts(pes.size, pcr) |->
     [pid |-> pid, cc |-> (cc + i - 1) % CcModulus, part |-> i, pes |-> pes,
      from |-> Offset(i, pcr), len |-> Chunk(i, pes.size, pcr), pcr |-> pcr /\ i = 1,
      random_access |-> random_access /\ i = 1 /\ HasAdaptation(i, pes.size, pcr)]]

(* Mutant: the continuity counter starts anew with every PES.               *)
PacketizeAnew(pid, cc, pes, pcr, random_access) == PesPackets(pid, 0, pes, pcr, random_access)

Packetize(pid, cc, pes, pcr, random_access) == PesPackets(pid, cc, pes, pcr, random_access)

(* build_pes_video leaves the length of the PES open, build_pes_audio       *)
(* declares it.  Both have a header of 14 bytes when there is no DTS.       *)
PesHeader == 14
BuildPes(au, len, bounded) == [au |-> au, size |-> PesHeader + len, bounded |-> bounded]

(* push_video.  The tables are written with a keyframe only.                *)
PushVideo(m, au, len, pts, is_keyframe) ==
  IF ~m.video_enabled THEN m
  ELSE LET psi == IF is_keyframe
                  THEN [WritePsiAt(m, pts) EXCEPT !.pat_pmt_emitted = TRUE] ELSE m
           packets == Packetize(Video, m.video_cc, BuildPes(au, len, FALSE), TRUE, is_keyframe)
       IN [psi EXCEPT !.output = @ \o packets,
                      !.video_cc = (@ + Len(packets)) % CcModulus]

(* The PES of an audio frame on stream i.                                   *)
WriteAudio(m, i, au, len) ==
  LET s == m.audio_streams[i]
      packets == Packetize(s.pid, s.cc, BuildPes(au, len, TRUE), s.pid = PcrPid(m), FALSE)
  IN [m EXCEPT !.output = @ \o packets,
               !.audio_streams[i].cc = (@ + Len(packets)) % CcModulus]

(* push_audio: to the first Opus stream, and without tables.  2 bytes of    *)
(* Opus control header.                                                     *)
FirstOf(m, codec) ==
  LET i == SelectInSeq(m.audio_streams, LAMBDA s : s.kind = codec) IN IF i = 0 THEN 1 ELSE i
PushAudio(m, au, len) == WriteAudio(m, FirstOf(m, "opus"), au, 2 + len)

(* The sparse accounting of push_pcm_stream.  A change of the table gives   *)
(* it a new version, and has it written at once and with the next pushes.   *)
NewVersion(m) == [m EXCEPT !.pmt_version = (@ + 1) % VersionModulus]

(* Mutant: the changed table keeps its version.                             *)
ResendSameVersion(m) == [m EXCEPT !.pmt_dirty = TRUE, !.pmt_resend_count = ResendCount]
Resend(m) == [NewVersion(m) EXCEPT !.pmt_dirty = TRUE, !.pmt_resend_count = ResendCount]

(* Mutant: the end of a suppression is not announced.                       *)
ResumedQuietly(m, i) == [m EXCEPT !.audio_streams[i].suppressed = FALSE]
Suppressed(m, i) == Resend([m EXCEPT !.audio_streams[i].suppressed = TRUE])
Resumed(m, i) == Resend([m EXCEPT !.audio_streams[i].suppressed = FALSE])

Account(m, i, silent) ==
  LET s == m.audio_streams[i]
      quiet == IF silent THEN s.silence + 1 ELSE 0
      counted == [m EXCEPT !.audio_streams[i].silence = quiet]
  IN CASE quiet > SparseThreshold /\ ~s.suppressed -> Suppressed(counted, i)
       [] ~silent /\ s.suppressed -> Resumed(counted, i)
       [] OTHER -> counted

(* push_pcm_stream: the tables first, for up to four reasons one after the  *)
(* other, then the PES unless the stream is suppressed.                     *)
FirstTables(m, pts) ==
  IF m.pat_pmt_emitted THEN m ELSE [WritePsiAt(m, pts) EXCEPT !.pat_pmt_emitted = TRUE]
DirtyTables(m, pts) ==
  IF m.pmt_dirty THEN [WritePsiAt(m, pts) EXCEPT !.pmt_dirty = FALSE] ELSE m
(* Mutant: a changed table is written once.                                 *)
ResentTablesNever(m, pts) == m
ResentTables(m, pts) ==
  IF m.pmt_resend_count > 0 THEN [WritePsiAt(m, pts) EXCEPT !.pmt_resend_count = @ - 1] ELSE m
PeriodicTables(m, pts) ==
  IF pts >= m.last_psi_pts + PsiInterval THEN WritePsiAt(m, pts) ELSE m

PushPcmStream(m, i, au, len, pts, silent) ==
  LET first == FirstTables(m, pts)
      counted == IF m.sparse_enabled THEN Account(first, i, silent) ELSE first
      tables == PeriodicTables(ResentTables(DirtyTables(counted, pts), pts), pts)
  IN IF m.sparse_enabled /\ counted.audio_streams[i].suppressed THEN tables
     ELSE WriteAudio(tables, i, au, 4 + len)

(* push_pcm takes the first s302m stream, push_pcm_pid the one named, and   *)
(* does nothing when there is none.                                         *)
PushPcm(m, au, len, pts, silent) ==
  PushPcmStream(m, FirstOf(m, "s302m"), au, len, pts, silent)
PushPcmPid(m, pid, au, len, pts, silent) ==
  LET i == SelectInSeq(m.audio_streams, LAMBDA s : s.pid = pid)
  IN IF i = 0 \/ m.audio_streams[i].kind # "s302m" THEN m
     ELSE PushPcmStream(m, i, au, len, pts, silent)

(* poll takes what has been written.                                        *)
Polled(m) == [m EXCEPT !.output = <<>>]
=============================================================================
