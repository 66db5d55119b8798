------------------------------- MODULE TsPath -------------------------------
(***************************************************************************)
(* A stream from the muxer of its publisher to the demuxer of a viewer.    *)
(* The packets cross two links that drop what is late: the uplink to the   *)
(* gateway, where the continuity check sees what is left                   *)
(* (crates/websrt/src/ingest/continuity.rs), and the downlink.  Order is   *)
(* kept: that is SRT's.                                                    *)
(*                                                                         *)
(* Muxer and demuxer share nothing but the packets, so that a push waits   *)
(* until the packets of the push before it are off the wire.               *)
(***************************************************************************)
EXTENDS TsDemuxer, FiniteSets

CONSTANTS
  Muxers,     \* the muxers there are, configured
  Lens,       \* bytes of an access unit
  Steps,      \* ticks between two pushes
  MaxPushes,  \* bound: pushes
  MaxLost     \* bound: packets lost

(* The muxers are new ones, on which only what is called before the first   *)
(* push was called.                                                         *)
Configured(m) ==
  /\ m.video_enabled \in BOOLEAN /\ m.sparse_enabled \in BOOLEAN
  /\ m.video_codec \in {"h264", "hevc", "av1"}
  /\ Len(m.audio_streams) \in Nat \ {0} /\ m.audio_streams[1].pid = FirstAudio
  /\ m.audio_streams = [i \in 1..Len(m.audio_streams) |->
                          AudioStream(m.audio_streams[i].pid, m.audio_streams[i].kind)]
  /\ \A i \in DOMAIN m.audio_streams :
       m.audio_streams[i].pid \notin {Pat, PmtPid, Video} /\ m.audio_streams[i].kind \in {"opus", "s302m"}
  /\ \A i, j \in DOMAIN m.audio_streams :
       m.audio_streams[i].pid = m.audio_streams[j].pid => i = j
  /\ m = [NewMuxer EXCEPT !.video_enabled = m.video_enabled, !.sparse_enabled = m.sparse_enabled,
                          !.video_codec = m.video_codec, !.audio_streams = m.audio_streams]

ASSUME PathAssumption ==
  /\ Pat \notin Pids /\ PmtPid \notin Pids
  /\ Lens \subseteq Nat /\ Steps \subseteq Nat
  /\ MaxPushes \in Nat /\ MaxLost \in Nat
  /\ \A m \in Muxers : Configured(m)

VARIABLES
  muxer, demuxer,
  wire,       \* polled packets, not yet carried or lost
  checker,    \* the CcChecker of the continuity check: [last, gaps]
  now,        \* PTS of the last push
  pushes,     \* how many there were
  \* What only the properties read:
  pushed,     \* pushed[pid]: its access units, [kind, key, parts]
  announced,  \* the last table written
  lost,       \* PES packets that were lost: <<pid, n, part>>
  psiLost,    \* PAT and PMT packets that were lost
  calm,       \* whole arrivals in a row of the same table: [table, count, inside]
  upLost,     \* upLost[pid]: the uplink lost packets after the last one it carried
  upRuns,     \* runs of losses on the uplink, with a packet of the PID after them
  tuned,      \* access units whose first packet arrived on a PID that was known
  done        \* what was delivered: [au, exact, ra, codec]

ghosts == <<pushed, announced, lost, psiLost, calm, upLost, upRuns, tuned, done>>
vars == <<muxer, demuxer, wire, checker, now, pushes, ghosts>>

AllPids == Pids \cup {Pat, PmtPid}
Id(pid) == <<pid, Len(pushed[pid]) + 1>>
NoCalm == [table |-> NoTable, count |-> 0, inside |-> FALSE]

(* The continuity check has its own counters, and no idea of the PES.       *)
NewChecker == [last |-> [p \in AllPids |-> NoCc], gaps |-> [p \in AllPids |-> 0]]
Scan(c, p) ==
  LET gap == c.last[p.pid] # NoCc /\ p.cc # (c.last[p.pid] + 1) % CcModulus
  IN [last |-> [c.last EXCEPT ![p.pid] = p.cc],
      gaps |-> [c.gaps EXCEPT ![p.pid] = IF gap THEN @ + 1 ELSE @]]

Init ==
  /\ muxer \in Muxers
  /\ demuxer = NewDemuxer
  /\ wire = <<>>
  /\ checker = NewChecker
  /\ now = 0 /\ pushes = 0
  /\ pushed = [p \in Pids |-> <<>>]
  /\ announced = NoTable
  /\ lost = {} /\ psiLost = 0 /\ calm = NoCalm
  /\ upLost = [p \in AllPids |-> FALSE] /\ upRuns = [p \in AllPids |-> 0]
  /\ tuned = {} /\ done = {}

-----------------------------------------------------------------------------
TableStarts(packets) == {i \in DOMAIN packets : packets[i].pid = PmtPid /\ packets[i].part = 1}
Announce(old, packets) ==
  IF TableStarts(packets) = {} THEN old ELSE packets[Max(TableStarts(packets))].table
Parts(packets, pid) == Cardinality({i \in DOMAIN packets : packets[i].pid = pid})

(* The page pushes an access unit and polls the packets.                    *)
Push(m, pid, kind, key, step) ==
  /\ wire = <<>> /\ pushes < MaxPushes
  /\ muxer' = Polled(m)
  /\ wire' = m.output
  /\ now' = now + step /\ pushes' = pushes + 1
  /\ pushed' = IF Parts(m.output, pid) = 0 THEN pushed
               ELSE [pushed EXCEPT ![pid] = Append(@,
                       [kind |-> kind, key |-> key, parts |-> Parts(m.output, pid)])]
  /\ announced' = Announce(announced, m.output)
  /\ UNCHANGED <<demuxer, checker, lost, psiLost, calm, upLost, upRuns, tuned, done>>

VideoFrame(len, key, step) ==
  /\ muxer.video_enabled
  /\ Push(PushVideo(muxer, Id(Video), len, now + step, key), Video, muxer.video_codec, key, step)
OpusFrame(len, step) ==
  /\ muxer.audio_streams[1].kind = "opus"
  /\ Push(PushAudio(muxer, Id(FirstAudio), len), FirstAudio, "opus", FALSE, step)
PcmFrame(pid, len, silent, step) ==
  /\ \E i \in DOMAIN muxer.audio_streams :
       muxer.audio_streams[i].pid = pid /\ muxer.audio_streams[i].kind = "s302m"
  /\ Push(IF pid = FirstAudio THEN PushPcm(muxer, Id(pid), len, now + step, silent)
          ELSE PushPcmPid(muxer, pid, Id(pid), len, now + step, silent),
          pid, "s302m", FALSE, step)

-----------------------------------------------------------------------------
IsPsi(p) == ~IsPes(p)
Loss(p) ==
  /\ Cardinality(lost) + psiLost < MaxLost
  /\ wire' = Tail(wire)
  /\ lost' = IF IsPes(p) THEN lost \cup {<<p.pes.au, p.part>>} ELSE lost
  /\ psiLost' = IF IsPsi(p) THEN psiLost + 1 ELSE psiLost
  /\ calm' = IF IsPsi(p) THEN NoCalm ELSE calm

(* The check sees what the uplink carries.                                  *)
Checked(p) ==
  /\ checker' = Scan(checker, p)
  /\ upLost' = [upLost EXCEPT ![p.pid] = FALSE]
  /\ upRuns' = [upRuns EXCEPT ![p.pid] =
                  IF upLost[p.pid] /\ checker.last[p.pid] # NoCc THEN @ + 1 ELSE @]

LostOnUplink ==
  /\ wire # <<>>
  /\ Loss(Head(wire))
  /\ upLost' = [upLost EXCEPT ![Head(wire).pid] = TRUE]
  /\ UNCHANGED <<muxer, demuxer, checker, now, pushes, pushed, announced, upRuns, tuned, done>>

LostOnDownlink ==
  /\ wire # <<>>
  /\ Loss(Head(wire))
  /\ Checked(Head(wire))
  /\ UNCHANGED <<muxer, demuxer, now, pushes, pushed, announced, tuned, done>>

(* The bytes of a PES event are those of its access unit.                   *)
Exact(e) ==
  /\ \A i \in DOMAIN e.buf : e.buf[i].au = e.header.au /\ e.buf[i].from = e.buf[i].at
  /\ BufLen(e.buf) = e.header.size - PesHeader
Delivered(events) ==
  {[au |-> e.header.au, exact |-> Exact(e), ra |-> e.ra, codec |-> e.codec] :
     e \in {x \in ToSet(events) : x.kind = "pes"}}

(* calm counts the whole arrivals of one table.                             *)
Calmer(p) ==
  LET inside == IF p.part = 1 THEN TRUE ELSE calm.inside
      whole == inside /\ p.part = PsiParts(p.table.size)
  IN IF calm.table # p.table
     THEN [table |-> p.table, count |-> IF whole THEN 1 ELSE 0, inside |-> p.part = 1]
     ELSE [calm EXCEPT !.count = IF whole /\ @ < 2 THEN @ + 1 ELSE @, !.inside = inside]

Carry ==
  /\ wire # <<>>
  /\ LET p == Head(wire) IN
       /\ Checked(p)
       /\ demuxer' = HandlePacket(demuxer, p)
       /\ calm' = IF p.pid = PmtPid THEN Calmer(p) ELSE calm
       /\ tuned' = IF IsPes(p) /\ PayloadKind(demuxer, p) = "PesStart"
                   THEN tuned \cup {p.pes.au} ELSE tuned
       /\ done' = done \cup Delivered(demuxer'.events)
  /\ wire' = Tail(wire)
  /\ UNCHANGED <<muxer, now, pushes, pushed, announced, lost, psiLost>>

Next ==
  \/ \E len \in Lens, key \in BOOLEAN, step \in Steps : VideoFrame(len, key, step)
  \/ \E len \in Lens, step \in Steps : OpusFrame(len, step)
  \/ \E pid \in Pids, len \in Lens, silent \in BOOLEAN, step \in Steps :
       PcmFrame(pid, len, silent, step)
  \/ LostOnUplink
  \/ LostOnDownlink
  \/ Carry

Spec == Init /\ [][Next]_vars

-----------------------------------------------------------------------------
Unit(au) == pushed[au[1]][au[2]]
Sent(au) == au[2] \in DOMAIN pushed[au[1]]
OnWire(au, i) == \E j \in DOMAIN wire : IsPes(wire[j]) /\ wire[j].pes.au = au /\ wire[j].part = i
Arrived(au) == \A i \in 1..Unit(au).parts : <<au, i>> \notin lost /\ ~OnWire(au, i)
Successor(au) == <<au[1], au[2] + 1>>

(* The first packet of au was lost, and another one was not.                *)
Headless(au) ==
  /\ Sent(au) /\ <<au, 1>> \in lost
  /\ \E i \in 2..Unit(au).parts : <<au, i>> \notin lost

(* An event for au is due: its length is declared, or the next unit of its  *)
(* PID has begun to arrive.                                                 *)
Due(au) ==
  \/ au[1] # Video
  \/ Sent(Successor(au)) /\ <<Successor(au), 1>> \notin lost /\ ~OnWire(Successor(au), 1)

TypeOK ==
  /\ now \in Nat /\ pushes \in 0..MaxPushes /\ psiLost \in 0..MaxLost
  /\ \A p \in Pids : demuxer.partials[p].declared # Unbounded => demuxer.partials[p].header # NoHeader
  /\ checker.gaps \in [AllPids -> Nat]

(* A video unit of which every packet arrived is delivered, with its own    *)
(* bytes, as soon as the next one starts, that is when its first packet     *)
(* arrives: nothing else that is lost before it or after it matters.        *)
VideoDamageIsContained ==
  \A au \in tuned :
    au[1] = Video /\ Arrived(au) /\ Due(au) =>
      /\ \E e \in done : e.au = au
      /\ \A e \in done : e.au = au => e.exact

(* The same for audio units, whose length is declared, as long as no unit   *)
(* of the PID has arrived without its first packet.                         *)
AudioIsExactUntilHeadless ==
  \A au \in tuned :
    /\ au[1] # Video /\ Arrived(au)
    /\ \A n \in 1..(au[2] - 1) : ~Headless(<<au[1], n>>)
    => /\ \E e \in done : e.au = au
       /\ \A e \in done : e.au = au => e.exact

(* What the comment at the head of the demuxer (lib.rs:13, "mirrors         *)
(* PesPacketReader") makes one expect of audio too: a unit is exact when    *)
(* it and both its neighbours arrived.                                      *)
AudioDamageIsContained ==
  \A au \in tuned :
    /\ au[1] # Video /\ Arrived(au)
    /\ au[2] > 1 => Arrived(<<au[1], au[2] - 1>>)
    => \A e \in done : e.au = au => e.exact

(* The keyframe flag is on the event of the keyframe, never on the event    *)
(* of the unit that the keyframe flushes.  As long as the tables arrive: a  *)
(* flag seen on a PID that is not known yet is kept for a later unit.       *)
KeyframeFlag == psiLost = 0 => \A e \in done : e.ra <=> Unit(e.au).key

(* Packets of a PES, and the PCR, travel only on PIDs of the last table     *)
(* that was written: also across the suppression of a stream and its end.   *)
AnnouncedBeforeUse ==
  announced # NoTable =>
    \A j \in {i \in DOMAIN wire : IsPes(wire[i])} :
      /\ \E e \in announced.entries : e.pid = wire[j].pid
      /\ wire[j].pcr => announced.pcr = wire[j].pid

(* Where the tables fit one packet, even with nobody suppressed, they are   *)
(* written often enough that the loss of any one of their packets leaves no *)
(* unit with an unknown codec, whole or not.                                *)
FullTable(m) == TableOf(SetSparseEnabled(m, FALSE))
TypedDespiteOneLoss ==
  psiLost <= 1 /\ PsiParts(FullTable(muxer).size) = 1 =>
    \A e \in done : e.codec = Unit(e.au).kind

(* What the demuxer starts in the middle of a table is dropped at once, and *)
(* what it still has of another one ends with the first table that arrives  *)
(* whole.                                                                   *)
SectionsEndInTime(table) ==
  /\ MisreadSize <= PacketSize - 5
  /\ \A m \in Muxers : PsiParts(FullTable(m).size) <= PsiParts(table.size) + 1

(* A table that arrived whole twice in a row is in use, whatever was lost   *)
(* before.                                                                  *)
TablesComeBack ==
  calm.count = 2 /\ (PsiParts(calm.table.size) = 1 \/ SectionsEndInTime(calm.table)) =>
    demuxer.pmt_entries = calm.table.entries

(* What assemble_psi promises in lib.rs:543, "Returns a parsed `Pmt` when   *)
(* the section is complete", of any table and for the second time at least. *)
WholeTablesAreUsed == calm.count = 2 => demuxer.pmt_entries = calm.table.entries

(* The continuity check counts a gap where the uplink lost packets, and     *)
(* nowhere else, whatever the downlink loses.                               *)
GapsBlameTheUplink == checker.gaps = upRuns
============================================================================
