----------------------------- MODULE TsDemuxer -----------------------------
(***************************************************************************)
(* The browser's MPEG-TS demuxer (crates/mpeg2ts-wasm/src/lib.rs), as      *)
(* operators from one demuxer record and one packet to the next record.    *)
(* A packet is a record of TsMuxer; the buffers of a partial PES hold the  *)
(* pieces [au, from, len, at] that were appended to them: len bytes of the *)
(* access unit au, from the one numbered from, at a position of the buffer. *)
(***************************************************************************)
EXTENDS TsMuxer

CONSTANTS
  Pids,         \* of the elementary streams
  MisreadSize   \* the section size (3 + section_length) that the bytes of the second
                \* packet of a PMT announce when that packet is taken for the first, with
                \* what the pointer field skips

ASSUME DemuxerAssumption == MisreadSize \in Nat /\ Video \in Pids /\ FirstAudio \in Pids

NoCc == CcModulus
NoHeader == BuildPes(<<>>, 0, FALSE)
Unbounded == 0
Unlisted == "unlisted"
NoPartial == [exists |-> FALSE, header |-> NoHeader, declared |-> Unbounded, buf |-> <<>>, ra |-> FALSE]
NoSection == [exists |-> FALSE, len |-> 0, total |-> 0, next |-> 0, table |-> NoTable]

(* A new TsDemuxer.  registered are the PIDs that the reader knows to carry *)
(* PES; events are those of the last packet.                                *)
NewDemuxer ==
  [pmt_pid_known |-> FALSE, pmt_entries |-> {}, registered |-> {}, partial_psi |-> NoSection,
   partials |-> [p \in Pids |-> NoPartial], last_ra |-> [p \in Pids |-> FALSE],
   last_cc |-> [p \in Pids \cup {Pat, PmtPid} |-> NoCc],
   cc_errors |-> [p \in Pids \cup {Pat, PmtPid} |-> 0], events |-> <<>>]

(* The bytes of a buffer, and the buffer with more of them.                 *)
BufLen(buf) == IF buf = <<>> THEN 0 ELSE Last(buf).at + Last(buf).len
Extended(buf, au, from, len) ==
  Append(buf, [au |-> au, from |-> from, len |-> len, at |-> BufLen(buf)])

(* What the reader of the mpeg2ts crate makes of a packet.  A PMT section   *)
(* that takes more than one packet comes as raw payloads.                   *)
PayloadKind(d, p) ==
  CASE p.pid = Pat -> "Pat"
    [] p.pid = PmtPid -> IF d.pmt_pid_known /\ PsiParts(p.table.size) = 1 THEN "Pmt" ELSE "Raw"
    [] OTHER -> IF p.pid \notin d.registered THEN "Raw"
                ELSE IF p.part = 1 THEN "PesStart" ELSE "PesContinuation"
IsPes(p) == p.pid \in Pids

-----------------------------------------------------------------------------
(* stream_type_for_pid and is_smpte302m_pid look a PID up in the last table. *)
KindOf(d, pid) ==
  IF \E e \in d.pmt_entries : e.pid = pid
  THEN (CHOOSE e \in d.pmt_entries : e.pid = pid).kind ELSE Unlisted

(* finalize_pes: the PES event, and for s302m the decoded samples.          *)
FinalizePes(d, pid, header, buf, ra) ==
  LET pes == [kind |-> "pes", pid |-> pid, header |-> header, buf |-> buf, ra |-> ra,
              codec |-> KindOf(d, pid)]
  IN [d EXCEPT !.events = Append(@, pes)]

(* Mutant: the length that was declared outlives its PES.                   *)
EmptiedKeepsLength(p) == [NoPartial EXCEPT !.exists = TRUE, !.declared = p.declared]

(* What a flush leaves of a partial PES: an empty one without a header.     *)
Emptied(p) == [NoPartial EXCEPT !.exists = TRUE]

(* maybe_flush: a PES of declared length is complete.                       *)
MaybeFlush(d, pid) ==
  LET p == d.partials[pid]
  IN IF p.declared = Unbounded THEN d
     ELSE IF BufLen(p.buf) < p.declared THEN d
     ELSE FinalizePes([d EXCEPT !.partials[pid] = Emptied(p)], pid, p.header, p.buf, p.ra)

(* Mutant: the header is counted into the length of the payload.            *)
DeclaredLenWithHeader(pes) == IF pes.bounded THEN pes.size ELSE Unbounded

(* es_payload_len of the PES header.                                        *)
DeclaredLen(pes) == IF pes.bounded THEN pes.size - PesHeader ELSE Unbounded

(* Mutant: the flag is the one that is pending when the PES is flushed.     *)
FlushedFlagPending(d, pid) == d.last_ra[pid]
FlushedFlag(d, pid) == d.partials[pid].ra

(* Mutant: the buffer is not taken out by the flush.                        *)
KeptAlways(old) == old.buf

(* A PES that starts ends the one before it, if that has a header; what is  *)
(* in the buffer of one that has none stays there.                          *)
Ends(old) == old.header # NoHeader /\ BufLen(old.buf) > 0
Kept(old) == IF Ends(old) THEN <<>> ELSE old.buf

PesStart(d, p) ==
  LET old == d.partials[p.pid]
      new == [exists |-> TRUE, header |-> p.pes, declared |-> DeclaredLen(p.pes),
              buf |-> Extended(Kept(old), p.pes.au, 0, p.len - PesHeader),
              ra |-> d.last_ra[p.pid]]
      started == [d EXCEPT !.partials[p.pid] = new, !.last_ra[p.pid] = FALSE]
  IN MaybeFlush(IF Ends(old)
                THEN FinalizePes(started, p.pid, old.header, old.buf, FlushedFlag(d, p.pid))
                ELSE started, p.pid)

PesContinuation(d, p) ==
  MaybeFlush(IF d.partials[p.pid].exists
             THEN [d EXCEPT !.partials[p.pid].buf = Extended(@, p.pes.au, p.from - PesHeader, p.len)]
             ELSE d, p.pid)

-----------------------------------------------------------------------------
(* handle_pmt.  The reader never forgets a PID that it was told of.         *)
HandlePmt(d, table) ==
  [d EXCEPT !.pmt_entries = table.entries,
            !.registered = @ \cup {e.pid : e \in table.entries},
            !.events = Append(@, [kind |-> "pmt", table |-> table])]

(* The partial section that the raw payload of a packet starts, after its   *)
(* pointer field, and what it is with the payload of another packet.  next  *)
(* is the part that it needs, 0 when it is no longer a section.             *)
StartSection(p) ==
  [exists |-> TRUE, len |-> PacketSize - 5,
   total |-> IF p.part = 1 THEN p.table.size ELSE MisreadSize,
   next |-> IF p.part = 1 THEN 2 ELSE 0, table |-> p.table]
ContinueSection(s, p) ==
  [s EXCEPT !.len = @ + PacketSize - 4,
            !.next = IF @ = p.part /\ p.table = s.table THEN @ + 1 ELSE 0]

(* Mutant: a section that does not parse is kept.                           *)
AssemblePsiKeeps(d, p) ==
  LET s == IF d.partial_psi.exists THEN ContinueSection(d.partial_psi, p) ELSE StartSection(p)
  IN IF s.len < s.total \/ s.next = 0 THEN [d EXCEPT !.partial_psi = s]
     ELSE HandlePmt([d EXCEPT !.partial_psi = NoSection], s.table)

(* assemble_psi.  The start of a section is not recognised by its packet    *)
(* but by there being no partial one; what does not parse is dropped.       *)
AssemblePsi(d, p) ==
  LET s == IF d.partial_psi.exists THEN ContinueSection(d.partial_psi, p) ELSE StartSection(p)
  IN IF s.len < s.total THEN [d EXCEPT !.partial_psi = s]
     ELSE LET done == [d EXCEPT !.partial_psi = NoSection]
          IN IF s.next # 0 THEN HandlePmt(done, s.table) ELSE done

-----------------------------------------------------------------------------
(* The first half of handle_packet: the adaptation field, then continuity.  *)
RandomAccess(d, p) ==
  IF IsPes(p) /\ p.random_access
  THEN [d EXCEPT !.last_ra[p.pid] = TRUE,
                 !.events = Append(@, [kind |-> "random_access", pid |-> p.pid])]
  ELSE d
CheckContinuity(d, p) ==
  LET last == d.last_cc[p.pid]
      gap == last # NoCc /\ p.cc # (last + 1) % CcModulus
  IN [d EXCEPT !.cc_errors[p.pid] = IF gap THEN @ + 1 ELSE @, !.last_cc[p.pid] = p.cc]

(* handle_packet, on the packet that feed takes from the buffer.            *)
HandlePacket(d, p) ==
  LET seen == CheckContinuity(RandomAccess([d EXCEPT !.events = <<>>], p), p)
  IN CASE PayloadKind(d, p) = "Pat" -> [seen EXCEPT !.pmt_pid_known = TRUE]
       [] PayloadKind(d, p) = "Pmt" -> HandlePmt(seen, p.table)
       [] PayloadKind(d, p) = "PesStart" -> PesStart(seen, p)
       [] PayloadKind(d, p) = "PesContinuation" -> PesContinuation(seen, p)
       [] OTHER -> IF p.pid = PmtPid /\ d.pmt_pid_known THEN AssemblePsi(seen, p) ELSE seen
=============================================================================
