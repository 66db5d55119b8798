------------------------------- MODULE Ingest -------------------------------
(***************************************************************************)
(* The sources of the gateway (crates/websrt/src/ingest, the setup of the  *)
(* ingester in websrt-gateway/src/main.rs): the SRT listener of many       *)
(* publishers (multi), the reconnecting ingester as a listener (single) or *)
(* as a caller, and the file, each under the loop of its broadcaster.      *)
(*                                                                         *)
(* Publishers are the environment: they call, are silent, close, vanish    *)
(* without a word and come back.  A connection is one SRT socket; its      *)
(* identity is used again once nobody holds it.                            *)
(***************************************************************************)
EXTENDS Integers, Sequences, FiniteSets

CONSTANTS
  Publisher,
  Conn, SocketsOf,  \* SRT connections, and SocketsOf[p]: those of p, which bound its calls
  StreamIdsOf,      \* StreamIdsOf[p]: the stream ids p may send, NoId for none
  Filter,           \* the stream id that the single listener wants, or NoId
  Default,          \* the name of the stream of single, caller and file
  NoId, None,
  Pid, NoPid,       \* the PIDs of the file, and that of a packet which takes no part in the check
  Files,            \* the files: sequences of packets
  ChunkPackets,     \* packets of a message
  CcModulus,        \* 16 in the code
  MaxLoops          \* bound: passes over the file

Mode == {"multi", "single", "caller", "file"}
Name == {Default} \cup ((UNION {StreamIdsOf[p] : p \in Publisher}) \ {NoId})

-----------------------------------------------------------------------------
(* The continuity check (CcChecker), on the packets from + 1 .. to of a     *)
(* file: one counter for every PID.  A packet with NoCc signals a reset, a  *)
(* last counter of NoCc is no counter: neither is compared.                 *)
NoCc == -1
Packet == [pid : Pid \cup {NoPid}, cc : {NoCc} \cup 0..(CcModulus - 1)]
PacketsOf(f, pid, from, to) == {i \in (from + 1)..to : f[i].pid = pid}
Latest(S) == CHOOSE i \in S : \A j \in S : j <= i
CcAfter(f, pid, from, to, last) ==
  LET those == PacketsOf(f, pid, from, to)
  IN IF those = {} THEN last ELSE f[Latest(those)].cc
Jumps(last, cc) == NoCc \notin {last, cc} /\ cc # (last + 1) % CcModulus
GapsIn(f, pid, from, to, last) ==
  {i \in PacketsOf(f, pid, from, to) : Jumps(CcAfter(f, pid, from, i - 1, last), f[i].cc)}

(* A file that is gapless, and not shorter than a message, which panics.    *)
ASSUME IngestAssumption ==
  /\ None \notin Conn \cup Publisher /\ NoId # Default
  /\ ChunkPackets \in Nat \ {0} /\ CcModulus \in Nat \ {0} /\ NoPid \notin Pid
  /\ \A f \in Files : /\ f \in Seq(Packet) /\ Len(f) >= ChunkPackets
                      /\ \A pid \in Pid : GapsIn(f, pid, 0, Len(f), NoCc) = {}

VARIABLES
  mode,
  wants,     \* wants[p]: p is up, and calls (or listens for the caller)
  sock,      \* sock[c]: a connection, as the gateway and its publisher hold it
  queue,     \* SrtIncoming: requests not yet looked at
  acceptor,  \* who accepts or dials: the serve loop, or the one ingester
  stream,    \* stream[n]: the connection the live broadcaster of n reads, or None
  stats,     \* stats[n]: the connection whose counters the health page shows
  feed       \* the file, its cursor, and per PID the last continuity counter and the gaps

netVars == <<wants, sock, queue>>
vars == <<mode, netVars, acceptor, stream, stats, feed>>

-----------------------------------------------------------------------------
Free == [by |-> None, id |-> NoId, at |-> "free", peer |-> FALSE, data |-> FALSE, eof |-> FALSE]
Idle == [at |-> "waiting", conn |-> None]

Init ==
  /\ mode \in Mode
  /\ wants = [p \in Publisher |-> FALSE]
  /\ sock = [c \in Conn |-> Free]
  /\ queue = <<>>
  /\ acceptor = Idle
  /\ stream = [n \in Name |-> None]
  /\ stats = [n \in Name |-> None]
  /\ \E f \in IF mode = "file" THEN Files ELSE {<<>>} :
       feed = [file |-> f, cursor |-> 0, loops |-> 0,
               last |-> [pid \in Pid |-> NoCc], gaps |-> [pid \in Pid |-> 0]]

SrtOnly == mode # "file"
On(p) == {c \in Conn : sock[c].by = p /\ sock[c].peer}
NameOf(c) == IF mode = "multi" THEN sock[c].id ELSE Default

-----------------------------------------------------------------------------
(* Publishers.                                                              *)
ComesUp(p) ==
  /\ SrtOnly /\ ~wants[p]
  /\ wants' = [wants EXCEPT ![p] = TRUE]
  /\ UNCHANGED <<mode, sock, queue, acceptor, stream, stats, feed>>

(* It vanishes: the gateway hears nothing.                                  *)
Vanishes(p) ==
  /\ wants[p]
  /\ wants' = [wants EXCEPT ![p] = FALSE]
  /\ sock' = [c \in Conn |-> IF c \in On(p) THEN [sock[c] EXCEPT !.peer = FALSE] ELSE sock[c]]
  /\ UNCHANGED <<mode, queue, acceptor, stream, stats, feed>>

Calls(p, c, id) ==
  /\ mode \in {"multi", "single"} /\ wants[p] /\ On(p) = {}
  /\ c \in SocketsOf[p] /\ sock[c] = Free
  /\ id \in StreamIdsOf[p]
  /\ sock' = [sock EXCEPT ![c] = [Free EXCEPT !.by = p, !.id = id, !.at = "queued", !.peer = TRUE]]
  /\ queue' = Append(queue, c)
  /\ UNCHANGED <<mode, wants, acceptor, stream, stats, feed>>

(* It does not wait for an ingester that is busy with another socket; the   *)
(* library is taken to fail the handshake of a request that was given up.   *)
GivesUp(p, c) ==
  /\ c \in On(p) /\ sock[c].at = "queued" /\ acceptor.at = "busy"
  /\ sock' = [sock EXCEPT ![c].peer = FALSE, ![c].eof = TRUE]
  /\ UNCHANGED <<mode, wants, queue, acceptor, stream, stats, feed>>

Sends(c) ==
  /\ sock[c].at = "open" /\ sock[c].peer /\ ~sock[c].data /\ ~sock[c].eof
  /\ sock' = [sock EXCEPT ![c].data = TRUE]
  /\ UNCHANGED <<mode, wants, queue, acceptor, stream, stats, feed>>

(* The socket ends, or fails: both are the end of it for its reader.        *)
Breaks(c) ==
  /\ sock[c].at = "open" /\ ~sock[c].eof
  /\ sock' = [sock EXCEPT ![c].eof = TRUE, ![c].peer = FALSE]
  /\ UNCHANGED <<mode, wants, queue, acceptor, stream, stats, feed>>

-----------------------------------------------------------------------------
(* serve, accept_one: the request at the head; without a usable stream id it*)
(* is dropped, otherwise its handshake is awaited.                          *)
Wanted(c) ==
  IF mode = "multi" THEN sock[c].id # NoId ELSE Filter \in {NoId, sock[c].id}
LooksAt(c) ==
  /\ acceptor.at = "waiting" /\ queue # <<>> /\ c = Head(queue)
  /\ queue' = Tail(queue)
  /\ IF Wanted(c)
     THEN /\ sock' = [sock EXCEPT ![c].at = "handshake"]
          /\ acceptor' = [at |-> "accepting", conn |-> c]
     ELSE sock' = [sock EXCEPT ![c] = Free] /\ UNCHANGED acceptor
  /\ UNCHANGED <<mode, wants, stream, stats, feed>>

(* The handshake fails; the single listener sleeps a second.                *)
HandshakeFails(c) ==
  /\ acceptor = [at |-> "accepting", conn |-> c]
  /\ sock' = [sock EXCEPT ![c] = Free]
  /\ acceptor' = [Idle EXCEPT !.at = IF mode = "multi" THEN "waiting" ELSE "backoff"]
  /\ UNCHANGED <<mode, wants, queue, stream, stats, feed>>

Opened(c) == sock' = [sock EXCEPT ![c].at = "open"]

(* Mutant: the name is given to the newcomer; who had it is forgotten.      *)
AcceptedReplaces(c) ==
  /\ mode = "multi" /\ acceptor = [at |-> "accepting", conn |-> c] /\ ~sock[c].eof
  /\ acceptor' = Idle
  /\ stats' = [stats EXCEPT ![NameOf(c)] = c]
  /\ stream' = [stream EXCEPT ![NameOf(c)] = c] /\ Opened(c)
  /\ UNCHANGED <<mode, wants, queue, feed>>

(* serve after a handshake: the counters are registered, then the name is   *)
(* claimed; a name that is live stays with the connection it has.           *)
AcceptedMulti(c) ==
  /\ mode = "multi" /\ acceptor = [at |-> "accepting", conn |-> c] /\ ~sock[c].eof
  /\ acceptor' = Idle
  /\ stats' = [stats EXCEPT ![NameOf(c)] = c]
  /\ IF stream[NameOf(c)] = None
     THEN stream' = [stream EXCEPT ![NameOf(c)] = c] /\ Opened(c)
     ELSE sock' = [sock EXCEPT ![c] = Free] /\ UNCHANGED stream
  /\ UNCHANGED <<mode, wants, queue, feed>>

Claimed(c) ==
  /\ stream' = [stream EXCEPT ![Default] = c]
  /\ stats' = [stats EXCEPT ![Default] = c]

(* The one ingester has a socket; its stream is published at the first one. *)
AcceptedSingle(c) ==
  /\ mode = "single" /\ acceptor = [at |-> "accepting", conn |-> c] /\ ~sock[c].eof
  /\ acceptor' = [at |-> "busy", conn |-> c]
  /\ Opened(c) /\ Claimed(c)
  /\ UNCHANGED <<mode, wants, queue, feed>>

(* dial, and its pause of two seconds; the first dial, in call, has no      *)
(* second try.                                                              *)
Dials(p, c) ==
  /\ mode = "caller" /\ acceptor.at = "waiting" /\ wants[p]
  /\ c \in SocketsOf[p] /\ sock[c] = Free
  /\ sock' = [sock EXCEPT ![c] = [Free EXCEPT !.by = p, !.at = "open", !.peer = TRUE]]
  /\ acceptor' = [at |-> "busy", conn |-> c]
  /\ Claimed(c)
  /\ UNCHANGED <<mode, wants, queue, feed>>
DialFails ==
  /\ mode = "caller" /\ acceptor.at = "waiting"
  /\ acceptor' = [Idle EXCEPT !.at = IF stream[Default] = None THEN "failed" ELSE "backoff"]
  /\ UNCHANGED <<mode, netVars, stream, stats, feed>>
BackoffOver ==
  /\ acceptor.at = "backoff"
  /\ acceptor' = Idle
  /\ UNCHANGED <<mode, netVars, stream, stats, feed>>

-----------------------------------------------------------------------------
(* next_message of both SRT ingesters, under the loop of the broadcaster.   *)
Read(c) == sock[c].at = "open" /\ \E n \in Name : stream[n] = c
Relays(c) ==
  /\ Read(c) /\ sock[c].data
  /\ sock' = [sock EXCEPT ![c].data = FALSE]
  /\ UNCHANGED <<mode, wants, queue, acceptor, stream, stats, feed>>

(* Mutant: only the end of the socket ends the wait for a message.          *)
WaitEndsAtEofOnly(c) ==
  /\ Read(c) /\ ~sock[c].data /\ sock[c].eof
  /\ sock' = [sock EXCEPT ![c].at = "closing"]
  /\ UNCHANGED <<mode, wants, queue, acceptor, stream, stats, feed>>

(* The end of the socket, or nothing for the idle timeout: it is closed,    *)
(* within five seconds.                                                     *)
WaitEnds(c) ==
  /\ Read(c) /\ ~sock[c].data
  /\ sock' = [sock EXCEPT ![c].at = "closing"]
  /\ UNCHANGED <<mode, wants, queue, acceptor, stream, stats, feed>>

(* Mutant: the stream of a closed socket ends in every mode.                *)
ClosedForgetsToWait(c) ==
  /\ sock[c].at = "closing"
  /\ sock' = [sock EXCEPT ![c] = Free]
  /\ stream' = [n \in Name |-> IF stream[n] = c THEN None ELSE stream[n]]
  /\ UNCHANGED <<mode, wants, queue, stats, feed, acceptor>>

(* close_socket is over: the stream of a listener ends, and its name is     *)
(* free; the one ingester goes to wait for the next socket.                 *)
Closed(c) ==
  /\ sock[c].at = "closing"
  /\ sock' = [sock EXCEPT ![c] = Free]
  /\ IF mode = "multi"
     THEN /\ stream' = [n \in Name |-> IF stream[n] = c THEN None ELSE stream[n]]
          /\ UNCHANGED acceptor
     ELSE acceptor' = Idle /\ UNCHANGED stream
  /\ UNCHANGED <<mode, wants, queue, stats, feed>>

-----------------------------------------------------------------------------
(* The file, and the continuity check over each of its messages.  The gaps  *)
(* that the check reports are those of all PIDs together.                   *)
Looped(f) == f.cursor + ChunkPackets > Len(f.file)
(* Mutant: the cursor and the message disagree about its packets.           *)
CursorAfterShort(from) == from + ChunkPackets - 1
CursorAfter(from) == from + ChunkPackets

FileChunk ==
  LET f == feed.file
      from == IF Looped(feed) THEN 0 ELSE feed.cursor
      to == from + ChunkPackets
      loops == feed.loops + (IF Looped(feed) THEN 1 ELSE 0)
  IN /\ mode = "file" /\ loops <= MaxLoops
     /\ feed' = [file |-> f, cursor |-> CursorAfter(from), loops |-> loops,
                 last |-> [pid \in Pid |-> CcAfter(f, pid, from, to, feed.last[pid])],
                 gaps |-> [pid \in Pid |-> feed.gaps[pid] +
                             Cardinality(GapsIn(f, pid, from, to, feed.last[pid]))]]
     /\ UNCHANGED <<mode, netVars, acceptor, stream, stats>>

-----------------------------------------------------------------------------
PublisherNext ==
  \/ \E p \in Publisher : ComesUp(p) \/ Vanishes(p)
  \/ \E p \in Publisher, c \in Conn : GivesUp(p, c) \/ \E id \in StreamIdsOf[p] : Calls(p, c, id)
  \/ \E c \in Conn : Sends(c) \/ Breaks(c)
AcceptorNext ==
  \/ \E c \in Conn : LooksAt(c) \/ HandshakeFails(c) \/ AcceptedMulti(c) \/ AcceptedSingle(c)
  \/ \E p \in Publisher, c \in Conn : Dials(p, c)
  \/ DialFails \/ BackoffOver
ReaderNext == \E c \in Conn : Relays(c) \/ WaitEnds(c) \/ Closed(c)

Next == PublisherNext \/ AcceptorNext \/ ReaderNext \/ FileChunk

(* A publisher that is up calls; the loops run and the timers fire; of the  *)
(* handshakes and dials with a publisher that is there, not all fail.       *)
Fairness ==
  /\ \A p \in Publisher : WF_vars(\E c \in Conn, id \in StreamIdsOf[p] : Calls(p, c, id))
  /\ WF_vars(BackoffOver)
  /\ WF_vars(\E c \in Conn : LooksAt(c))
  /\ \A p \in Publisher : SF_vars(\E c \in Conn : Dials(p, c))
  /\ \A c \in Conn :
       /\ WF_vars(HandshakeFails(c) \/ AcceptedMulti(c) \/ AcceptedSingle(c))
       /\ SF_vars(sock[c].peer /\ (AcceptedMulti(c) \/ AcceptedSingle(c)))
       /\ WF_vars(Relays(c)) /\ WF_vars(WaitEnds(c)) /\ WF_vars(Closed(c))

Spec == Init /\ [][Next]_vars /\ Fairness

-----------------------------------------------------------------------------
(* health_handler: the streams that are alive, and under each name whose    *)
(* continuity counters it shows.  Those of a file are in feed.              *)
Health ==
  [alive |-> IF mode = "file" THEN {Default} ELSE {n \in Name : stream[n] # None},
   ingester |-> stats]

-----------------------------------------------------------------------------
TypeOK ==
  /\ wants \in [Publisher -> BOOLEAN]
  /\ sock \in [Conn -> [by : Publisher \cup {None}, id : Name \cup {NoId}, peer : BOOLEAN, data : BOOLEAN, eof : BOOLEAN,
                        at : {"free", "queued", "handshake", "open", "closing"}]]
  /\ acceptor \in [at : {"waiting", "accepting", "busy", "backoff", "failed"},
                   conn : Conn \cup {None}]
  /\ stream \in [Name -> Conn \cup {None}] /\ stats \in [Name -> Conn \cup {None}]

(* Every socket has exactly one holder: the queue, the handshake, or one    *)
(* stream that reads or closes it.  None is left open with no reader, read  *)
(* under two names, or handed out again while a stream still counts on it   *)
(* (srt_listener.rs:81-112, srt.rs:186-230, 250-272).                       *)
Holders(c) ==
  {<<"queue", i>> : i \in {i \in DOMAIN queue : queue[i] = c}}
    \cup (IF acceptor = [at |-> "accepting", conn |-> c] THEN {<<"handshake", 0>>} ELSE {})
    \cup {<<n, 0>> : n \in {n \in Name : stream[n] = c /\ sock[c].at \in {"open", "closing"}}}
EverySocketIsHeld ==
  /\ \A c \in Conn : Cardinality(Holders(c)) = (IF sock[c] = Free THEN 0 ELSE 1)
  /\ mode = "multi" => \A n \in Name : stream[n] # None => sock[stream[n]].at \in {"open", "closing"}

(* A publisher that stays, and keeps calling, is read again and again: not  *)
(* its own half-open connection, nor the handshakes, sockets and stale      *)
(* requests of others keep it out (srt.rs:138-164, srt_listener.rs:96); if  *)
(* its name, or the one ingester, is not with another publisher, and a      *)
(* caller reached it once.                                                  *)
Rival(p) == \E c \in Conn : sock[c].by # p /\ sock[c].by # None /\ sock[c].peer
                            /\ (mode # "multi" \/ sock[c].id \in StreamIdsOf[p])
Served(p) == \E c \in On(p) : Read(c)
Acceptable(p) == CASE mode = "multi" -> NoId \notin StreamIdsOf[p]
                   [] mode = "single" -> Filter = NoId \/ StreamIdsOf[p] = {Filter}
                   [] mode = "caller" -> acceptor.at # "failed"
                   [] OTHER -> FALSE
PublisherComesBack ==
  \A p \in Publisher :
    (<>[](wants[p] /\ Acceptable(p) /\ ~Rival(p))) => []<>Served(p)

(* A stream whose publisher is gone does not hold its name, and the health  *)
(* page does not count it as alive, for ever (srt.rs:253-271): the name     *)
(* becomes free, or somebody is there again.                                *)
Attended(n) == stream[n] # None /\ sock[stream[n]].peer
NameIsFreed ==
  \A n \in Name :
    (mode = "multi" /\ n \in Health.alive /\ ~Attended(n))
      ~> (n \notin Health.alive \/ Attended(n))

(* The file is gapless: every time it starts again, the check can complain  *)
(* once about a PID, and never about a PID whose counters go on from the end*)
(* of what is played to its start; what is left of the file after the last  *)
(* whole message is not played (file.rs:90-124, continuity.rs:95-131).      *)
Played(f) == Len(f) - (Len(f) % ChunkPackets)
Seamless(f, pid) ==
  GapsIn(f, pid, 0, Played(f), CcAfter(f, pid, 0, Played(f), NoCc)) = {}
GapsOnlyAtLoops ==
  \A pid \in Pid : /\ feed.gaps[pid] <= feed.loops
                   /\ Seamless(feed.file, pid) => feed.gaps[pid] = 0

(* The counters on the health page are those of the connection that is read.*)
HealthShowsTheLive == \A n \in Health.alive : Health.ingester[n] = stream[n]
=============================================================================
