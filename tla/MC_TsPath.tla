----------------------------- MODULE MC_TsPath -----------------------------
(* The muxer of the publisher page, and muxers of many s302m streams: with  *)
(* Others = 13 its table fits one packet, with 14 only while one stream is  *)
(* suppressed.                                                              *)
EXTENDS TsPath

Page == SetVideoCodec(NewMuxer, "av1")
Silent == <<"a3", "a4", "a5", "a6", "a7", "a8", "a9", "a10", "a11", "a12", "a13", "a14",
            "a15", "a16", "a17">>
Idle(n) == SubSeq(Silent, 1, n)
Pcm(others) ==
  LET base == AddAudioPid(SetAudioCodec(SetVideoEnabled(SetSparseEnabled(NewMuxer, TRUE), FALSE),
                                        "s302m"), "audio2", "s302m")
  IN FoldSeq(LAMBDA pid, m : AddAudioPid(m, pid, "s302m"), base, Idle(others))

MCMuxers == {Page, Pcm(13), Pcm(14)}

(* 17 streams: the second packet of the table begins with the fifth byte of *)
(* the descriptor of the 16th, 4, which as a pointer skips the rest of it,  *)
(* so that the stream type and the PID (0x111) of the 17th are taken for a  *)
(* table id and the length of a section, 273.  Nothing is suppressed.       *)
MCManyStreams == {SetSparseEnabled(Pcm(15), FALSE)}
============================================================================
