----------------------------- MODULE ChartStream -----------------------------
(***************************************************************************)
(* One download of a chart (pkg/helm/load.go, pkg/rpc/rpc.go): the archive *)
(* is read from its repository into a buffer of limited size, or pulled    *)
(* from an OCI registry; a gRPC client gets it in chunks, an HTTP client   *)
(* the files in it.  Module ChartReads says how the version is found.      *)
(***************************************************************************)
EXTENDS Integers, Sequences

CONSTANTS
    Archives,   \* the bytes of the archives repositories serve
    Limit,      \* constant.ResponseBodyLimit
    ChunkSize,  \* bytes of a message
    Pieces      \* bytes one read of the response body may return

ASSUME LimitAssumption == Limit \in Nat
ASSUME ChunkAssumption == ChunkSize \in Nat \ {0}
ASSUME PiecesAssumption == Pieces \subseteq Nat \ {0}
ASSUME ArchivesAssumption == \A a \in Archives : a \in Seq(Nat)

VARIABLES
    phase,      \* where the download is
    via,        \* the client's protocol
    archive,    \* what the repository serves for the version asked for
    rest,       \* what has not been read from the response body
    buffer,     \* limitedBuffer, then the bytes still to send
    written,    \* limitedBuffer.written
    received    \* what the client has received

streamVars == <<phase, via, archive, rest, buffer, written, received>>

Protocols == {"rpc", "http"}

Phases == {"idle", "loading", "stalled", "streaming", "held", "done", "failed"}

StreamInit ==
    /\ phase = "idle"
    /\ via = "rpc"
    /\ archive = <<>>
    /\ rest = <<>>
    /\ buffer = <<>>
    /\ written = 0
    /\ received = <<>>

\* Nothing of a download is kept.
Forget ==
    /\ phase' = "idle"
    /\ via' = "rpc"
    /\ archive' = <<>>
    /\ rest' = <<>>
    /\ buffer' = <<>>
    /\ written' = 0
    /\ received' = <<>>

Ahead(s, n) == SubSeq(s, 1, n)
Behind(s, n) == SubSeq(s, n + 1, Len(s))

\* LoadData's request is answered.
Open(a, v) ==
    /\ phase = "idle"
    /\ phase' = "loading"
    /\ via' = v
    /\ archive' = a
    /\ rest' = a
    /\ buffer' = <<>>
    /\ written' = 0
    /\ received' = <<>>

\* LoadOCI: the registry client returns the whole layer, without a limit.
Pull(a, v) ==
    /\ phase = "idle"
    /\ phase' = "streaming"
    /\ via' = v
    /\ archive' = a
    /\ rest' = <<>>
    /\ buffer' = a
    /\ written' = 0
    /\ received' = <<>>

\* GetChartBytesByVersion, LoadData or the registry client fails.
OpenFails(v) ==
    /\ phase = "idle"
    /\ phase' = "failed"
    /\ via' = v
    /\ UNCHANGED <<archive, rest, buffer, written, received>>

\* Mutant: the limit is compared before the piece is added.
CopyUnchecked(n) ==
    /\ phase = "loading"
    /\ n <= Len(rest)
    /\ written <= Limit
    /\ buffer' = buffer \o Ahead(rest, n)
    /\ rest' = Behind(rest, n)
    /\ written' = written + n
    /\ UNCHANGED <<phase, via, archive, received>>

\* Mutant: written counts down.
CopyCountsDown(n) ==
    /\ phase = "loading"
    /\ n <= Len(rest)
    /\ written + n <= Limit
    /\ buffer' = buffer \o Ahead(rest, n)
    /\ rest' = Behind(rest, n)
    /\ written' = written - n
    /\ UNCHANGED <<phase, via, archive, received>>

\* io.Copy writes a piece of the body to the limited buffer.
Copy(n) ==
    /\ phase = "loading"
    /\ n <= Len(rest)
    /\ written + n <= Limit
    /\ buffer' = buffer \o Ahead(rest, n)
    /\ rest' = Behind(rest, n)
    /\ written' = written + n
    /\ UNCHANGED <<phase, via, archive, received>>

\* limitedBuffer.Write refuses a piece: LoadData fails.
CopyRefused(n) ==
    /\ phase = "loading"
    /\ n <= Len(rest)
    /\ written + n > Limit
    /\ phase' = "failed"
    /\ UNCHANGED <<via, archive, rest, buffer, written, received>>

\* The connection breaks, or the status turns out not to be 200.
LoadFails ==
    /\ phase = "loading"
    /\ phase' = "failed"
    /\ UNCHANGED <<via, archive, rest, buffer, written, received>>

\* The server sends nothing more and keeps the connection: the client of
\* LoadData has no timeout for that.
Stall ==
    /\ phase = "loading"
    /\ rest # <<>>
    /\ phase' = "stalled"
    /\ UNCHANGED <<via, archive, rest, buffer, written, received>>

\* It sends again, perhaps never.
Resume ==
    /\ phase = "stalled"
    /\ phase' = "loading"
    /\ UNCHANGED <<via, archive, rest, buffer, written, received>>

Loaded ==
    /\ phase = "loading"
    /\ rest = <<>>
    /\ phase' = "streaming"
    /\ UNCHANGED <<via, archive, rest, buffer, written, received>>

ChunkLen == IF Len(buffer) < ChunkSize THEN Len(buffer) ELSE ChunkSize

\* Mutant: a message is sent from a buffer that is not consumed.
SendAgain ==
    /\ phase = "streaming"
    /\ via = "rpc"
    /\ buffer # <<>>
    /\ received' = Ahead(buffer, ChunkLen)
    /\ UNCHANGED <<phase, via, archive, rest, buffer, written>>

\* Mutant: the chunk is sent at its full size, padded.
SendPadded ==
    /\ phase = "streaming"
    /\ via = "rpc"
    /\ buffer # <<>>
    /\ received' = received \o Ahead(buffer, ChunkLen) \o [k \in 1 .. ChunkSize - ChunkLen |-> 0]
    /\ buffer' = Behind(buffer, ChunkLen)
    /\ UNCHANGED <<phase, via, archive, rest, written>>

\* GetHelmChart's loop.
SendChunk ==
    /\ phase = "streaming"
    /\ via = "rpc"
    /\ buffer # <<>>
    /\ received' = received \o Ahead(buffer, ChunkLen)
    /\ buffer' = Behind(buffer, ChunkLen)
    /\ UNCHANGED <<phase, via, archive, rest, written>>

\* The client stays and does not read: stream.Send waits for flow control,
\* the write of an HTTP answer for the connection.  Neither server sets a
\* deadline for that.
Hold ==
    /\ phase = "streaming"
    /\ buffer # <<>>
    /\ phase' = "held"
    /\ UNCHANGED <<via, archive, rest, buffer, written, received>>

\* It reads again, perhaps never.
Release ==
    /\ phase = "held"
    /\ phase' = "streaming"
    /\ UNCHANGED <<via, archive, rest, buffer, written, received>>

\* The client has gone: stream.Send, or the write of the answer, fails.
SendFails ==
    /\ phase \in {"streaming", "held"}
    /\ buffer # <<>>
    /\ phase' = "failed"
    /\ UNCHANGED <<via, archive, rest, buffer, written, received>>

Sent ==
    /\ phase = "streaming"
    /\ via = "rpc"
    /\ buffer = <<>>
    /\ phase' = "done"
    /\ UNCHANGED <<via, archive, rest, buffer, written, received>>

\* GetChartFiles answers with what it selects from the parsed archive.
AnswerFiles ==
    /\ phase = "streaming"
    /\ via = "http"
    /\ phase' = "done"
    /\ UNCHANGED <<via, archive, rest, buffer, written, received>>

\* The archive does not parse, or the file type is none it knows.
RefuseFiles ==
    /\ phase = "streaming"
    /\ via = "http"
    /\ phase' = "failed"
    /\ UNCHANGED <<via, archive, rest, buffer, written, received>>

\* The client has its answer, and the handler's buffers are gone.
Close == phase \in {"done", "failed"} /\ Forget

Progress ==
    \/ \E n \in Pieces : Copy(n) \/ CopyRefused(n)
    \/ Loaded \/ SendChunk \/ Sent \/ AnswerFiles \/ Close

Failure == LoadFails \/ SendFails \/ RefuseFiles

StreamNext ==
    \/ \E v \in Protocols : OpenFails(v) \/ \E a \in Archives : Open(a, v) \/ Pull(a, v)
    \/ Stall \/ Resume \/ Hold \/ Release
    \/ Progress \/ Failure

StreamSpec == StreamInit /\ [][StreamNext]_streamVars

\* Go schedules the handler.  A repository that sends again has sent
\* something and a client that reads again has made room, however often each
\* stops: the handler gets on before the next stop.  Neither has to go on.
StreamFairSpec == StreamSpec /\ SF_streamVars(Progress)

-----------------------------------------------------------------------------
(* Every variable stays in the range its declaration in the code gives it. *)
StreamTypeOK ==
    /\ phase \in Phases
    /\ via \in Protocols
    /\ archive \in Archives \cup {<<>>}
    /\ rest \in Seq(Nat)
    /\ buffer \in Seq(Nat)
    /\ written \in Nat
    /\ received \in Seq(Nat)

(***************************************************************************)
(* A gRPC download that succeeds has delivered the archive, every byte     *)
(* once and in order; until then, and when it fails, the client has the    *)
(* beginning of it, and nothing at all if the archive could not be loaded  *)
(* in full: GetHelmChart sends only what LoadChartBytes returned.          *)
(***************************************************************************)
DeliveredInOrder ==
    /\ phase = "done" /\ via = "rpc" => received = archive
    /\ received # <<>> => rest = <<>> /\ archive = received \o buffer

(***************************************************************************)
(* An archive a repository serves over HTTP takes no more than Limit bytes *)
(* of memory, however long it is: the write that would exceed the limit is *)
(* refused as a whole (limitedBuffer.Write).                               *)
(***************************************************************************)
BufferBounded == phase \in {"loading", "stalled"} => Len(buffer) <= Limit

(***************************************************************************)
(* A download ends, whatever the length of the body, however the peers     *)
(* dawdle and whenever the client leaves, with two exceptions: from some   *)
(* point on the repository sends nothing (LoadData bounds only the TLS     *)
(* handshake), or the client, still connected, reads nothing (stream.Send  *)
(* has no deadline).  Nothing else keeps the handler.                      *)
(***************************************************************************)
DownloadsEnd ==
    phase # "idle" ~> phase = "idle" \/ [](phase = "stalled") \/ [](phase = "held")

-----------------------------------------------------------------------------
(* The strengthening that makes the safety properties inductive. *)
Accounted ==
    /\ archive = received \o buffer \o rest
    /\ phase \in {"streaming", "held", "done"} => rest = <<>>
    /\ phase \in {"idle", "loading", "stalled"} => received = <<>>
    /\ phase \in {"loading", "stalled"} => written = Len(buffer) /\ written <= Limit
    /\ phase = "done" /\ via = "rpc" => buffer = <<>>
    /\ received # <<>> => rest = <<>>

StreamInv == StreamTypeOK /\ Accounted
=============================================================================
