------------------------- MODULE ChartStreamProofs --------------------------
(***************************************************************************)
(* Theorems about ChartStream, for any archives, limit, size of a message  *)
(* and reads of the response body.                                         *)
(***************************************************************************)
EXTENDS ChartStream, SequenceTheorems, TLAPS

\* A sequence cut in two.
LEMMA Cut ==
  ASSUME NEW s \in Seq(Nat), NEW n \in 0 .. Len(s)
  PROVE  /\ Ahead(s, n) \in Seq(Nat) /\ Behind(s, n) \in Seq(Nat)
         /\ Len(Ahead(s, n)) = n
         /\ Ahead(s, n) \o Behind(s, n) = s
<1>1. Len(s) \in Nat /\ n \in Int /\ n + 1 \in Int /\ \A i \in 1 .. Len(s) : s[i] \in Nat
  OBVIOUS
<1>2. SubSeq(s, 1, n) \in Seq(Nat) /\ Len(SubSeq(s, 1, n)) = n
  <2>1. \A i \in 1 .. n : s[i] \in Nat
    BY <1>1
  <2>2. Len(SubSeq(s, 1, n)) = IF 1 <= n THEN n - 1 + 1 ELSE 0
    BY <1>1, <2>1, SubSeqProperties
  <2> QED
    BY <1>1, <2>1, <2>2, SubSeqProperties
<1>3. SubSeq(s, n + 1, Len(s)) \in Seq(Nat)
  <2>1. \A i \in n + 1 .. Len(s) : s[i] \in Nat
    BY <1>1
  <2> QED
    BY <1>1, <2>1, SubSeqProperties
<1>4. SubSeq(s, 1, n) \o SubSeq(s, n + 1, Len(s)) = s
  <2>1. 1 \in 1 .. Len(s) + 1 /\ n \in 1 - 1 .. Len(s) /\ Len(s) \in n .. Len(s)
    BY <1>1
  <2>2. SubSeq(s, 1, n) \o SubSeq(s, n + 1, Len(s)) = SubSeq(s, 1, Len(s))
    BY <2>1, ConcatAdjacentSubSeq
  <2> QED
    BY <2>2, SubSeqFull
<1> QED
  BY <1>2, <1>3, <1>4 DEF Ahead, Behind

\* It does not matter where three sequences are joined first.
LEMMA Regrouped ==
  ASSUME NEW S, NEW s \in Seq(S), NEW u \in Seq(S), NEW v \in Seq(S)
  PROVE  (s \o u) \o v = s \o (u \o v)
BY ConcatAssociative

LEMMA RegroupedBytes == \A s, u, v \in Seq(Nat) : (s \o u) \o v = s \o (u \o v)
<1> DEFINE S == Nat
<1>1. \A s, u, v \in Seq(S) : (s \o u) \o v = s \o (u \o v)
  <2> HIDE DEF S
  <2> QED
    BY Regrouped
<1> QED
  BY <1>1

\* What a piece moves from one sequence to the next.
LEMMA Moved ==
  ASSUME NEW s \in Seq(Nat), NEW t \in Seq(Nat), NEW n \in 0 .. Len(t)
  PROVE  /\ s \o Ahead(t, n) \in Seq(Nat) /\ Behind(t, n) \in Seq(Nat)
         /\ Len(s \o Ahead(t, n)) = Len(s) + n
         /\ (s \o Ahead(t, n)) \o Behind(t, n) = s \o t
<1>1. /\ Ahead(t, n) \in Seq(Nat) /\ Behind(t, n) \in Seq(Nat)
      /\ Len(Ahead(t, n)) = n /\ Ahead(t, n) \o Behind(t, n) = t
  BY Cut
<1>2. s \o Ahead(t, n) \in Seq(Nat) /\ Len(s \o Ahead(t, n)) = Len(s) + n
  BY <1>1, ConcatProperties
<1>3. (s \o Ahead(t, n)) \o Behind(t, n) = s \o (Ahead(t, n) \o Behind(t, n))
  BY <1>1, RegroupedBytes, Zenon
<1> QED
  BY <1>1, <1>2, <1>3

LEMMA InitStreamInv == StreamInit => StreamInv
BY LimitAssumption DEF StreamInit, StreamInv, StreamTypeOK, Accounted, Phases, Protocols

LEMMA StepStreamInv == StreamInv /\ [StreamNext]_streamVars => StreamInv'
<1> SUFFICES ASSUME StreamInv, [StreamNext]_streamVars PROVE StreamInv'
  OBVIOUS
<1>0. StreamTypeOK /\ Accounted
  BY DEF StreamInv
<1> USE DEF StreamInv, Phases, Protocols
<1>1. ASSUME NEW v \in Protocols, OpenFails(v) PROVE StreamInv'
  BY <1>0, <1>1 DEF OpenFails, StreamTypeOK, Accounted
<1>2. ASSUME NEW v \in Protocols, NEW a \in Archives, Open(a, v) PROVE StreamInv'
  <2>1. a \in Seq(Nat)
    BY ArchivesAssumption
  <2>2. a = (<<>> \o <<>>) \o a
    BY <2>1, ConcatEmptySeq, EmptySeq
  <2>3. StreamTypeOK'
    BY <1>0, <1>2, <2>1 DEF Open, StreamTypeOK
  <2>4. Accounted'
    BY <1>2, <2>2, LimitAssumption DEF Open, Accounted
  <2> QED
    BY <2>3, <2>4
<1>3. ASSUME NEW v \in Protocols, NEW a \in Archives, Pull(a, v) PROVE StreamInv'
  <2>1. a \in Seq(Nat)
    BY ArchivesAssumption
  <2>2. a = (<<>> \o a) \o <<>>
    BY <2>1, ConcatEmptySeq, EmptySeq
  <2>3. StreamTypeOK'
    BY <1>0, <1>3, <2>1 DEF Pull, StreamTypeOK
  <2>4. Accounted'
    BY <1>3, <2>2 DEF Pull, Accounted
  <2> QED
    BY <2>3, <2>4
<1>4. CASE Stall \/ Resume \/ Hold \/ Release \/ Loaded \/ Sent
  BY <1>0, <1>4 DEF Stall, Resume, Hold, Release, Loaded, Sent, StreamTypeOK, Accounted
<1>5. CASE Failure
  BY <1>0, <1>5 DEF Failure, LoadFails, SendFails, RefuseFiles, StreamTypeOK, Accounted
<1>6. ASSUME NEW n \in Pieces, CopyRefused(n) PROVE StreamInv'
  BY <1>0, <1>6 DEF CopyRefused, StreamTypeOK, Accounted
<1>7. ASSUME NEW n \in Pieces, Copy(n) PROVE StreamInv'
  <2>1. n \in 0 .. Len(rest) /\ n \in Nat
    BY <1>0, <1>7, PiecesAssumption DEF Copy, StreamTypeOK
  <2>2. /\ buffer' \in Seq(Nat) /\ rest' \in Seq(Nat)
        /\ Len(buffer') = Len(buffer) + n
        /\ buffer' \o rest' = buffer \o rest
    BY <1>0, <1>7, <2>1, Moved DEF Copy, StreamTypeOK
  <2>3. received = <<>> /\ received' = <<>>
    BY <1>0, <1>7 DEF Copy, Accounted
  <2>4. archive' = (<<>> \o buffer') \o rest'
    BY <1>0, <1>7, <2>2, <2>3, ConcatEmptySeq DEF Copy, Accounted, StreamTypeOK
  <2>5. StreamTypeOK'
    BY <1>0, <1>7, <2>1, <2>2 DEF Copy, StreamTypeOK
  <2>6. Accounted'
    BY <1>0, <1>7, <2>2, <2>3, <2>4 DEF Copy, Accounted
  <2> QED
    BY <2>5, <2>6
<1>8. CASE SendChunk
  <2>1. ChunkLen \in 0 .. Len(buffer)
    BY <1>0, ChunkAssumption DEF ChunkLen, StreamTypeOK
  <2>2. /\ received' \in Seq(Nat) /\ buffer' \in Seq(Nat)
        /\ received' \o buffer' = received \o buffer
    BY <1>0, <1>8, <2>1, Moved DEF SendChunk, StreamTypeOK
  <2>3. StreamTypeOK'
    BY <1>0, <1>8, <2>2 DEF SendChunk, StreamTypeOK
  <2>4. Accounted'
    BY <1>0, <1>8, <2>2 DEF SendChunk, Accounted
  <2> QED
    BY <2>3, <2>4
<1>9. CASE AnswerFiles
  BY <1>0, <1>9 DEF AnswerFiles, StreamTypeOK, Accounted
<1>10. CASE Close
  BY <1>10, ConcatEmptySeq, EmptySeq DEF Close, Forget, StreamTypeOK, Accounted
<1>11. CASE UNCHANGED streamVars
  BY <1>0, <1>11 DEF streamVars, StreamTypeOK, Accounted
<1> QED
  BY <1>1, <1>2, <1>3, <1>4, <1>5, <1>6, <1>7, <1>8, <1>9, <1>10, <1>11
     DEF StreamNext, Progress

LEMMA StreamInvariance == StreamSpec => []StreamInv
  BY InitStreamInv, StepStreamInv, PTL DEF StreamSpec

(***************************************************************************)
(* Every variable stays in its range, for archives of any length.          *)
(***************************************************************************)
THEOREM StreamTypes == StreamSpec => []StreamTypeOK
<1>1. StreamInv => StreamTypeOK
  BY DEF StreamInv
<1> QED
  BY <1>1, StreamInvariance, PTL

(***************************************************************************)
(* Whatever the archive, the reads and the size of a message, the client   *)
(* has the archive when the download is done, and its beginning before.    *)
(***************************************************************************)
THEOREM ChunksInOrder == StreamSpec => []DeliveredInOrder
<1>1. ASSUME StreamInv PROVE DeliveredInOrder
  <2>0. StreamTypeOK /\ Accounted
    BY <1>1 DEF StreamInv
  <2>1. rest = <<>> => archive = received \o buffer
    BY <2>0, ConcatEmptySeq, ConcatProperties DEF StreamTypeOK, Accounted
  <2>2. phase = "done" /\ via = "rpc" => received = archive
    BY <2>0, <2>1, ConcatEmptySeq DEF StreamTypeOK, Accounted
  <2> QED
    BY <2>0, <2>1, <2>2 DEF Accounted, DeliveredInOrder
<1> QED
  BY <1>1, StreamInvariance, PTL

(***************************************************************************)
(* However long the response body, the buffer stays within the limit.      *)
(***************************************************************************)
THEOREM BufferWithinLimit == StreamSpec => []BufferBounded
<1>1. StreamInv => BufferBounded
  BY DEF StreamInv, StreamTypeOK, Accounted, BufferBounded
<1> QED
  BY <1>1, StreamInvariance, PTL
=============================================================================
