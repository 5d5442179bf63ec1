-------------------------- MODULE LineNotifyProofs --------------------------
(***************************************************************************)
(* Proofs about LineNotify, for any number of calls and any mix of         *)
(* messages, stickers and images: types, framing of requests, and          *)
(* ownership of the answers that count as success.                         *)
(***************************************************************************)
EXTENDS LineNotify, SequenceTheorems, TLAPS

-----------------------------------------------------------------------------
(* Sequences.                                                              *)

(* What is left of a stream when a request of n chunks was taken off it.   *)
LEMMA RequestTaken ==
  ASSUME NEW s \in Seq(Chunk), NEW n \in 1 .. Len(s)
  PROVE  /\ SubSeq(s, n + 1, Len(s)) \in Seq(Chunk)
         /\ Len(SubSeq(s, n + 1, Len(s))) = Len(s) - n
         /\ \A i \in 1 .. Len(s) - n : SubSeq(s, n + 1, Len(s))[i] = s[i + n]
         /\ s[n] \in Chunk
<1> DEFINE m == Len(s)
<1> DEFINE t == SubSeq(s, n + 1, m)
<1>1. /\ m \in Nat /\ n \in 1 .. m /\ s[n] \in Chunk
      /\ \A i \in n + 1 .. m : s[i] \in Chunk
  BY LenProperties, ElementOfSeq
<1>2. CASE n < m
  <2>1. /\ t \in Seq(Chunk) /\ Len(t) = m - (n + 1) + 1
        /\ \A i \in 1 .. m - (n + 1) + 1 : t[i] = s[n + 1 + i - 1]
    <3>1. n + 1 \in 1 .. m + 1 /\ n + 1 <= m /\ m \in n .. m
      BY <1>1, <1>2
    <3> QED BY <1>1, <3>1, SubSeqProperties
  <2> HIDE DEF t, m
  <2>2. /\ m - (n + 1) + 1 = m - n
        /\ \A i \in 1 .. m - n : n + 1 + i - 1 = i + n
    BY <1>1
  <2>3. t \in Seq(Chunk) /\ Len(t) = m - n /\ \A i \in 1 .. m - n : t[i] = s[i + n]
    BY <2>1, <2>2
  <2> QED BY <1>1, <2>3 DEF t, m
<1>3. CASE n = m
  <2>1. t = <<>>
    BY <1>1, <1>3, SubSeqEmpty
  <2>2. Len(<<>>) = 0 /\ <<>> \in Seq(Chunk)
    BY EmptySeq
  <2>3. m - n = 0 /\ 1 .. 0 = {}
    BY <1>1, <1>3
  <2> QED BY <1>1, <2>1, <2>2, <2>3
<1> QED BY <1>1, <1>2, <1>3

(* An answer is a sequence of pieces that accepts as its verdict does.     *)
LEMMA AnswerAppended ==
  ASSUME NEW w \in Seq(Piece), NEW verdict \in Verdict
  PROVE  /\ w \o Answers(verdict) \in Seq(Piece) /\ w \o Answers(verdict) # <<>>
         /\ Accepts(w \o Answers(verdict)) => Accepts(w) \/ verdict = "accepted"
<1>1. /\ Answers(verdict) \in Seq(Piece) /\ Len(Answers(verdict)) = 3
      /\ \A i \in 1 .. 3 : Answers(verdict)[i] = "accepted" => verdict = "accepted"
  <2>1. /\ "start" \in Piece /\ verdict \in Piece /\ "tail" \in Piece
        /\ verdict # "start" /\ verdict # "tail"
    BY DEF Piece, Verdict
  <2> QED BY <2>1 DEF Answers
<1>2. /\ w \o Answers(verdict) \in Seq(Piece)
      /\ Len(w \o Answers(verdict)) = Len(w) + 3
      /\ \A i \in 1 .. Len(w) + 3 :
           (w \o Answers(verdict))[i] = IF i <= Len(w) THEN w[i] ELSE Answers(verdict)[i - Len(w)]
  <2> DEFINE a == Answers(verdict)
  <2>1. a \in Seq(Piece) /\ Len(a) = 3
    BY <1>1
  <2> HIDE DEF a
  <2>2. /\ w \o a \in Seq(Piece)
        /\ Len(w \o a) = Len(w) + Len(a)
        /\ \A i \in 1 .. Len(w) + Len(a) : (w \o a)[i] = IF i <= Len(w) THEN w[i] ELSE a[i - Len(w)]
    BY <2>1, ConcatProperties
  <2> QED BY <2>1, <2>2 DEF a
<1>3. ASSUME Accepts(w \o Answers(verdict)) PROVE Accepts(w) \/ verdict = "accepted"
  <2>1. PICK i \in 1 .. Len(w) + 3 : (w \o Answers(verdict))[i] = "accepted"
    BY <1>2, <1>3 DEF Accepts
  <2>2. CASE i <= Len(w)
    BY <1>2, <2>1, <2>2 DEF Accepts
  <2>3. CASE ~(i <= Len(w))
    <3>1. i - Len(w) \in 1 .. 3
      BY <2>1, <2>3
    <3> QED BY <1>1, <1>2, <2>1, <2>3, <3>1
  <2> QED BY <2>2, <2>3
<1>4. w \o Answers(verdict) # <<>>
  <2>1. Len(w) \in Nat /\ Len(w \o Answers(verdict)) = Len(w) + 3 /\ Len(<<>>) = 0
    BY <1>2, LenProperties, EmptySeq
  <2>2. Len(w) + 3 # 0
    BY <2>1
  <2> QED BY ONLY <2>1, <2>2
<1> QED BY <1>2, <1>3, <1>4

(* Reading a piece off a sequence leaves no new acceptance in it.          *)
LEMMA PieceTaken ==
  ASSUME NEW w \in Seq(Piece), w # <<>>
  PROVE  /\ Head(w) \in Piece /\ Tail(w) \in Seq(Piece)
         /\ Accepts(Tail(w)) => Accepts(w)
         /\ Head(w) = "accepted" => Accepts(w)
<1>1. /\ Head(w) \in Piece /\ Tail(w) \in Seq(Piece) /\ Len(Tail(w)) = Len(w) - 1
      /\ \A i \in 1 .. Len(Tail(w)) : Tail(w)[i] = w[i + 1]
  BY HeadTailProperties
<1>2. Head(w) = w[1] /\ 1 \in 1 .. Len(w)
  OBVIOUS
<1> QED BY <1>1, <1>2 DEF Accepts

(* A piece that arrives accepts only if it is an acceptance itself.        *)
LEMMA PieceArrived ==
  ASSUME NEW w \in Seq(Piece), NEW e \in Piece
  PROVE  /\ Append(w, e) \in Seq(Piece)
         /\ Accepts(Append(w, e)) => Accepts(w) \/ e = "accepted"
BY DEF Accepts

LEMMA NothingAccepts == ~Accepts(<<>>)
BY DEF Accepts

-----------------------------------------------------------------------------
(* Types.                                                                  *)

(* A write leads to the next one, and never counts the pieces below zero:  *)
(* the loop over the image stops at its last piece, unless it has none.    *)
LEMMA Wrote ==
  ASSUME TypeOK, pc \in Writing, NextWrite
  PROVE  /\ pc' \in {"imageStream", "image", "payload", "stream"}
         /\ left' \in 0 .. MaxPieces
         /\ pc' = "image" => left' # 0
         /\ pc = "payload" <=> pc' = "stream"
         /\ pc # "payload" => pc' \in Writing \cup {"imageStream"}
<1>1. left \in Nat /\ left <= MaxPieces /\ MaxPieces \in Nat
  BY CallAssumption DEF TypeOK
<1>2. CASE pc = "text"
  BY <1>1, <1>2 DEF NextWrite, Writing
<1>3. CASE pc = "image"
  <2>1. left # 0 /\ left - 1 \in 0 .. MaxPieces /\ (left # 1 => left - 1 # 0)
    BY <1>1, <1>3 DEF TypeOK
  <2> QED BY <1>3, <2>1 DEF NextWrite, Writing
<1>4. CASE pc = "payload"
  BY <1>1, <1>4 DEF NextWrite, Writing
<1> QED BY <1>2, <1>3, <1>4 DEF Writing

(* Headers, parts and ends of messages are chunks; an end is that of a     *)
(* text longer than a TLS record or the whole message's.                   *)
LEMMA Written ==
  ASSUME call \in Call, NEW part \in {"header", "part", LastPart}
  PROVE  /\ [call |-> call, part |-> part] \in Chunk
         /\ part \in Ends <=> part = LastPart
<1>1. part \in {"header", "part", IF call \in Long THEN "short" ELSE "message"}
  BY DEF LastPart
<1>2. CASE call \in Long
  BY <1>1, <1>2 DEF Chunk, Ends, LastPart
<1>3. CASE call \notin Long
  BY <1>1, <1>3 DEF Chunk, Ends, LastPart
<1> QED BY <1>2, <1>3

(* A chunk is of some call, and a short one of a call with a long text.    *)
LEMMA ChunkOf ==
  ASSUME NEW e \in Chunk
  PROVE  /\ e.call \in Call
         /\ e.part = "short" => e.call \in Long
         /\ e.part = "message" => e.call \notin Long
BY CallAssumption DEF Chunk, Call

(* Whatever the network does, each call ends with one of four codes, and   *)
(* socket, pieces and chunks are what they can be.                         *)
THEOREM TypeCorrect == Spec => []TypeOK
<1>1. Init => TypeOK
  <2>1. /\ <<>> \in Seq(Piece) /\ <<>> \in Seq(Status) /\ <<>> \in Seq(Chunk)
    BY EmptySeq
  <2>2. 0 \in 0 .. MaxCalls /\ 0 \in 0 .. MaxPieces /\ {} \subseteq Call
    BY CallAssumption
  <2> QED BY <2>1, <2>2 DEF Init, TypeOK
<1>2. TypeOK /\ [Next]_vars => TypeOK'
  <2> SUFFICES ASSUME TypeOK, [Next]_vars PROVE TypeOK'
    OBVIOUS
  <2> USE CallAssumption DEF TypeOK, network, Call, Status, Return
  <2>0. CASE NoFile
    <3>1. \A status \in Status : Append(result, status) \in Seq(Status)
      OBVIOUS
    <3>2. call' \in 0 .. MaxCalls /\ left' \in 0 .. MaxPieces /\ clean' \in BOOLEAN
      <4>1. call \in Int /\ 0 <= call /\ call < MaxCalls /\ MaxCalls \in Nat
        BY <2>0 DEF NoFile
      <4>2. call + 1 \in 0 .. MaxCalls
        BY ONLY <4>1
      <4>3. 0 \in 0 .. MaxPieces
        BY CallAssumption
      <4> QED BY <2>0, <4>2, <4>3 DEF NoFile
    <3>3. pc' \in {"idle", "crashed"} /\ result' \in Seq(Status) /\ call' \in Call
      BY <2>0, <3>1 DEF NoFile
    <3> QED BY <2>0, <3>2, <3>3 DEF NoFile
  <2>1. CASE Begin
    BY <2>1 DEF Begin
  <2>2. CASE Reuse
    BY <2>2 DEF Reuse
  <2>3. CASE Open
    BY <2>3 DEF Open
  <2>4. CASE Refuse
    <3>1. pc' \in {"payload", "idle"} /\ result' \in Seq(Status)
      <4>1. HeaderFailed
        BY <2>4 DEF Refuse
      <4>2. Append(result, "Refused") \in Seq(Status)
        OBVIOUS
      <4> QED BY <4>1, <4>2 DEF HeaderFailed
    <3>2. <<>> \in Seq(Piece) /\ <<>> \in Seq(Chunk)
      BY EmptySeq
    <3> QED BY <2>4, <3>1, <3>2 DEF Refuse, Stop
  <2>5. CASE SendHeader
    <3>1. [call |-> call, part |-> "header"] \in Chunk
      BY <2>5, Written DEF SendHeader
    <3> QED BY <2>5, <3>1 DEF SendHeader, Write
  <2>6. CASE FailHeader
    <3>1. pc' \in {"payload", "idle"} /\ result' \in Seq(Status)
      <4>1. HeaderFailed
        BY <2>6 DEF FailHeader
      <4>2. Append(result, "Refused") \in Seq(Status)
        OBVIOUS
      <4> QED BY <4>1, <4>2 DEF HeaderFailed
    <3>2. <<>> \in Seq(Piece)
      BY EmptySeq
    <3> QED BY <2>6, <3>1, <3>2 DEF FailHeader, Stop
  <2>7. CASE SendPayload
    <3>1. \A part \in {"part", LastPart} : [call |-> call, part |-> part] \in Chunk
      BY <2>7, Written DEF SendPayload, Writing
    <3>2. stream' \in Seq(Chunk)
      BY <2>7, <3>1 DEF SendPayload, Write
    <3>3. /\ pc' \in {"imageStream", "image", "payload", "stream"} /\ left' \in 0 .. MaxPieces
          /\ pc' = "image" => left' # 0
      BY <2>7, Wrote DEF SendPayload
    <3> QED BY <2>7, <3>2, <3>3 DEF SendPayload, Writing
  <2>8. CASE FailPayload
    <3>1. /\ pc' \in {"imageStream", "image", "payload", "stream"} /\ left' \in 0 .. MaxPieces
          /\ pc' = "image" => left' # 0
      BY <2>8, Wrote DEF FailPayload
    <3>2. <<>> \in Seq(Piece)
      BY EmptySeq
    <3> QED BY <2>8, <3>1, <3>2 DEF FailPayload, Stop, Writing
  <2>19. CASE GetImageStream
    BY <2>19 DEF GetImageStream, Probed
  <2>9. CASE GetStream
    BY <2>9 DEF GetStream, Probed
  <2>10. CASE WaitEnds
    BY <2>10 DEF WaitEnds
  <2>11. CASE WaitFails
    BY <2>11 DEF WaitFails, Probed
  <2>12. CASE ReadPiece
    BY <2>12, PieceTaken DEF ReadPiece, Available
  <2>13. CASE ReadTimesOut
    BY <2>13, PieceTaken DEF ReadTimesOut, Available
  <2>14. CASE ReadEnds
    BY <2>14 DEF ReadEnds, Probed
  <2>15. CASE Answer
    <3>1. PICK n \in 1 .. Len(stream), verdict \in Verdict :
             /\ stream' = SubSeq(stream, n + 1, Len(stream))
             /\ accepted' = IF verdict = "accepted" THEN accepted \cup {stream[n].call} ELSE accepted
             /\ wire' = wire \o Answers(verdict)
      BY <2>15 DEF Answer
    <3>2. stream' \in Seq(Chunk) /\ stream[n] \in Chunk
      BY <3>1, RequestTaken
    <3>3. accepted' \subseteq Call
      BY <3>1, <3>2, ChunkOf
    <3>4. wire' \in Seq(Piece)
      BY <3>1, AnswerAppended
    <3> QED BY <2>15, <3>2, <3>3, <3>4 DEF Answer, client
  <2>20. CASE Misread
    <3>1. PICK n \in 1 .. Len(stream), verdict \in Verdict :
             /\ accepted' = IF verdict = "accepted" THEN accepted \cup {stream[n].call} ELSE accepted
             /\ \/ /\ \E m \in n + 1 .. Len(stream) : stream' = SubSeq(stream, m + 1, Len(stream))
                   /\ wire' = wire \o Answers(verdict)
                   /\ UNCHANGED peer
                \/ /\ peer' = "closed" /\ stream' = <<>>
                   /\ wire' = wire \o Answers(verdict) \o Answers("rejected")
      BY <2>20 DEF Misread
    <3>2. stream[n] \in Chunk
      BY <3>1, RequestTaken
    <3>3. accepted' \subseteq Call
      BY <3>1, <3>2, ChunkOf
    <3>4. stream' \in Seq(Chunk)
      <4>1. Len(stream) \in Nat /\ n \in Nat
        BY LenProperties
      <4>2. \A m \in n + 1 .. Len(stream) : m \in 1 .. Len(stream)
        BY <4>1
      <4> QED BY <3>1, <4>2, RequestTaken, EmptySeq
    <3>5. wire' \in Seq(Piece)
      <4>1. wire \o Answers(verdict) \in Seq(Piece)
        BY <3>1, AnswerAppended
      <4>2. "rejected" \in Verdict
        BY DEF Verdict
      <4> DEFINE w == wire \o Answers(verdict)
      <4>3. w \o Answers("rejected") \in Seq(Piece)
        <5> HIDE DEF w
        <5>1. w \in Seq(Piece)
          BY <4>1 DEF w
        <5> QED BY ONLY <4>2, <5>1, AnswerAppended
      <4> QED BY <3>1, <4>1, <4>3
    <3>6. peer' \in {"up", "closed", "gone"}
      BY <3>1
    <3> QED BY <2>20, <3>3, <3>4, <3>5, <3>6 DEF Misread, client
  <2>16. CASE Arrive
    BY <2>16, PieceTaken, PieceArrived DEF Arrive
  <2>17. CASE Break
    <3>1. wire' \in Seq(Piece) /\ stream' \in Seq(Chunk)
      BY <2>17, EmptySeq DEF Break
    <3> QED BY <2>17, <3>1 DEF Break, client
  <2>18. CASE UNCHANGED vars
    BY <2>18 DEF vars, client
  <2> QED BY <2>0, <2>1, <2>2, <2>3, <2>4, <2>5, <2>6, <2>7, <2>8, <2>9, <2>10, <2>11, <2>12,
             <2>13, <2>14, <2>15, <2>16, <2>17, <2>18, <2>19, <2>20
         DEF Next, Client, Network, Done
<1> QED BY <1>1, <1>2, PTL DEF Spec

-----------------------------------------------------------------------------
(* Framing.                                                                *)

(* A chunk appended to a stream must be a header after whole requests, and *)
(* a part of the same call's message otherwise: send_request_header, then  *)
(* http_sendRequest.                                                       *)
LEMMA ChunkAppended ==
  ASSUME NEW s \in Seq(Chunk), Framed(s), NEW e \in Chunk,
         IF s = <<>> \/ s[Len(s)].part \in Ends
           THEN e.part = "header"
           ELSE e.part # "header" /\ e.call = s[Len(s)].call
  PROVE  /\ Append(s, e) \in Seq(Chunk) /\ Framed(Append(s, e))
         /\ Len(Append(s, e)) = Len(s) + 1 /\ Append(s, e)[Len(s) + 1] = e
         /\ Append(s, e) # <<>>
<1> DEFINE t == Append(s, e)
<1> DEFINE n == Len(s)
<1>1. /\ n \in Nat /\ t \in Seq(Chunk) /\ Len(t) = n + 1 /\ t[n + 1] = e
      /\ \A i \in 1 .. n : t[i] = s[i]
      /\ n = 0 <=> s = <<>>
  BY LenProperties
<1>2. Framed(t)
  <2> SUFFICES ASSUME NEW i \in 1 .. n + 1
               PROVE  IF i = 1 \/ t[i - 1].part \in Ends
                        THEN t[i].part = "header"
                        ELSE t[i].part # "header" /\ t[i].call = t[i - 1].call
    BY <1>1 DEF Framed
  <2>1. IF n = 0 \/ s[n].part \in Ends
          THEN e.part = "header" ELSE e.part # "header" /\ e.call = s[n].call
    BY <1>1
  <2>2. \A j \in 1 .. n : IF j = 1 \/ s[j - 1].part \in Ends
                            THEN s[j].part = "header"
                            ELSE s[j].part # "header" /\ s[j].call = s[j - 1].call
    BY DEF Framed
  <2> HIDE DEF t, n
  <2>3. CASE i = n + 1
    <3>1. i # 1 => n \in 1 .. n /\ i - 1 = n
      BY <1>1, <2>3
    <3>2. i = 1 <=> n = 0
      BY <1>1, <2>3
    <3> QED BY <1>1, <2>1, <2>3, <3>1, <3>2
  <2>4. CASE i \in 1 .. n
    <3>1. i # 1 => i - 1 \in 1 .. n
      BY <1>1, <2>4
    <3> QED BY <1>1, <2>2, <2>4, <3>1
  <2> QED BY <1>1, <2>3, <2>4
<1>3. t # <<>>
  <2>1. Len(<<>>) = 0 /\ Len(t) # 0
    BY <1>1
  <2> QED BY <2>1
<1> QED BY <1>1, <1>2, <1>3

(* Taking a whole request off the front keeps the rest framed, and the     *)
(* half of a request that may be at the end.                               *)
LEMMA RequestTakenFramed ==
  ASSUME NEW s \in Seq(Chunk), Framed(s), NEW n \in 1 .. Len(s), s[n].part \in Ends
  PROVE  /\ Framed(SubSeq(s, n + 1, Len(s)))
         /\ SubSeq(s, n + 1, Len(s)) = <<>> => s[Len(s)].part \in Ends
         /\ SubSeq(s, n + 1, Len(s)) # <<>> =>
              SubSeq(s, n + 1, Len(s))[Len(SubSeq(s, n + 1, Len(s)))] = s[Len(s)]
<1> DEFINE t == SubSeq(s, n + 1, Len(s))
<1> DEFINE k == Len(s) - n
<1>1. /\ k \in Nat /\ n \in Nat /\ Len(s) = k + n /\ t \in Seq(Chunk) /\ Len(t) = k
      /\ \A i \in 1 .. k : t[i] = s[i + n]
  BY RequestTaken, LenProperties
<1>2. \A j \in 1 .. k + n : IF j = 1 \/ s[j - 1].part \in Ends
                              THEN s[j].part = "header"
                              ELSE s[j].part # "header" /\ s[j].call = s[j - 1].call
  BY <1>1 DEF Framed
<1>3. Framed(t)
  <2> SUFFICES ASSUME NEW i \in 1 .. k
               PROVE  IF i = 1 \/ t[i - 1].part \in Ends
                        THEN t[i].part = "header"
                        ELSE t[i].part # "header" /\ t[i].call = t[i - 1].call
    BY <1>1 DEF Framed
  <2> HIDE DEF t, k
  <2>1. i + n \in 1 .. k + n /\ i + n # 1 /\ (i + n) - 1 = (i - 1) + n
    BY <1>1
  <2>2. i # 1 => i - 1 \in 1 .. k
    BY <1>1
  <2>3. i = 1 => (i - 1) + n = n
    BY <1>1
  <2> QED BY <1>1, <1>2, <2>1, <2>2, <2>3
<1>4. t = <<>> <=> k = 0
  <2> HIDE DEF t, k
  <2>1. t = <<>> <=> Len(t) = 0
    BY <1>1, EmptySeq
  <2> QED BY <1>1, <2>1
<1>5. t = <<>> => s[Len(s)].part \in Ends
  <2> HIDE DEF t, k
  <2>1. k = 0 => Len(s) = n
    BY <1>1
  <2> QED BY <1>4, <2>1
<1>6. t # <<>> => t[Len(t)] = s[Len(s)]
  <2> HIDE DEF t, k
  <2>1. k # 0 => k \in 1 .. k /\ k + n = Len(s)
    BY <1>1
  <2> QED BY <1>1, <1>4, <2>1
<1> QED BY <1>3, <1>5, <1>6

-----------------------------------------------------------------------------
(* The inductive invariant.                                                *)

LEMMA InvInit == Init => LineInv
BY NothingAccepts DEF Init, LineInv, RequestsAreFramed, Framed, HeaderIsOpen, AnswersAreOwn

(* The steps of a call up to the request being out: connecting leaves no   *)
(* half request and no old answer behind, and a write that fails closes    *)
(* the connection.                                                         *)
LEMMA InvSending ==
  ASSUME TypeOK, LineInv,
         \/ Begin \/ NoFile \/ Reuse \/ Open \/ Refuse \/ SendHeader \/ FailHeader
         \/ SendPayload \/ FailPayload \/ GetImageStream
  PROVE  LineInv'
<1> USE DEF LineInv
<1>1. CASE Begin
  BY <1>1 DEF Begin, network, Writing, RequestsAreFramed, HeaderIsOpen, AnswersAreOwn
<1>2. CASE Reuse
  <2>1. RequestsAreFramed' /\ HeaderIsOpen'
    BY <1>2 DEF Reuse, network, Writing, RequestsAreFramed, HeaderIsOpen
  <2>2. AnswersAreOwn'
    <3>1. clean' => wire' = <<>> /\ stream' = <<>>
      BY <1>2 DEF Reuse, network
    <3> QED BY <1>2, <3>1, NothingAccepts DEF Reuse, AnswersAreOwn
  <2> QED BY <2>1, <2>2
<1>3. CASE Open
  BY <1>3, NothingAccepts DEF Open, Writing, RequestsAreFramed, Framed, HeaderIsOpen, AnswersAreOwn
<1>4. CASE Refuse
  <2>1. pc' \in {"payload", "idle"}
    BY <1>4 DEF Refuse, HeaderFailed, Return
  <2> QED BY <1>4, <2>1, NothingAccepts
          DEF Refuse, Stop, RequestsAreFramed, Framed, HeaderIsOpen, AnswersAreOwn
<1>5. CASE SendHeader
  <2> DEFINE header == [call |-> call, part |-> "header"]
  <2>1. /\ header \in Chunk /\ header.part = "header" /\ header.call = call
        /\ header.part \notin Ends
    BY <1>5, Written DEF SendHeader, TypeOK, Ends
  <2>2. /\ socket = "open" /\ Framed(stream) /\ stream \in Seq(Chunk)
        /\ stream = <<>> \/ stream[Len(stream)].part \in Ends
    BY <1>5 DEF SendHeader, Connected, HeaderIsOpen, Writing, RequestsAreFramed, TypeOK
  <2>3. CASE peer = "up"
    <3>1. stream' = Append(stream, header)
      BY <1>5, <2>2, <2>3 DEF SendHeader, Write
    <3> HIDE DEF header
    <3>2. /\ Framed(stream') /\ stream' # <<>> /\ Len(stream') = Len(stream) + 1
          /\ stream'[Len(stream) + 1] = header
      BY <2>1, <2>2, <3>1, ChunkAppended
    <3>3. RequestsAreFramed'
      BY <3>2 DEF RequestsAreFramed, Framed
    <3>4. HeaderIsOpen'
      <4>1. stream'[Len(stream')].part \notin Ends /\ stream'[Len(stream')].call = call
        BY <2>1, <3>2
      <4> QED BY <1>5, <2>3, <3>2, <4>1 DEF SendHeader, HeaderIsOpen, Writing
    <3>5. AnswersAreOwn'
      <4>1. (\A i \in 1 .. Len(stream) : stream[i].call = call)
              => \A i \in 1 .. Len(stream') : stream'[i].call = call
        BY <2>1, <2>2, <3>1
      <4> QED BY <1>5, <4>1 DEF SendHeader, AnswersAreOwn
    <3> QED BY <3>3, <3>4, <3>5
  <2>4. CASE peer # "up"
    <3>1. stream' = stream
      BY <1>5, <2>4 DEF SendHeader, Write
    <3> QED BY <1>5, <2>2, <2>4, <3>1 DEF SendHeader, RequestsAreFramed, HeaderIsOpen, AnswersAreOwn
  <2> QED BY <2>3, <2>4
<1>6. CASE FailHeader
  <2>1. pc' \in {"payload", "idle"}
    BY <1>6 DEF FailHeader, HeaderFailed, Return
  <2> QED BY <1>6, <2>1, NothingAccepts
          DEF FailHeader, Stop, network, RequestsAreFramed, HeaderIsOpen, AnswersAreOwn
<1>7. CASE SendPayload
  <2> DEFINE chunk == [call |-> call, part |-> IF pc = "payload" THEN LastPart ELSE "part"]
  <2>1. /\ chunk \in Chunk /\ chunk.part # "header" /\ chunk.call = call
        /\ chunk.part \in Ends <=> pc = "payload"
    <3>1. call \in Call
      BY <1>7 DEF SendPayload, Writing, TypeOK
    <3>2. LastPart \notin {"header", "part"} /\ LastPart \in Ends /\ "part" \notin Ends
      BY DEF LastPart, Ends
    <3> QED BY <3>1, <3>2, Written
  <2>2. Framed(stream) /\ stream \in Seq(Chunk)
    BY DEF RequestsAreFramed, TypeOK
  <2>3. /\ pc \in Writing
        /\ pc = "payload" <=> pc' = "stream"
        /\ pc # "payload" => pc' \in Writing \cup {"imageStream"}
        /\ pc' \in {"imageStream", "image", "payload", "stream"}
    BY <1>7, Wrote DEF SendPayload
  <2>4. CASE socket = "open" /\ peer = "up"
    <3>1. stream' = Append(stream, chunk)
      BY <1>7, <2>4 DEF SendPayload, Write
    <3>2. /\ stream # <<>> /\ stream[Len(stream)].part \notin Ends
          /\ stream[Len(stream)].call = call
      BY <2>3, <2>4 DEF HeaderIsOpen
    <3> HIDE DEF chunk
    <3>3. /\ Framed(stream') /\ stream' # <<>> /\ Len(stream') = Len(stream) + 1
          /\ stream'[Len(stream) + 1] = chunk
      BY <2>1, <2>2, <3>1, <3>2, ChunkAppended
    <3>4. RequestsAreFramed'
      BY <3>3 DEF RequestsAreFramed, Framed
    <3>5. HeaderIsOpen'
      <4>1. /\ stream'[Len(stream')].part \in Ends <=> pc = "payload"
            /\ stream'[Len(stream')].call = call
        BY <2>1, <3>3
      <4>2. pc' \in Writing \cup {"imageStream"} <=> pc # "payload"
        BY <2>3 DEF Writing
      <4> QED BY <1>7, <2>4, <3>3, <4>1, <4>2 DEF SendPayload, HeaderIsOpen
    <3>6. AnswersAreOwn'
      <4>1. (\A i \in 1 .. Len(stream) : stream[i].call = call)
              => \A i \in 1 .. Len(stream') : stream'[i].call = call
        BY <2>1, <2>2, <3>1
      <4> QED BY <1>7, <2>3, <4>1 DEF SendPayload, Writing, AnswersAreOwn
    <3> QED BY <3>4, <3>5, <3>6
  <2>5. CASE ~(socket = "open" /\ peer = "up")
    <3>1. stream' = stream
      BY <1>7, <2>5 DEF SendPayload, Write
    <3>2. HeaderIsOpen' /\ RequestsAreFramed'
      BY <1>7, <2>3, <2>5, <3>1 DEF SendPayload, RequestsAreFramed, HeaderIsOpen
    <3>3. AnswersAreOwn'
      BY <1>7, <2>3, <3>1 DEF SendPayload, Writing, AnswersAreOwn
    <3> QED BY <3>2, <3>3
  <2> QED BY <2>4, <2>5
<1>8. CASE FailPayload
  <2>1. /\ pc \in Writing /\ pc' \in {"imageStream", "image", "payload", "stream"}
        /\ socket' # "open" /\ received' = <<>> /\ UNCHANGED <<stream, wire, accepted, call, clean>>
    BY <1>8, Wrote DEF FailPayload, Stop, network
  <2> QED BY <2>1, NothingAccepts DEF Writing, RequestsAreFramed, HeaderIsOpen, AnswersAreOwn
<1>9. CASE GetImageStream
  <2>1. RequestsAreFramed' /\ HeaderIsOpen'
    BY <1>9 DEF GetImageStream, network, Probed, Connected, Writing, RequestsAreFramed, HeaderIsOpen
  <2>2. AnswersAreOwn'
    BY <1>9 DEF GetImageStream, network, AnswersAreOwn
  <2> QED BY <2>1, <2>2
<1>10. CASE NoFile
  <2>1. pc' \in {"idle", "crashed"} /\ clean' = FALSE /\ pc = "idle" /\ UNCHANGED <<socket, network>>
    BY <1>10 DEF NoFile, Return
  <2> QED BY <2>1 DEF network, Writing, RequestsAreFramed, HeaderIsOpen, AnswersAreOwn
<1> QED BY <1>1, <1>2, <1>3, <1>4, <1>5, <1>6, <1>7, <1>8, <1>9, <1>10

(* The steps of a call that reads its answer write nothing, and take what  *)
(* they report from the pieces that came.                                  *)
LEMMA InvReading ==
  ASSUME TypeOK, LineInv,
         GetStream \/ WaitEnds \/ WaitFails \/ ReadPiece \/ ReadTimesOut \/ ReadEnds
  PROVE  LineInv'
<1> USE DEF LineInv
<1>1. RequestsAreFramed'
  BY DEF RequestsAreFramed, GetStream, WaitEnds, WaitFails, ReadPiece, ReadTimesOut, ReadEnds,
         network
<1>2. HeaderIsOpen'
  BY DEF HeaderIsOpen, GetStream, WaitEnds, WaitFails, ReadPiece, ReadTimesOut, ReadEnds,
         network, Probed, Return, Writing
<1>3. AnswersAreOwn'
  <2>1. CASE GetStream
    BY <2>1 DEF GetStream, network, AnswersAreOwn
  <2>2. CASE WaitEnds
    BY <2>2 DEF WaitEnds, network, AnswersAreOwn
  <2>3. CASE ReadPiece
    <3>1. /\ Accepts(received') => Accepts(received)
          /\ httpCode' = "accepted" => httpCode = "accepted" \/ Accepts(received)
      BY <2>3, PieceTaken DEF ReadPiece, Available, TypeOK
    <3> QED BY <2>3, <3>1 DEF ReadPiece, network, AnswersAreOwn
  <2>4. CASE WaitFails \/ ReadTimesOut \/ ReadEnds
    BY <2>4 DEF WaitFails, ReadTimesOut, ReadEnds, Return, AnswersAreOwn
  <2> QED BY <2>1, <2>2, <2>3, <2>4
<1> QED BY <1>1, <1>2, <1>3

(* The server takes whole requests off the front, or more than one when    *)
(* the first came short, which no clean call can see; and the network      *)
(* moves answers without making any.                                       *)
LEMMA InvNetwork ==
  ASSUME TypeOK, LineInv, Network
  PROVE  LineInv'
<1> USE DEF LineInv
<1>1. CASE Answer
  <2>1. stream \in Seq(Chunk) /\ Framed(stream)
    BY DEF TypeOK, RequestsAreFramed
  <2>2. PICK n \in 1 .. Len(stream), verdict \in Verdict :
           /\ stream[n].part \in Ends /\ stream' = SubSeq(stream, n + 1, Len(stream))
           /\ accepted' = IF verdict = "accepted" THEN accepted \cup {stream[n].call} ELSE accepted
           /\ wire' = wire \o Answers(verdict)
    BY <1>1 DEF Answer, Ends
  <2>3. /\ Framed(stream') /\ Len(stream') = Len(stream) - n
        /\ stream' = <<>> => stream[Len(stream)].part \in Ends
        /\ stream' # <<>> => stream'[Len(stream')] = stream[Len(stream)]
        /\ \A i \in 1 .. Len(stream) - n : stream'[i] = stream[i + n]
    BY <2>1, <2>2, RequestTaken, RequestTakenFramed
  <2>4. stream # <<>> /\ Len(stream) \in Nat
    <3>1. Len(<<>>) = 0
      OBVIOUS
    <3> QED BY <2>1, <2>2, <3>1, LenProperties
  <2>5. RequestsAreFramed'
    BY <2>3 DEF RequestsAreFramed, Framed
  <2>6. HeaderIsOpen'
    BY <1>1, <2>3, <2>4 DEF Answer, client, HeaderIsOpen
  <2>7. AnswersAreOwn'
    <3> SUFFICES ASSUME clean, pc \notin {"idle", "connect"}
                 PROVE  /\ \A i \in 1 .. Len(stream') : stream'[i].call = call
                        /\ Accepts(wire') \/ Accepts(received) => call \in accepted'
                        /\ pc = "read" /\ httpCode = "accepted" => call \in accepted'
                        /\ pc = "wait" => httpCode = "none"
      BY <1>1 DEF Answer, client, AnswersAreOwn
    <3>1. /\ \A i \in 1 .. Len(stream) : stream[i].call = call
          /\ Accepts(wire) \/ Accepts(received) => call \in accepted
          /\ pc = "read" /\ httpCode = "accepted" => call \in accepted
          /\ pc = "wait" => httpCode = "none"
      BY DEF AnswersAreOwn
    <3>2. \A i \in 1 .. Len(stream') : stream'[i].call = call
      <4> SUFFICES ASSUME NEW i \in 1 .. Len(stream') PROVE stream'[i].call = call
        OBVIOUS
      <4>1. i \in 1 .. Len(stream) - n /\ i + n \in 1 .. Len(stream)
        BY <2>3, <2>4
      <4> QED BY <2>3, <3>1, <4>1
    <3>3. stream[n].call = call
      BY <3>1
    <3>4. Accepts(wire') => Accepts(wire) \/ verdict = "accepted"
      BY <2>2, AnswerAppended DEF TypeOK
    <3> QED BY <2>2, <3>1, <3>2, <3>3, <3>4
  <2> QED BY <2>5, <2>6, <2>7
<1>4. CASE Misread
  <2>1. /\ stream \in Seq(Chunk) /\ Framed(stream) /\ Len(stream) \in Nat
        /\ Framed(<<>>) /\ Len(<<>>) = 0
    BY LenProperties DEF TypeOK, RequestsAreFramed, Framed
  <2>2. PICK n \in 1 .. Len(stream) :
           /\ stream[Len(stream)].call # stream[n].call
           /\ \/ /\ \E m \in n + 1 .. Len(stream) :
                        stream[m].part \in Ends /\ stream' = SubSeq(stream, m + 1, Len(stream))
                 /\ UNCHANGED peer
              \/ peer' = "closed" /\ stream' = <<>>
    BY <1>4 DEF Misread
  <2>3. Len(stream) \in 1 .. Len(stream) /\ stream # <<>>
    BY <2>1, <2>2
  <2>4. AnswersAreOwn'
    <3>1. ~(clean /\ pc \notin {"idle", "connect"})
      BY <2>2, <2>3 DEF AnswersAreOwn
    <3> QED BY <1>4, <3>1 DEF Misread, client, AnswersAreOwn
  <2>5. CASE peer' = "closed" /\ stream' = <<>>
    BY <1>4, <2>1, <2>4, <2>5 DEF Misread, client, RequestsAreFramed, HeaderIsOpen
  <2>6. CASE /\ \E m \in n + 1 .. Len(stream) :
                  stream[m].part \in Ends /\ stream' = SubSeq(stream, m + 1, Len(stream))
             /\ UNCHANGED peer
    <3>1. PICK m \in n + 1 .. Len(stream) :
             stream[m].part \in Ends /\ stream' = SubSeq(stream, m + 1, Len(stream))
      BY <2>6
    <3>2. m \in 1 .. Len(stream)
      BY <2>1, <3>1
    <3>3. /\ Framed(stream')
          /\ stream' = <<>> => stream[Len(stream)].part \in Ends
          /\ stream' # <<>> => stream'[Len(stream')] = stream[Len(stream)]
      BY <2>1, <3>1, <3>2, RequestTakenFramed
    <3>4. RequestsAreFramed'
      BY <3>3 DEF RequestsAreFramed, Framed
    <3>5. HeaderIsOpen'
      BY <1>4, <2>3, <2>6, <3>3 DEF Misread, client, HeaderIsOpen
    <3> QED BY <2>4, <3>4, <3>5
  <2> QED BY <2>2, <2>5, <2>6
<1>2. CASE Arrive
  <2>1. /\ Accepts(wire') => Accepts(wire)
        /\ Accepts(received') => Accepts(received) \/ Accepts(wire)
    BY <1>2, PieceTaken, PieceArrived DEF Arrive, TypeOK
  <2> QED BY <1>2, <2>1 DEF Arrive, RequestsAreFramed, HeaderIsOpen, AnswersAreOwn
<1>3. CASE Break
  <2>1. Accepts(wire') => Accepts(wire)
    BY <1>3, NothingAccepts DEF Break
  <2> QED BY <1>3, <2>1 DEF Break, client, RequestsAreFramed, Framed, HeaderIsOpen, AnswersAreOwn
<1> QED BY <1>1, <1>2, <1>3, <1>4 DEF Network

(* A request that is half written and the answers under way belong to the  *)
(* running call, at every step of it and of the network.                   *)
THEOREM InvCorrect == Spec => []LineInv
<1>1. LineInv /\ UNCHANGED vars => LineInv'
  BY DEF vars, client, network, LineInv, RequestsAreFramed, HeaderIsOpen, AnswersAreOwn
<1>2. TypeOK /\ LineInv /\ [Next]_vars => LineInv'
  BY <1>1, InvSending, InvReading, InvNetwork DEF Next, Client, Done
<1> QED BY <1>2, InvInit, TypeCorrect, PTL DEF Spec

(* Requests reach the server in order, and no header in the middle of an   *)
(* earlier message, since a failed write stops the socket; but a message   *)
(* whose text is longer than a TLS record ends short, with the socket open.*)
THEOREM FramedCorrect == Spec => []RequestsAreFramed
<1>1. LineInv => RequestsAreFramed
  BY DEF LineInv
<1> QED BY <1>1, InvCorrect, PTL

(* A call that connected when nothing was owed reports success only for a  *)
(* message the server accepted.                                            *)
THEOREM OwnCorrect == Spec => CompletedIsOwn
<1>1. TypeOK /\ LineInv /\ [Next]_vars
        => [Returns("SentCompleted") /\ clean' => call' \in accepted]_vars
  <2> SUFFICES ASSUME TypeOK, LineInv, [Next]_vars, Returns("SentCompleted"), clean'
               PROVE  call' \in accepted
    OBVIOUS
  <2>1. ASSUME NEW status \in Status, Return(status)
        PROVE  status = "SentCompleted"
    <3>1. /\ result \in Seq(Status)
          /\ result' = Append(result, status)
      BY <2>1 DEF Return, TypeOK
    <3>2. result'[Len(result')] = status
      BY <3>1
    <3> QED BY <3>2 DEF Returns
  <2>2. ~(HeaderFailed /\ result' # result)
    BY <2>1 DEF HeaderFailed, Status
  <2>3. ~WaitFails /\ ~ReadTimesOut
    BY <2>1 DEF WaitFails, ReadTimesOut, Status
  <2>4. CASE ReadEnds
    <3>1. httpCode = "accepted"
      BY <2>1, <2>4 DEF ReadEnds, Status
    <3>2. clean' = clean /\ call' = call /\ pc = "read"
      BY <2>4 DEF ReadEnds
    <3> QED BY <3>1, <3>2 DEF LineInv, AnswersAreOwn
  <2>5. result' # result
    BY DEF Returns
  <2>6. ~NoFile
    BY DEF NoFile
  <2> QED BY <2>2, <2>3, <2>4, <2>5, <2>6
          DEF Next, Client, Network, Done, vars, client, network, Begin, Reuse, Open, Refuse,
              SendHeader, FailHeader, SendPayload, FailPayload, GetImageStream, GetStream,
              WaitEnds, ReadPiece,
              Answer, Misread, Arrive, Break
<1> QED BY <1>1, TypeCorrect, InvCorrect, PTL DEF Spec, CompletedIsOwn

-----------------------------------------------------------------------------
(* Each message reaches the server once.                                   *)

(* A chunk appended to a stream adds its message, if it ends one.          *)
LEMMA MessageAppended ==
  ASSUME NEW s \in Seq(Chunk), NEW e \in Chunk
  PROVE  /\ Append(s, e) \in Seq(Chunk) /\ Len(Append(s, e)) = Len(s) + 1
         /\ Append(s, e)[Len(s) + 1] = e
         /\ \A i \in 1 .. Len(s) : Append(s, e)[i] = s[i]
         /\ MessagesIn(Append(s, e)) =
              IF e.part \in Ends THEN MessagesIn(s) \cup {e.call} ELSE MessagesIn(s)
<1> DEFINE t == Append(s, e)
<1> DEFINE n == Len(s)
<1>1. /\ n \in Nat /\ t \in Seq(Chunk) /\ Len(t) = n + 1 /\ t[n + 1] = e
      /\ \A i \in 1 .. n : t[i] = s[i]
  BY LenProperties
<1>2. e.call \in Call
  BY ChunkOf
<1>3. /\ \A i \in 1 .. n + 1 : i = n + 1 \/ i \in 1 .. n
      /\ \A i \in 1 .. n : i \in 1 .. n + 1
      /\ n + 1 \in 1 .. n + 1
  <2> HIDE DEF n
  <2> QED BY <1>1
<1>4. MessagesIn(t) = IF e.part \in Ends THEN MessagesIn(s) \cup {e.call} ELSE MessagesIn(s)
  <2>1. ASSUME NEW c \in MessagesIn(t)
        PROVE  c \in MessagesIn(s) \/ (e.part \in Ends /\ c = e.call)
    <3>1. PICK i \in 1 .. n + 1 : t[i].call = c /\ t[i].part \in Ends
      BY <1>1, <2>1 DEF MessagesIn
    <3> HIDE DEF t, n
    <3> QED BY <1>1, <1>3, <3>1 DEF MessagesIn, n
  <2>2. ASSUME NEW c \in MessagesIn(s) PROVE c \in MessagesIn(t)
    <3>1. PICK i \in 1 .. n : s[i].call = c /\ s[i].part \in Ends
      BY <2>2 DEF MessagesIn
    <3>2. i \in 1 .. Len(t) /\ t[i] = s[i]
      BY <1>1, <1>3
    <3> HIDE DEF t, n
    <3> QED BY <2>2, <3>1, <3>2 DEF MessagesIn
  <2>3. e.part \in Ends => e.call \in MessagesIn(t)
    <3>1. n + 1 \in 1 .. Len(t) /\ t[n + 1] = e
      BY <1>1, <1>3
    <3> HIDE DEF t, n
    <3> QED BY <1>2, <3>1 DEF MessagesIn
  <2> HIDE DEF t, n
  <2> QED BY <2>1, <2>2, <2>3
<1> QED BY <1>1, <1>4

(* What is left when requests up to some place are taken off a stream has  *)
(* none of the messages before that place, if they are in the order of     *)
(* their calls.                                                            *)
LEMMA MessagesLeft ==
  ASSUME NEW s \in Seq(Chunk), NEW n \in 1 .. Len(s), s[n].part \in Ends,
         NEW m \in n .. Len(s),
         \A i, j \in 1 .. Len(s) : i < j /\ s[i].part \in Ends => s[i].call < s[j].call
  PROVE  /\ s[n].call \in MessagesIn(s)
         /\ MessagesIn(SubSeq(s, m + 1, Len(s))) \subseteq MessagesIn(s) \ {s[n].call}
<1> DEFINE t == SubSeq(s, m + 1, Len(s))
<1> DEFINE k == Len(s) - m
<1>1. /\ k \in Nat /\ n \in Nat /\ m \in 1 .. Len(s) /\ n <= m /\ Len(s) = k + m /\ Len(t) = k
      /\ \A i \in 1 .. k : t[i] = s[i + m]
      /\ \A i \in 1 .. Len(s) : s[i] \in Chunk
  <2>1. Len(s) \in Nat /\ m \in 1 .. Len(s) /\ n <= m /\ k \in Nat /\ n \in Nat /\ Len(s) = k + m
    BY LenProperties
  <2> QED BY <2>1, RequestTaken, ElementOfSeq
<1>2. s[n].call \in MessagesIn(s)
  BY <1>1, ChunkOf DEF MessagesIn
<1>3. \A i \in 1 .. k : i + m \in 1 .. Len(s) /\ n < i + m
  <2> HIDE DEF k, t
  <2> QED BY <1>1
<1>4. ASSUME NEW c \in MessagesIn(t) PROVE c \in MessagesIn(s) \ {s[n].call}
  <2>1. c \in Call /\ \E i \in 1 .. k : t[i].call = c /\ t[i].part \in Ends
    BY <1>1, <1>4 DEF MessagesIn
  <2>2. PICK i \in 1 .. k : t[i].call = c /\ t[i].part \in Ends
    BY <2>1
  <2>3. i + m \in 1 .. Len(s) /\ n < i + m /\ s[i + m].call = c /\ s[i + m].part \in Ends
    BY <1>1, <1>3, <2>2
  <2>4. c \in MessagesIn(s)
    BY <2>1, <2>3 DEF MessagesIn
  <2>5. s[n].call < c
    BY <2>3
  <2>6. s[n].call \in Int
    <3>1. s[n].call \in Call
      BY <1>1, ChunkOf
    <3> QED BY <3>1, CallAssumption DEF Call
  <2> QED BY <2>4, <2>5, <2>6
<1> HIDE DEF t, k
<1> QED BY <1>2, <1>4 DEF t

(* Taking the first request off a stream whose messages are in the order   *)
(* of their calls takes the message of its call, and leaves the others.    *)
LEMMA MessageTaken ==
  ASSUME NEW s \in Seq(Chunk), NEW n \in 1 .. Len(s), s[n].part \in Ends,
         \A i \in 1 .. n - 1 : s[i].part \notin Ends,
         \A i, j \in 1 .. Len(s) : i < j /\ s[i].part \in Ends => s[i].call < s[j].call
  PROVE  MessagesIn(SubSeq(s, n + 1, Len(s))) = MessagesIn(s) \ {s[n].call}
<1> DEFINE t == SubSeq(s, n + 1, Len(s))
<1> DEFINE k == Len(s) - n
<1>1. /\ k \in Nat /\ n \in Nat /\ Len(s) = k + n /\ Len(t) = k
      /\ \A i \in 1 .. k : t[i] = s[i + n]
  BY RequestTaken, LenProperties
<1>2. \A j \in 1 .. Len(s) : j \in 1 .. n - 1 \/ j = n \/ (j - n \in 1 .. k /\ (j - n) + n = j)
  <2> HIDE DEF k, t
  <2> QED BY <1>1
<1>3. MessagesIn(t) \subseteq MessagesIn(s) \ {s[n].call}
  <2>1. n \in n .. Len(s)
    <3>1. Len(s) \in Nat /\ n \in 1 .. Len(s)
      BY LenProperties
    <3> HIDE DEF k, t
    <3> QED BY <3>1
  <2> QED BY <2>1, MessagesLeft
<1>4. ASSUME NEW c \in MessagesIn(s), c # s[n].call PROVE c \in MessagesIn(t)
  <2>1. c \in Call /\ \E j \in 1 .. Len(s) : s[j].call = c /\ s[j].part \in Ends
    BY <1>4 DEF MessagesIn
  <2>2. PICK j \in 1 .. Len(s) : s[j].call = c /\ s[j].part \in Ends
    BY <2>1
  <2>3. j - n \in 1 .. k /\ (j - n) + n = j
    BY <1>2, <1>4, <2>2
  <2>4. t[j - n].call = c /\ t[j - n].part \in Ends
    BY <1>1, <2>2, <2>3
  <2> HIDE DEF t, k
  <2> QED BY <1>1, <2>1, <2>3, <2>4 DEF MessagesIn
<1> HIDE DEF t, k
<1> QED BY <1>3, <1>4 DEF t

LEMMA NoMessages == MessagesIn(<<>>) = {}
BY DEF MessagesIn

LEMMA SentOnceInit == Init => SentOnce
BY NoMessages DEF Init, SentOnce, Pending

(* A chunk of the running call keeps the order of the stream: until the    *)
(* call has sent its message, all that is there is of earlier ones.        *)
LEMMA OrderKept ==
  ASSUME TypeOK, SentOnce, pc \in Unsent, NEW e \in Chunk, e.call = call,
         stream' = Append(stream, e)
  PROVE  /\ \A i \in 1 .. Len(stream') : stream'[i].call <= call
         /\ \A i, j \in 1 .. Len(stream') :
              i < j /\ stream'[i].part \in Ends => stream'[i].call < stream'[j].call
<1> DEFINE n == Len(stream)
<1>1. /\ stream \in Seq(Chunk) /\ n \in Nat /\ Len(stream') = n + 1 /\ stream'[n + 1] = e
      /\ \A i \in 1 .. n : stream'[i] = stream[i]
      /\ \A i \in 1 .. n : stream[i] \in Chunk
  BY MessageAppended, LenProperties, ElementOfSeq DEF TypeOK
<1>2. call \in Int /\ \A i \in 1 .. n : stream[i].call \in Call /\ stream[i].call \in Int
  BY <1>1, ChunkOf DEF TypeOK, Call
<1>3. \A i \in 1 .. n : stream[i].call <= call
  BY DEF SentOnce
<1>4. \A i \in 1 .. n : stream[i].part \in Ends => stream[i].call # call
  BY <1>2 DEF SentOnce, Pending, MessagesIn
<1>5. \A i \in 1 .. n : stream[i].part \in Ends => stream[i].call < call
  BY <1>2, <1>3, <1>4
<1>6. \A i, j \in 1 .. n : i < j /\ stream[i].part \in Ends => stream[i].call < stream[j].call
  BY DEF SentOnce
<1>7. /\ \A i \in 1 .. n + 1 : i = n + 1 \/ i \in 1 .. n
      /\ \A i, j \in 1 .. n + 1 : i < j => i \in 1 .. n
  <2> HIDE DEF n
  <2> QED BY <1>1
<1> HIDE DEF n
<1>8. \A i \in 1 .. n + 1 : stream'[i].call <= call
  BY <1>1, <1>2, <1>3, <1>7
<1>9. ASSUME NEW i \in 1 .. n + 1, NEW j \in 1 .. n + 1, i < j, stream'[i].part \in Ends
      PROVE  stream'[i].call < stream'[j].call
  <2>1. i \in 1 .. n /\ stream[i].part \in Ends /\ stream'[i] = stream[i]
    BY <1>1, <1>7, <1>9
  <2>2. CASE j = n + 1
    BY <1>1, <1>5, <2>1, <2>2
  <2>3. CASE j \in 1 .. n
    BY <1>1, <1>6, <1>9, <2>1, <2>3
  <2> QED BY <1>7, <2>2, <2>3
<1> QED BY <1>1, <1>8, <1>9

(* A new call has not sent anything: all that the server has, or accepted, *)
(* is of earlier ones.                                                     *)
LEMMA NewCallUnsent ==
  ASSUME TypeOK, SentOnce
  PROVE  /\ call + 1 \notin accepted \cup Pending
         /\ \A i \in 1 .. Len(stream) : stream[i].call <= call + 1
         /\ \A c \in accepted : c <= call + 1
<1>1. /\ call \in Int /\ \A i \in 1 .. Len(stream) : stream[i].call \in Int
      /\ \A c \in accepted : c \in Int
  <2>1. \A i \in 1 .. Len(stream) : stream[i] \in Chunk
    BY ElementOfSeq DEF TypeOK
  <2> QED BY <2>1, ChunkOf DEF TypeOK, Call
<1>2. \A i \in 1 .. Len(stream) : stream[i].call <= call /\ stream[i].call # call + 1
                                  /\ stream[i].call <= call + 1
  BY <1>1 DEF SentOnce
<1>3. \A c \in accepted : c <= call /\ c # call + 1 /\ c <= call + 1
  BY <1>1 DEF SentOnce
<1>4. call + 1 \notin Pending
  BY <1>2 DEF Pending, MessagesIn
<1> QED BY <1>2, <1>3, <1>4

(* The steps of the client.                                                *)
LEMMA SentOnceClient ==
  ASSUME TypeOK, SentOnce, Client
  PROVE  SentOnce'
<1>1. CASE Begin \/ NoFile
  <2>1. /\ call' = call + 1 /\ UNCHANGED <<stream, accepted>>
    BY <1>1 DEF Begin, NoFile, network
  <2> QED BY <2>1, NewCallUnsent DEF SentOnce, Pending
<1>2. CASE Open \/ Refuse
  <2>1. /\ stream' = <<>> /\ UNCHANGED <<accepted, call>> /\ pc \in Unsent
    BY <1>2 DEF Open, Refuse, Unsent
  <2>2. Pending' = {} /\ Len(stream') = 0
    BY <2>1, NoMessages DEF Pending
  <2> QED BY <2>1, <2>2 DEF SentOnce
<1>3. CASE SendHeader \/ SendPayload
  <2>1. /\ UNCHANGED <<accepted, call>> /\ pc \in Unsent
        /\ pc' \in Unsent => pc # "payload"
    <3>1. CASE SendHeader
      BY <3>1 DEF SendHeader, Unsent
    <3>2. CASE SendPayload
      BY <3>2, Wrote DEF SendPayload, Unsent, Writing
    <3> QED BY <1>3, <3>1, <3>2
  <2>2. CASE stream' = stream
    BY <2>1, <2>2 DEF SentOnce, Pending
  <2>3. CASE stream' # stream
    <3>1. \E part \in {"header", "part", LastPart} :
             /\ stream' = Append(stream, [call |-> call, part |-> part])
             /\ part = LastPart => pc = "payload"
      <4>1. LastPart \notin {"header", "part"}
        BY DEF LastPart
      <4> QED BY <1>3, <2>3, <4>1 DEF SendHeader, SendPayload, Write
    <3>2. PICK part \in {"header", "part", LastPart} :
             /\ stream' = Append(stream, [call |-> call, part |-> part])
             /\ part = LastPart => pc = "payload"
      BY <3>1
    <3> DEFINE e == [call |-> call, part |-> part]
    <3>3. call \in Call
      BY <2>1 DEF TypeOK, Unsent, Writing
    <3>4. e \in Chunk /\ e.call = call /\ e.part = part /\ (part \in Ends <=> part = LastPart)
      BY <3>2, <3>3, Written
    <3> HIDE DEF e
    <3>5. stream' = Append(stream, e)
      BY <3>2 DEF e
    <3>6. /\ \A i \in 1 .. Len(stream') : stream'[i].call <= call
          /\ \A i, j \in 1 .. Len(stream') :
               i < j /\ stream'[i].part \in Ends => stream'[i].call < stream'[j].call
      BY <2>1, <3>4, <3>5, OrderKept
    <3>7. Pending' = IF part = LastPart THEN Pending \cup {call} ELSE Pending
      <4>1. stream \in Seq(Chunk)
        BY DEF TypeOK
      <4> QED BY <3>4, <3>5, <4>1, MessageAppended DEF Pending
    <3>8. call \notin accepted \cup Pending
      BY <2>1 DEF SentOnce
    <3> QED BY <2>1, <3>2, <3>6, <3>7, <3>8 DEF SentOnce
  <2> QED BY <2>2, <2>3
<1>4. CASE \/ Reuse \/ FailHeader \/ FailPayload \/ GetImageStream \/ GetStream \/ WaitEnds
           \/ WaitFails \/ ReadPiece \/ ReadTimesOut \/ ReadEnds
  <2>1. UNCHANGED <<stream, accepted, call>>
    BY <1>4 DEF Reuse, FailHeader, FailPayload, GetImageStream, GetStream, WaitEnds, WaitFails,
                ReadPiece, ReadTimesOut, ReadEnds, network
  <2>2. pc' \in Unsent => pc \in Unsent
    <3>1. CASE FailPayload
      BY <3>1 DEF FailPayload, Unsent
    <3>2. CASE ~FailPayload
      BY <1>4, <3>2 DEF Reuse, FailHeader, HeaderFailed, Return, GetImageStream, GetStream,
         WaitEnds, WaitFails, ReadPiece, ReadTimesOut, ReadEnds, Unsent, Writing
    <3> QED BY <3>1, <3>2
  <2> QED BY <2>1, <2>2 DEF SentOnce, Pending
<1> QED BY <1>1, <1>2, <1>3, <1>4 DEF Client

(* What an answer takes off the stream, and adds to what was accepted.     *)
LEMMA Judged ==
  ASSUME TypeOK, SentOnce, Answer
  PROVE  \E n \in 1 .. Len(stream) :
           /\ stream[n].call \in Pending \ Long
           /\ Pending' = Pending \ {stream[n].call}
           /\ accepted' \in {accepted, accepted \cup {stream[n].call}}
           /\ Len(stream') = Len(stream) - n
           /\ \A i \in 1 .. Len(stream) - n : stream'[i] = stream[i + n]
           /\ wire' # <<>> /\ UNCHANGED client
<1>1. PICK n \in 1 .. Len(stream), verdict \in Verdict :
         /\ stream[n].part = "message" /\ \A i \in 1 .. n - 1 : stream[i].part \notin Ends
         /\ stream' = SubSeq(stream, n + 1, Len(stream))
         /\ accepted' = IF verdict = "accepted" THEN accepted \cup {stream[n].call} ELSE accepted
         /\ wire' = wire \o Answers(verdict)
  BY DEF Answer
<1>2. stream \in Seq(Chunk) /\ wire \in Seq(Piece) /\ Len(stream) \in Nat
  BY LenProperties DEF TypeOK
<1>3. \A i, j \in 1 .. Len(stream) :
         i < j /\ stream[i].part \in Ends => stream[i].call < stream[j].call
  BY DEF SentOnce
<1>4. stream[n].call \in MessagesIn(stream) \ Long /\ stream[n].part \in Ends
  <2>1. stream[n].part \in Ends /\ n \in n .. Len(stream)
    BY <1>1, <1>2 DEF Ends
  <2>2. stream[n].call \notin Long
    <3>1. stream[n] \in Chunk
      BY <1>2, ElementOfSeq
    <3> QED BY <1>1, <3>1, ChunkOf
  <2> QED BY <1>2, <1>3, <2>1, <2>2, MessagesLeft
<1>5. MessagesIn(stream') = MessagesIn(stream) \ {stream[n].call}
  BY <1>1, <1>2, <1>3, <1>4, MessageTaken
<1>6. /\ Len(stream') = Len(stream) - n
      /\ \A i \in 1 .. Len(stream) - n : stream'[i] = stream[i + n]
  BY <1>1, <1>2, RequestTaken
<1>7. wire' # <<>>
  BY <1>1, <1>2, AnswerAppended
<1>8. UNCHANGED client
  BY DEF Answer
<1> QED BY <1>1, <1>4, <1>5, <1>6, <1>7, <1>8 DEF Pending

(* What the server does with a message that came short: it is of an        *)
(* earlier call than the running one, and takes with it what follows it up *)
(* to some place, or all of it.                                            *)
LEMMA Misjudged ==
  ASSUME TypeOK, SentOnce, Misread
  PROVE  \E n \in 1 .. Len(stream), m \in 1 .. Len(stream) :
           /\ stream[n].call \in Pending \cap Long /\ stream[n].call < call
           /\ Pending' \subseteq Pending \ {stream[n].call}
           /\ accepted' \in {accepted, accepted \cup {stream[n].call}}
           /\ Len(stream') = Len(stream) - m
           /\ \A i \in 1 .. Len(stream) - m : stream'[i] = stream[i + m]
           /\ wire' # <<>> /\ UNCHANGED client
<1>1. PICK n \in 1 .. Len(stream), verdict \in Verdict :
         /\ stream[n].part = "short" /\ stream[Len(stream)].call # stream[n].call
         /\ accepted' = IF verdict = "accepted" THEN accepted \cup {stream[n].call} ELSE accepted
         /\ \/ /\ \E m \in n + 1 .. Len(stream) : stream' = SubSeq(stream, m + 1, Len(stream))
               /\ wire' = wire \o Answers(verdict)
            \/ /\ stream' = <<>>
               /\ wire' = wire \o Answers(verdict) \o Answers("rejected")
  BY DEF Misread
<1>2. /\ stream \in Seq(Chunk) /\ wire \in Seq(Piece) /\ Len(stream) \in Nat
      /\ Len(stream) \in 1 .. Len(stream) /\ n # Len(stream) /\ n < Len(stream) /\ n \in Nat
  <2>1. stream \in Seq(Chunk) /\ wire \in Seq(Piece) /\ Len(stream) \in Nat
    BY LenProperties DEF TypeOK
  <2>2. n # Len(stream)
    BY <1>1
  <2> QED BY <2>1, <2>2
<1>3. \A i, j \in 1 .. Len(stream) :
         i < j /\ stream[i].part \in Ends => stream[i].call < stream[j].call
  BY DEF SentOnce
<1>4. /\ stream[n].part \in Ends /\ stream[n].call \in Long
      /\ stream[n].call \in Int /\ stream[Len(stream)].call \in Int
  <2>1. stream[n] \in Chunk /\ stream[Len(stream)] \in Chunk
    BY <1>2, ElementOfSeq
  <2> QED BY <1>1, <2>1, ChunkOf DEF Ends, Call
<1>5. stream[n].call < call
  <2>1. stream[n].call < stream[Len(stream)].call
    BY <1>2, <1>3, <1>4
  <2>2. stream[Len(stream)].call <= call
    BY <1>2 DEF SentOnce
  <2>3. call \in Int
    BY DEF TypeOK
  <2> QED BY <1>4, <2>1, <2>2, <2>3
<1>6. \E m \in n .. Len(stream) : stream' = SubSeq(stream, m + 1, Len(stream))
  <2>1. SubSeq(stream, Len(stream) + 1, Len(stream)) = <<>>
    BY <1>2, SubSeqEmpty
  <2>2. Len(stream) \in n .. Len(stream) /\ \A m \in n + 1 .. Len(stream) : m \in n .. Len(stream)
    BY <1>2
  <2> QED BY <1>1, <2>1, <2>2
<1>7. PICK m \in n .. Len(stream) : stream' = SubSeq(stream, m + 1, Len(stream))
  BY <1>6
<1>8. m \in 1 .. Len(stream)
  BY <1>2, <1>7
<1>9. /\ stream[n].call \in MessagesIn(stream)
      /\ MessagesIn(stream') \subseteq MessagesIn(stream) \ {stream[n].call}
  BY <1>2, <1>3, <1>4, <1>7, MessagesLeft
<1>10. /\ Len(stream') = Len(stream) - m
       /\ \A i \in 1 .. Len(stream) - m : stream'[i] = stream[i + m]
  BY <1>2, <1>7, <1>8, RequestTaken
<1>11. wire' # <<>>
  <2> DEFINE w == wire \o Answers(verdict)
  <2>1. w \in Seq(Piece) /\ w # <<>>
    BY <1>2, AnswerAppended
  <2>2. "rejected" \in Verdict
    BY DEF Verdict
  <2>3. w \o Answers("rejected") # <<>>
    <3> HIDE DEF w
    <3> QED BY ONLY <2>1, <2>2, AnswerAppended
  <2> QED BY <1>1, <2>1, <2>3
<1>12. UNCHANGED client
  BY DEF Misread
<1> QED BY <1>1, <1>4, <1>5, <1>8, <1>9, <1>10, <1>11, <1>12 DEF Pending

(* The steps of the server and the network.                                *)
LEMMA SentOnceNetwork ==
  ASSUME TypeOK, SentOnce, Network
  PROVE  SentOnce'
<1>1. CASE Answer \/ Misread
  <2>1. PICK n \in 1 .. Len(stream), m \in 1 .. Len(stream) :
           /\ stream[n].call \in Pending
           /\ Pending' \subseteq Pending \ {stream[n].call}
           /\ accepted' \in {accepted, accepted \cup {stream[n].call}}
           /\ Len(stream') = Len(stream) - m
           /\ \A i \in 1 .. Len(stream) - m : stream'[i] = stream[i + m]
           /\ UNCHANGED client
    BY <1>1, Judged, Misjudged
  <2>2. Len(stream) \in Nat
    BY LenProperties DEF TypeOK
  <2>3. \A i \in 1 .. Len(stream') : i + m \in 1 .. Len(stream) /\ stream'[i] = stream[i + m]
    BY <2>1, <2>2
  <2>4. \A i \in 1 .. Len(stream') : stream'[i].call <= call
    BY <2>3 DEF SentOnce
  <2>5. ASSUME NEW i \in 1 .. Len(stream'), NEW j \in 1 .. Len(stream'), i < j,
               stream'[i].part \in Ends
        PROVE  stream'[i].call < stream'[j].call
    <3>1. i + m \in 1 .. Len(stream) /\ j + m \in 1 .. Len(stream) /\ i + m < j + m
      BY <2>1, <2>2, <2>3, <2>5
    <3> QED BY <2>3, <2>5, <3>1 DEF SentOnce
  <2>6. UNCHANGED <<call, pc>>
    BY <2>1 DEF client
  <2>7. \A c \in accepted' : c <= call
    <3>1. stream[n].call <= call /\ \A c \in accepted : c <= call
      BY DEF SentOnce
    <3> QED BY <2>1, <3>1
  <2>8. pc \in Unsent => call \notin accepted' \cup Pending'
    <3>1. pc \in Unsent => call \notin accepted \cup Pending
      BY DEF SentOnce
    <3> QED BY <2>1, <3>1
  <2>9. Pending' \cap accepted' = {}
    <3>1. Pending \cap accepted = {}
      BY DEF SentOnce
    <3> QED BY <2>1, <3>1
  <2> QED BY <2>4, <2>5, <2>6, <2>7, <2>8, <2>9 DEF SentOnce
<1>2. CASE Arrive
  BY <1>2 DEF Arrive, SentOnce, Pending
<1>3. CASE Break
  <2>1. stream' = <<>> /\ UNCHANGED <<pc, call, accepted>>
    BY <1>3 DEF Break, client
  <2>2. Pending' = {} /\ Len(stream') = 0
    BY <2>1, NoMessages DEF Pending
  <2> QED BY <2>1, <2>2 DEF SentOnce
<1> QED BY <1>1, <1>2, <1>3 DEF Network

(* Messages reach the server in the order of their calls, and each is      *)
(* judged once: no write is repeated, whatever fails around it.            *)
THEOREM SentOnceCorrect == Spec => []SentOnce
<1>1. SentOnce /\ UNCHANGED vars => SentOnce'
  BY DEF vars, client, network, SentOnce, Pending
<1>2. TypeOK /\ SentOnce /\ [Next]_vars => SentOnce'
  BY <1>1, SentOnceClient, SentOnceNetwork DEF Next, Done
<1> QED BY <1>2, SentOnceInit, TypeCorrect, PTL DEF Spec

-----------------------------------------------------------------------------
(* Refinement.                                                             *)

(* A start of the notifier is a start of the promise.                      *)
LEMMA InitMaps == Init => Promise!Init
<1>1. Init => Pending = {}
  BY NoMessages DEF Init, Pending
<1> QED BY <1>1 DEF Init, Promise!Init, Stage

(* On a kept connection nothing is half written when the next call begins, *)
(* so the server has messages to judge if it has anything at all.          *)
LEMMA KeptIsWhole ==
  ASSUME TypeOK, LineInv, Reuse
  PROVE  stream = <<>> <=> Pending = {}
<1>1. stream \in Seq(Chunk) /\ Len(stream) \in Nat /\ Len(<<>>) = 0
  BY LenProperties DEF TypeOK
<1>2. ASSUME stream # <<>> PROVE Pending # {}
  <2>1. stream[Len(stream)].part \in Ends
    BY <1>2 DEF LineInv, HeaderIsOpen, Reuse, Connected, Writing
  <2>2. Len(stream) \in 1 .. Len(stream)
    <3>1. Len(stream) # 0
      BY <1>1, <1>2, EmptySeq
    <3> QED BY <1>1, <3>1
  <2>3. stream[Len(stream)].call \in Call
    <3>1. stream[Len(stream)] \in Chunk
      BY <1>1, <2>2, ElementOfSeq
    <3> QED BY <3>1, ChunkOf
  <2> QED BY <2>1, <2>2, <2>3 DEF Pending, MessagesIn
<1>3. stream = <<>> => Pending = {}
  BY NoMessages DEF Pending
<1> QED BY <1>2, <1>3

(* What a write adds to the messages at the server.                        *)
LEMMA WrittenMessage ==
  ASSUME TypeOK, SendHeader \/ SendPayload
  PROVE  Pending' = IF pc = "payload" /\ stream' # stream THEN Pending \cup {call} ELSE Pending
<1>1. call \in Call /\ stream \in Seq(Chunk)
  BY DEF TypeOK, SendHeader, SendPayload, Writing
<1>2. CASE stream' = stream
  BY <1>2 DEF Pending
<1>3. CASE stream' # stream
  <2>1. \E part \in {"header", "part", LastPart} :
           /\ stream' = Append(stream, [call |-> call, part |-> part])
           /\ part = LastPart <=> pc = "payload"
    <3>1. LastPart \notin {"header", "part"}
      BY DEF LastPart
    <3> QED BY <1>3, <3>1 DEF SendHeader, SendPayload, Write
  <2>2. PICK part \in {"header", "part", LastPart} :
           /\ stream' = Append(stream, [call |-> call, part |-> part])
           /\ part = LastPart <=> pc = "payload"
    BY <2>1
  <2> DEFINE e == [call |-> call, part |-> part]
  <2>3. e \in Chunk /\ e.call = call /\ e.part = part /\ (part \in Ends <=> part = LastPart)
    BY <1>1, <2>2, Written
  <2> HIDE DEF e
  <2>4. stream' = Append(stream, e)
    BY <2>2 DEF e
  <2>5. MessagesIn(stream') = IF part = LastPart THEN MessagesIn(stream) \cup {call}
                                                  ELSE MessagesIn(stream)
    BY <1>1, <2>3, <2>4, MessageAppended
  <2> QED BY <1>3, <2>2, <2>5 DEF Pending
<1> QED BY <1>2, <1>3

(* The steps that connect.                                                 *)
LEMMA ConnectingMaps ==
  ASSUME TypeOK, LineInv, Reuse \/ Open \/ Refuse
  PROVE  Promise!Connect \/ Promise!FailToConnect
<1>1. Stage = "connecting"
  BY DEF Reuse, Open, Refuse, Stage
<1>2. CASE Reuse
  <2>1. Stage' = "talking" /\ UNCHANGED <<Pending, wire, call, accepted, result>>
    BY <1>2 DEF Reuse, network, Stage, Pending
  <2>2. clean' = (Pending = {} /\ ~(wire # <<>>))
    BY <1>2, KeptIsWhole DEF Reuse
  <2> QED BY <1>1, <2>1, <2>2 DEF Promise!Connect
<1>3. CASE Open \/ Refuse
  <2>1. Pending' = {} /\ ~(wire # <<>>)' /\ clean' = TRUE /\ UNCHANGED <<call, accepted>>
    BY <1>3, NoMessages DEF Open, Refuse, Pending
  <2>2. (wire # <<>>)' = FALSE
    BY <2>1
  <2>3. Promise!NewConnection
    BY <2>1, <2>2 DEF Promise!NewConnection
  <2>4. \/ Stage' = "talking" /\ UNCHANGED result
        \/ Stage' = "idle" /\ result' = Append(result, "Refused")
    BY <1>3 DEF Open, Refuse, HeaderFailed, Return, Stage
  <2> QED BY <1>1, <2>1, <2>3, <2>4
          DEF Promise!Connect, Promise!FailToConnect, Promise!Return
<1> QED BY <1>2, <1>3

(* The steps that write: only the last one of a message sends it, and a    *)
(* call that gives up has not sent it.                                     *)
LEMMA WritingMaps ==
  ASSUME TypeOK, SentOnce, SendHeader \/ FailHeader \/ SendPayload \/ FailPayload
  PROVE  Promise!SendMessage \/ Promise!GiveUp \/ UNCHANGED Promise!vars
<1>1. Stage = "talking" /\ pc \in Unsent
  BY DEF SendHeader, FailHeader, SendPayload, FailPayload, Stage, Writing, Unsent
<1>2. Promise!NotSent
  BY <1>1 DEF SentOnce, Promise!NotSent
<1>3. CASE SendHeader \/ SendPayload
  <2>1. Stage' = "talking" /\ UNCHANGED <<call, clean, wire, accepted, result>>
    <3>1. pc' \notin {"idle", "crashed", "connect"}
      BY <1>3, Wrote DEF SendHeader, SendPayload
    <3> QED BY <1>3, <3>1 DEF SendHeader, SendPayload, Stage
  <2>2. Pending' = Pending \cup {call} \/ Pending' = Pending
    BY <1>3, WrittenMessage
  <2> QED BY <1>1, <1>2, <2>1, <2>2 DEF Promise!SendMessage, Promise!vars
<1>4. CASE FailHeader
  <2>1. UNCHANGED <<call, clean, Pending, wire, accepted>>
    BY <1>4 DEF FailHeader, network, Pending
  <2>2. \/ Stage' = "talking" /\ UNCHANGED result
        \/ Stage' = "idle" /\ result' = Append(result, "Refused")
    BY <1>4 DEF FailHeader, HeaderFailed, Return, Stage
  <2> QED BY <1>1, <1>2, <2>1, <2>2 DEF Promise!GiveUp, Promise!Return, Promise!vars
<1>5. CASE FailPayload
  <2>1. UNCHANGED <<call, clean, Pending, wire, accepted, result>>
    BY <1>5 DEF FailPayload, network, Pending
  <2>2. Stage' = "talking"
    <3>1. pc' \notin {"idle", "crashed", "connect"}
      BY <1>5, Wrote DEF FailPayload
    <3> QED BY <3>1 DEF Stage
  <2> QED BY <1>1, <2>1, <2>2 DEF Promise!vars
<1> QED BY <1>3, <1>4, <1>5

(* The steps that read: success is reported for an accepted message, where *)
(* the answers are the call's own.                                         *)
LEMMA ReadingMaps ==
  ASSUME TypeOK, LineInv,
         \/ GetImageStream \/ GetStream \/ WaitEnds \/ WaitFails \/ ReadPiece \/ ReadTimesOut
         \/ ReadEnds
  PROVE  Promise!Crash \/ Promise!Succeed \/ Promise!FailToSend \/ UNCHANGED Promise!vars
<1>1. Stage = "talking"
  BY DEF GetImageStream, GetStream, WaitEnds, WaitFails, ReadPiece, ReadTimesOut, ReadEnds, Stage
<1>2. UNCHANGED <<call, clean, Pending, wire, accepted>>
  BY DEF GetImageStream, GetStream, WaitEnds, WaitFails, ReadPiece, ReadTimesOut, ReadEnds,
         network, Pending
<1>3. CASE GetImageStream \/ GetStream
  <2>1. Stage' \in {"talking", "crashed"} /\ UNCHANGED result
    BY <1>3 DEF GetImageStream, GetStream, Stage
  <2> QED BY <1>1, <1>2, <2>1 DEF Promise!Crash, Promise!vars
<1>4. CASE WaitEnds \/ ReadPiece
  <2>1. Stage' = "talking" /\ UNCHANGED result
    BY <1>4 DEF WaitEnds, ReadPiece, Stage
  <2> QED BY <1>1, <1>2, <2>1 DEF Promise!vars
<1>5. CASE WaitFails \/ ReadTimesOut \/ (ReadEnds /\ httpCode # "accepted")
  <2>1. Stage' = "idle" /\ result' = Append(result, "SentFailed")
    BY <1>5 DEF WaitFails, ReadTimesOut, ReadEnds, Return, Stage
  <2> QED BY <1>1, <1>2, <2>1 DEF Promise!FailToSend, Promise!Return
<1>6. CASE ReadEnds /\ httpCode = "accepted"
  <2>1. Stage' = "idle" /\ result' = Append(result, "SentCompleted")
    BY <1>6 DEF ReadEnds, Return, Stage
  <2>2. clean => call \in accepted
    BY <1>6 DEF ReadEnds, LineInv, AnswersAreOwn
  <2> QED BY <1>1, <1>2, <2>1, <2>2 DEF Promise!Succeed, Promise!Return
<1> QED BY <1>3, <1>4, <1>5, <1>6

(* The steps of the server and the network.                                *)
LEMMA NetworkMaps ==
  ASSUME TypeOK, SentOnce, Network
  PROVE  \/ Promise!Judge \/ Promise!Misjudge \/ Promise!Deliver \/ Promise!Lose
         \/ UNCHANGED Promise!vars
<1>1. CASE Answer
  <2>1. PICK n \in 1 .. Len(stream) :
           /\ stream[n].call \in Pending \ Long
           /\ Pending' = Pending \ {stream[n].call}
           /\ accepted' \in {accepted, accepted \cup {stream[n].call}}
           /\ Len(stream') = Len(stream) - n
           /\ \A i \in 1 .. Len(stream) - n : stream'[i] = stream[i + n]
           /\ wire' # <<>> /\ UNCHANGED client
    BY <1>1, Judged
  <2>2. stream[n].call \in Pending \ (accepted \cup Long)
    BY <2>1 DEF SentOnce
  <2>3. UNCHANGED <<Stage, call, clean, result>>
    BY <2>1 DEF client, Stage
  <2>4. (wire # <<>>)' = TRUE
    BY <2>1
  <2> QED BY <2>1, <2>2, <2>3, <2>4 DEF Promise!Judge
<1>4. CASE Misread
  <2>1. PICK n \in 1 .. Len(stream) :
           /\ stream[n].call \in Pending \cap Long /\ stream[n].call < call
           /\ Pending' \subseteq Pending \ {stream[n].call}
           /\ accepted' \in {accepted, accepted \cup {stream[n].call}}
           /\ wire' # <<>> /\ UNCHANGED client
    BY <1>4, Misjudged
  <2>2. stream[n].call \in (Pending \ accepted) \cap Long
    BY <2>1 DEF SentOnce
  <2>3. UNCHANGED <<Stage, call, clean, result>>
    BY <2>1 DEF client, Stage
  <2>4. (wire # <<>>)' = TRUE
    BY <2>1
  <2>5. Pending' \in SUBSET (Pending \ {stream[n].call})
    BY <2>1
  <2> QED BY <2>1, <2>2, <2>3, <2>4, <2>5 DEF Promise!Misjudge
<1>2. CASE Arrive
  <2>1. UNCHANGED <<Stage, call, clean, Pending, accepted, result>> /\ wire # <<>>
    BY <1>2 DEF Arrive, Stage, Pending
  <2>2. (wire # <<>>)' = FALSE \/ (wire # <<>>)' = (wire # <<>>)
    BY <2>1
  <2> QED BY <2>1, <2>2 DEF Promise!Deliver, Promise!vars
<1>3. CASE Break
  <2>1. UNCHANGED <<Stage, call, clean, accepted, result>> /\ Pending' = {}
    BY <1>3, NoMessages DEF Break, client, Stage, Pending
  <2>2. (wire # <<>>)' \in {wire # <<>>, FALSE}
    BY <1>3 DEF Break
  <2> QED BY <2>1, <2>2 DEF Promise!Lose
<1> QED BY <1>1, <1>2, <1>3, <1>4 DEF Network

(* A step of client, server or network is a step of the promise, or        *)
(* changes nothing that the promise speaks of.                             *)
LEMMA StepMaps ==
  ASSUME TypeOK, LineInv, SentOnce, [Next]_vars
  PROVE  [Promise!Next]_(Promise!vars)
<1>1. CASE Begin
  <2>1. /\ Stage = "idle" /\ Stage' = "connecting" /\ call' = call + 1
        /\ UNCHANGED <<clean, Pending, wire, accepted, result>>
    BY <1>1 DEF Begin, network, Stage, Pending
  <2> QED BY <2>1 DEF Promise!Begin, Promise!Next
<1>2. CASE NoFile
  <2>1. /\ Stage = "idle" /\ call' = call + 1 /\ clean' = FALSE
        /\ UNCHANGED <<Pending, wire, accepted>>
        /\ \/ Stage' = "crashed" /\ UNCHANGED result
           \/ \E status \in Status : Stage' = "idle" /\ result' = Append(result, status)
    BY <1>2 DEF NoFile, Return, network, Stage, Pending
  <2> QED BY <2>1 DEF Promise!SendNothing, Promise!Return, Promise!Next, Status
<1>3. CASE Reuse \/ Open \/ Refuse
  BY <1>3, ConnectingMaps DEF Promise!Next
<1>4. CASE SendHeader \/ FailHeader \/ SendPayload \/ FailPayload
  BY <1>4, WritingMaps DEF Promise!Next
<1>5. CASE \/ GetImageStream \/ GetStream \/ WaitEnds \/ WaitFails \/ ReadPiece
           \/ ReadTimesOut \/ ReadEnds
  BY <1>5, ReadingMaps DEF Promise!Next
<1>6. CASE Network
  BY <1>6, NetworkMaps DEF Promise!Next
<1>7. CASE UNCHANGED vars
  BY <1>7 DEF vars, client, network, Stage, Pending, Promise!vars
<1> QED BY <1>1, <1>2, <1>3, <1>4, <1>5, <1>6, <1>7 DEF Next, Client, Done

(* Client, server and network keep the promise: each message is judged     *)
(* once at most, that of a refused call never, and a call that connected   *)
(* when nothing was owed reports success only for an accepted message.     *)
THEOREM Refinement == Spec => KeepsPromise
<1>1. TypeOK /\ LineInv /\ SentOnce /\ [Next]_vars => [Promise!Next]_(Promise!vars)
  BY StepMaps
<1> QED BY <1>1, InitMaps, TypeCorrect, InvCorrect, SentOnceCorrect, PTL
        DEF Spec, KeepsPromise, Promise!Spec

-----------------------------------------------------------------------------
(* Calls run down.                                                         *)

(* One sequence of six numbers is below another where the first number     *)
(* that differs is less.                                                   *)
LEMMA FirstDifference ==
  ASSUME NEW a1, NEW a2, NEW a3, NEW a4, NEW a5, NEW a6,
         NEW b1, NEW b2, NEW b3, NEW b4, NEW b5, NEW b6,
         \/ a1 < b1
         \/ a1 = b1 /\ a2 < b2
         \/ a1 = b1 /\ a2 = b2 /\ a3 < b3
         \/ a1 = b1 /\ a2 = b2 /\ a3 = b3 /\ a4 < b4
         \/ a1 = b1 /\ a2 = b2 /\ a3 = b3 /\ a4 = b4 /\ a5 < b5
         \/ a1 = b1 /\ a2 = b2 /\ a3 = b3 /\ a4 = b4 /\ a5 = b5 /\ a6 < b6
  PROVE  Below(<<a1, a2, a3, a4, a5, a6>>, <<b1, b2, b3, b4, b5, b6>>)
<1> DEFINE a == <<a1, a2, a3, a4, a5, a6>>
<1> DEFINE b == <<b1, b2, b3, b4, b5, b6>>
<1>1. /\ a[1] = a1 /\ a[2] = a2 /\ a[3] = a3 /\ a[4] = a4 /\ a[5] = a5 /\ a[6] = a6
      /\ b[1] = b1 /\ b[2] = b2 /\ b[3] = b3 /\ b[4] = b4 /\ b[5] = b5 /\ b[6] = b6
  OBVIOUS
<1>2. /\ \A j \in 1 .. 1 - 1 : FALSE
      /\ \A j \in 1 .. 2 - 1 : j = 1
      /\ \A j \in 1 .. 3 - 1 : j = 1 \/ j = 2
      /\ \A j \in 1 .. 4 - 1 : j = 1 \/ j = 2 \/ j = 3
      /\ \A j \in 1 .. 5 - 1 : j = 1 \/ j = 2 \/ j = 3 \/ j = 4
      /\ \A j \in 1 .. 6 - 1 : j = 1 \/ j = 2 \/ j = 3 \/ j = 4 \/ j = 5
  OBVIOUS
<1> HIDE DEF a, b
<1>3. /\ 1 \in 1 .. 6 /\ 2 \in 1 .. 6 /\ 3 \in 1 .. 6
      /\ 4 \in 1 .. 6 /\ 5 \in 1 .. 6 /\ 6 \in 1 .. 6
  OBVIOUS
<1>4. CASE a1 < b1
  <2>1. a[1] < b[1] /\ \A j \in 1 .. 1 - 1 : a[j] = b[j]
    BY <1>1, <1>2, <1>4
  <2> QED BY <1>3, <2>1, SMT DEF Below
<1>5. CASE a1 = b1 /\ a2 < b2
  <2>1. a[2] < b[2] /\ \A j \in 1 .. 2 - 1 : a[j] = b[j]
    BY <1>1, <1>2, <1>5
  <2> QED BY <1>3, <2>1, SMT DEF Below
<1>6. CASE a1 = b1 /\ a2 = b2 /\ a3 < b3
  <2>1. a[3] < b[3] /\ \A j \in 1 .. 3 - 1 : a[j] = b[j]
    BY <1>1, <1>2, <1>6
  <2> QED BY <1>3, <2>1, SMT DEF Below
<1>7. CASE a1 = b1 /\ a2 = b2 /\ a3 = b3 /\ a4 < b4
  <2>1. a[4] < b[4] /\ \A j \in 1 .. 4 - 1 : a[j] = b[j]
    BY <1>1, <1>2, <1>7
  <2> QED BY <1>3, <2>1, SMT DEF Below
<1>8. CASE a1 = b1 /\ a2 = b2 /\ a3 = b3 /\ a4 = b4 /\ a5 < b5
  <2>1. a[5] < b[5] /\ \A j \in 1 .. 5 - 1 : a[j] = b[j]
    BY <1>1, <1>2, <1>8
  <2> QED BY <1>3, <2>1, SMT DEF Below
<1>9. CASE a1 = b1 /\ a2 = b2 /\ a3 = b3 /\ a4 = b4 /\ a5 = b5 /\ a6 < b6
  <2>1. a[6] < b[6] /\ \A j \in 1 .. 6 - 1 : a[j] = b[j]
    BY <1>1, <1>2, <1>9
  <2> QED BY <1>3, <2>1, SMT DEF Below
<1> QED BY <1>4, <1>5, <1>6, <1>7, <1>8, <1>9 DEF a, b

(* The steps of the client go forward, or write or read a piece.           *)
LEMMA ClientRunsDown ==
  ASSUME TypeOK, Client, pc \notin {"idle", "crashed"}
  PROVE  \/ Ahead(pc)' < Ahead(pc)
         \/ UNCHANGED <<pc, left, peer, stream, wire>> /\ Len(received') < Len(received)
         \/ UNCHANGED pc /\ left' < left
<1>1. ~Begin /\ ~NoFile
  BY DEF Begin, NoFile
<1>2. CASE Reuse \/ Open \/ Refuse \/ FailHeader
  BY <1>2 DEF Reuse, Open, Refuse, FailHeader, HeaderFailed, Return, Ahead
<1>3. CASE SendHeader \/ GetImageStream \/ GetStream \/ WaitEnds
  BY <1>3 DEF SendHeader, GetImageStream, GetStream, WaitEnds, Ahead
<1>4. CASE SendPayload \/ FailPayload
  <2>1. left \in Int /\ NextWrite /\ pc \in Writing
    BY <1>4, CallAssumption DEF TypeOK, SendPayload, FailPayload
  <2>2. CASE pc = "text"
    <3>1. pc' = "imageStream"
      BY <2>1, <2>2 DEF NextWrite
    <3> QED BY <2>2, <3>1 DEF Ahead
  <2>3. CASE pc = "image"
    <3>1. left' = left - 1 /\ (pc' = "payload" \/ pc' = pc)
      BY <2>1, <2>3 DEF NextWrite
    <3>2. pc' = "payload" => Ahead(pc)' < Ahead(pc)
      BY <2>3 DEF Ahead
    <3>3. left' < left
      BY <2>1, <3>1
    <3> QED BY <3>1, <3>2, <3>3
  <2>4. CASE pc = "payload"
    <3>1. pc' = "stream"
      BY <2>1, <2>4 DEF NextWrite
    <3> QED BY <2>4, <3>1 DEF Ahead
  <2> QED BY <2>1, <2>2, <2>3, <2>4 DEF Writing
<1>5. CASE WaitFails \/ ReadTimesOut \/ ReadEnds
  BY <1>5 DEF WaitFails, ReadTimesOut, ReadEnds, Return, Ahead
<1>6. CASE ReadPiece
  <2>1. received' = Tail(received) /\ received # <<>> /\ received \in Seq(Piece)
    BY <1>6 DEF ReadPiece, Available, TypeOK
  <2>2. Len(received') < Len(received)
    BY <2>1, HeadTailProperties, LenProperties
  <2> QED BY <1>6, <2>2 DEF ReadPiece, network
<1> QED BY <1>1, <1>2, <1>3, <1>4, <1>5, <1>6 DEF Client

(* The steps of the network break the connection, which happens once, or   *)
(* bring something nearer to the client.                                   *)
LEMMA NetworkRunsDown ==
  ASSUME TypeOK, Network
  PROVE  /\ UNCHANGED <<pc, left>>
         /\ \/ peer = "up" /\ peer' # "up"
            \/ UNCHANGED peer /\ Len(stream') < Len(stream)
            \/ UNCHANGED <<peer, stream>> /\ Len(wire') < Len(wire)
<1>1. CASE Answer
  <2>1. PICK n \in 1 .. Len(stream) : stream' = SubSeq(stream, n + 1, Len(stream))
    BY <1>1 DEF Answer
  <2>2. stream \in Seq(Chunk) /\ Len(stream) \in Nat
    BY LenProperties DEF TypeOK
  <2>3. Len(stream') = Len(stream) - n
    BY <2>1, <2>2, RequestTaken
  <2>4. Len(stream') < Len(stream)
    BY <2>2, <2>3
  <2> QED BY <1>1, <2>4 DEF Answer, client
<1>4. CASE Misread
  <2>1. UNCHANGED <<pc, left>> /\ peer = "up"
    BY <1>4 DEF Misread, client
  <2>2. CASE peer' = "closed"
    BY <2>1, <2>2
  <2>3. CASE peer' # "closed"
    <3>1. PICK n \in 1 .. Len(stream) :
             /\ \E m \in n + 1 .. Len(stream) : stream' = SubSeq(stream, m + 1, Len(stream))
             /\ UNCHANGED peer
      BY <1>4, <2>3 DEF Misread
    <3>2. stream \in Seq(Chunk) /\ Len(stream) \in Nat
      BY LenProperties DEF TypeOK
    <3>3. PICK m \in 1 .. Len(stream) : stream' = SubSeq(stream, m + 1, Len(stream))
      <4>1. \A m \in n + 1 .. Len(stream) : m \in 1 .. Len(stream)
        BY <3>2
      <4> QED BY <3>1, <4>1
    <3>4. Len(stream') = Len(stream) - m
      BY <3>2, <3>3, RequestTaken
    <3>5. Len(stream') < Len(stream)
      BY <3>2, <3>3, <3>4
    <3> QED BY <2>1, <3>1, <3>5
  <2> QED BY <2>2, <2>3
<1>2. CASE Arrive
  <2>1. wire' = Tail(wire) /\ wire # <<>> /\ wire \in Seq(Piece)
    BY <1>2 DEF Arrive, TypeOK
  <2>2. Len(wire') < Len(wire)
    BY <2>1, HeadTailProperties, LenProperties
  <2> QED BY <1>2, <2>2 DEF Arrive
<1>3. CASE Break
  BY <1>3 DEF Break, client
<1> QED BY <1>1, <1>2, <1>3, <1>4 DEF Network

(* Each step within a call leaves less before it, for any number of pieces *)
(* and whatever server and network do: no call goes round in circles.      *)
THEOREM RunsDownCorrect == Spec => CallsRunDown
<1>1. TypeOK /\ [Next]_vars
        => [pc \notin {"idle", "crashed"} => Below(Remaining', Remaining)]_vars
  <2> SUFFICES ASSUME TypeOK, [Next]_vars, pc \notin {"idle", "crashed"}, ~UNCHANGED vars
               PROVE  Below(Remaining', Remaining)
    OBVIOUS
  <2> DEFINE up == IF peer = "up" THEN 1 ELSE 0
  <2>1. \/ Ahead(pc)' < Ahead(pc)
        \/ UNCHANGED pc /\ left' < left
        \/ UNCHANGED <<pc, left, peer, stream, wire>> /\ Len(received') < Len(received)
        \/ UNCHANGED <<pc, left>> /\ peer = "up" /\ peer' # "up"
        \/ UNCHANGED <<pc, left, peer>> /\ Len(stream') < Len(stream)
        \/ UNCHANGED <<pc, left, peer, stream>> /\ Len(wire') < Len(wire)
    <3>1. CASE Client
      BY <3>1, ClientRunsDown
    <3>2. CASE Network
      BY <3>2, NetworkRunsDown
    <3>3. ~Done
      BY DEF Done
    <3> QED BY <3>1, <3>2, <3>3 DEF Next
  <2>2. peer = "up" /\ peer' # "up" => up' < up
    OBVIOUS
  <2>3. UNCHANGED pc => Ahead(pc)' = Ahead(pc)
    OBVIOUS
  <2>4. UNCHANGED peer => up' = up
    OBVIOUS
  <2>5. \/ Ahead(pc)' < Ahead(pc)
        \/ Ahead(pc)' = Ahead(pc) /\ left' < left
        \/ Ahead(pc)' = Ahead(pc) /\ left' = left /\ up' < up
        \/ Ahead(pc)' = Ahead(pc) /\ left' = left /\ up' = up /\ Len(stream') < Len(stream)
        \/ /\ Ahead(pc)' = Ahead(pc) /\ left' = left /\ up' = up /\ Len(stream') = Len(stream)
           /\ Len(wire') < Len(wire)
        \/ /\ Ahead(pc)' = Ahead(pc) /\ left' = left /\ up' = up /\ Len(stream') = Len(stream)
           /\ Len(wire') = Len(wire) /\ Len(received') < Len(received)
    <3> HIDE DEF up
    <3> QED BY <2>1, <2>2, <2>3, <2>4
  <2>6. /\ Remaining = <<Ahead(pc), left, up, Len(stream), Len(wire), Len(received)>>
        /\ Remaining' = <<Ahead(pc)', left', up', Len(stream'), Len(wire'), Len(received')>>
    BY DEF Remaining
  <2> HIDE DEF up
  <2>7. Below(<<Ahead(pc)', left', up', Len(stream'), Len(wire'), Len(received')>>,
              <<Ahead(pc), left, up, Len(stream), Len(wire), Len(received)>>)
    BY <2>5, FirstDifference, ZenonT(60)
  <2> QED BY <2>6, <2>7, Zenon
<1> QED BY <1>1, TypeCorrect, PTL DEF Spec, CallsRunDown

=============================================================================
