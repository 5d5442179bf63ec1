----------------------------- MODULE LineNotify -----------------------------
(***************************************************************************)
(* Sending LINE messages: LineNotifyESP32 on top of HTTPClientESP32Ex and  *)
(* its TLS socket WiFiClientSecureESP32.                                   *)
(*                                                                         *)
(* A call writes a request header, then the message, which for an image    *)
(* takes many writes, then reads whatever arrives as its answer.  The      *)
(* connection is kept from call to call, and an answer carries no mark of  *)
(* the request it belongs to.  On the other side are the LINE server and a *)
(* network that delays answers, cuts them into pieces, and breaks the      *)
(* connection with or without the client noticing.                         *)
(***************************************************************************)
EXTENDS Integers, Sequences

CONSTANTS
  MaxCalls,   \* bound: calls made
  MaxPieces,  \* bound: pieces of 512 bytes an image is written in
  Tolerant,   \* the calls that go on after a failed header: sendLineMessage
  Long,       \* the calls whose text is longer than a TLS record
  Upload      \* the calls of sendLineImageData, sendLineImageSPIF and
              \* sendLineImageSD; the rest are sendLineSticker or
              \* sendLineImageURL

ASSUME CallAssumption ==
  /\ MaxCalls \in Nat /\ MaxPieces \in Nat \ {0}
  /\ Tolerant \subseteq 1 .. MaxCalls /\ Upload \subseteq (1 .. MaxCalls) \ Tolerant
  /\ Long \subseteq 1 .. MaxCalls

Call == 1 .. MaxCalls

\* What a call returns; Refused is HTTPC_ERROR_CONNECTION_REFUSED in a uint8_t.
Status == {"SentCompleted", "SentFailed", "ConnectionFailed", "Refused"}

\* An answer in three pieces: the start of its status line, the rest of that
\* line, and everything after it.
Verdict == {"accepted", "rejected"}
Piece == {"start", "tail"} \cup Verdict
Answers(verdict) == <<"start", verdict, "tail">>

\* What the server reads: headers, parts of a message and the ends of
\* messages, each of some call.  A message that ends short is one whose text
\* went out up to the end of a TLS record and no further; the header has
\* announced all of it.
Chunk ==
  [call : Call \ Long, part : {"header", "part", "message"}] \cup
  [call : Long, part : {"header", "part", "short"}]
Ends == {"message", "short"}

VARIABLES
  pc,         \* where the current call is
  call,       \* the number of the current or last call
  socket,     \* _tcp: none, open, or one whose _connected is false
  received,   \* pieces that arrived and were not read
  lineBuf,    \* the local of waitLineResponse: it holds the start of a line
  httpCode,   \* the local of waitLineResponse
  left,       \* pieces of the image that are not written yet
  result,     \* what the calls so far returned
  peer,       \* the server's end: up, closed, or gone without a word
  wire,       \* pieces on their way to the client
  stream,     \* chunks that reached the server and were not handled
  accepted,   \* the calls whose messages the server accepted
  clean       \* history: this call connected, and no answer was owed then

client == <<pc, call, socket, received, lineBuf, httpCode, left, result, clean>>
network == <<peer, wire, stream, accepted>>
vars == <<client, network>>

TypeOK ==
  /\ pc \in {"idle", "connect", "header", "text", "imageStream", "image", "payload",
             "stream", "wait", "read", "crashed"}
  /\ call \in 0 .. MaxCalls /\ (pc # "idle" => call \in Call)
  /\ socket \in {"none", "open", "stopped"}
  /\ received \in Seq(Piece) /\ wire \in Seq(Piece)
  /\ lineBuf \in BOOLEAN
  /\ httpCode \in Verdict \cup {"none", "timeout"}
  /\ left \in 0 .. MaxPieces /\ (pc = "image" => left # 0)
  /\ result \in Seq(Status)
  /\ peer \in {"up", "closed", "gone"}
  /\ stream \in Seq(Chunk)
  /\ accepted \subseteq Call
  /\ clean \in BOOLEAN

Init ==
  /\ pc = "idle" /\ call = 0
  /\ socket = "none" /\ peer = "closed"
  /\ received = <<>> /\ wire = <<>> /\ stream = <<>>
  /\ lineBuf = FALSE /\ httpCode = "none" /\ left = 0
  /\ result = <<>> /\ accepted = {}
  /\ clean = TRUE

-----------------------------------------------------------------------------
(* The socket.                                                             *)

Available == socket = "open" /\ received # <<>>

\* available() and connected() try the TLS session.  The end of a session
\* the server closed shows when all it sent has been read; the loss of a
\* server that is gone does not show at all.
Connected == socket = "open" /\ (peer # "closed" \/ received # <<>> \/ wire # <<>>)

\* The first use of a session that has ended stops the socket.
Probed == IF socket = "open" /\ ~Connected THEN "stopped" ELSE socket

Stop == socket' = "stopped" /\ received' = <<>>

\* A write reaches a server that is up, and vanishes otherwise.
Write(part) ==
  stream' = IF socket = "open" /\ peer = "up"
              THEN Append(stream, [call |-> call, part |-> part]) ELSE stream

Return(status) ==
  /\ result' = Append(result, status)
  /\ pc' = "idle"

-----------------------------------------------------------------------------
(* The client.                                                             *)

\* http_begin() and the text of the message.
Begin ==
  /\ pc = "idle" /\ call < MaxCalls
  /\ call' = call + 1
  /\ pc' = "connect"
  /\ left' = 0
  /\ UNCHANGED <<socket, received, lineBuf, httpCode, result, clean, network>>

\* sendLineImageFile without its file: sdTest() fails, or the function runs
\* off its end and what it returns, if it returns, is undefined.
NoFile ==
  /\ pc = "idle" /\ call < MaxCalls /\ call + 1 \in Upload
  /\ call' = call + 1
  /\ clean' = FALSE /\ left' = 0
  /\ \/ \E status \in Status : Return(status)
     \/ pc' = "crashed" /\ UNCHANGED result
  /\ UNCHANGED <<socket, received, lineBuf, httpCode, network>>

\* Slip: the answers that arrived late are left in the socket.
ReuseUndrained ==
  /\ pc = "connect" /\ Connected
  /\ clean' = (wire = <<>> /\ stream = <<>>)
  /\ pc' = "header"
  /\ UNCHANGED <<call, left, socket, received, lineBuf, httpCode, result, network>>

\* http_connect() over a kept connection: what has arrived is thrown away.
Reuse ==
  /\ pc = "connect" /\ Connected
  /\ received' = <<>>
  /\ clean' = (wire = <<>> /\ stream = <<>>)
  /\ pc' = "header"
  /\ UNCHANGED <<call, left, socket, lineBuf, httpCode, result, network>>

\* http_connect() with a new socket.
Open ==
  /\ pc = "connect" /\ ~Connected
  /\ socket' = "open" /\ peer' = "up"
  /\ received' = <<>> /\ wire' = <<>> /\ stream' = <<>>
  /\ clean' = TRUE
  /\ pc' = "header"
  /\ UNCHANGED <<call, left, lineBuf, httpCode, result, accepted>>

\* Slip: the code of http_sendRequest is returned as it is.
HeaderFailedAsIs ==
  IF call \in Tolerant
    THEN pc' = "payload" /\ UNCHANGED result
    ELSE Return("HeaderFailed")

\* After a failed header a Tolerant call goes on, the others give up.
HeaderFailed ==
  IF call \in Tolerant
    THEN pc' = "payload" /\ UNCHANGED result
    ELSE Return("Refused")

\* http_connect() fails: the new socket never opened.
Refuse ==
  /\ pc = "connect" /\ ~Connected
  /\ Stop
  /\ peer' = "closed" /\ wire' = <<>> /\ stream' = <<>>
  /\ clean' = TRUE
  /\ HeaderFailed
  /\ UNCHANGED <<call, left, lineBuf, httpCode, accepted>>

\* http_sendHeader() over a session that is, or seems, connected ...
SendHeader ==
  /\ pc = "header" /\ Connected
  /\ Write("header")
  /\ pc' = IF call \in Upload THEN "text" ELSE "payload"
  /\ UNCHANGED <<call, socket, received, lineBuf, httpCode, left, result, clean, peer, wire,
                 accepted>>

\* ... fails, in the test or in the write, and the socket is stopped.
FailHeader ==
  /\ pc = "header"
  /\ Stop
  /\ HeaderFailed
  /\ UNCHANGED <<call, left, lineBuf, httpCode, clean, network>>

\* Where a call writes its message, and where it goes from one write to the
\* next.  The text and the header of an image are one write here, and the
\* line end and the boundary after it: two writes that fail alike.
Writing == {"text", "image", "payload"}
NextWrite ==
  CASE pc = "text" -> pc' = "imageStream" /\ UNCHANGED left
    [] pc = "image" -> /\ left' = left - 1
                       /\ pc' = IF left = 1 THEN "payload" ELSE "image"
    [] pc = "payload" -> pc' = "stream" /\ UNCHANGED left

\* The end of the message.  A write hands its bytes to mbedtls_ssl_write()
\* once, which takes a TLS record of them and says so; the socket stays open,
\* the caller does not look at SEND_PAYLOAD_FAILED, and nobody writes the
\* rest.  Only a text can be that long: an image goes in pieces of 512 bytes.
\* Whichever write cut it, the server finds out when the message should end.
LastPart == IF call \in Long THEN "short" ELSE "message"

\* http_sendRequest("", message) and write() of the image: the write does not
\* look at the connection; one to a stopped socket does nothing.
SendPayload ==
  /\ pc \in Writing
  /\ Write(IF pc = "payload" THEN LastPart ELSE "part")
  /\ NextWrite
  /\ UNCHANGED <<call, socket, received, lineBuf, httpCode, result, clean, peer, wire, accepted>>

\* Slip: a failed write leaves the socket as it is.
FailPayloadOpen ==
  /\ pc \in Writing /\ socket = "open"
  /\ NextWrite
  /\ UNCHANGED <<call, socket, received, lineBuf, httpCode, result, clean, network>>

FailPayload ==
  /\ pc \in Writing /\ socket = "open"
  /\ Stop
  /\ NextWrite
  /\ UNCHANGED <<call, lineBuf, httpCode, result, clean, network>>

\* The image is written through the pointer of http_getStreamPtr(), which is
\* null unless connected; an image without bytes is not written.
GetImageStream ==
  /\ pc = "imageStream"
  /\ socket' = Probed
  /\ \/ left' \in 1 .. MaxPieces /\ pc' = IF Connected THEN "image" ELSE "crashed"
     \/ left' = 0 /\ pc' = "payload"
  /\ UNCHANGED <<call, received, lineBuf, httpCode, result, clean, network>>

\* The pointer of http_getStreamPtr() is null unless connected, and
\* waitLineResponse calls through it at once.
GetStream ==
  /\ pc = "stream"
  /\ socket' = Probed
  /\ lineBuf' = FALSE /\ httpCode' = "none"
  /\ pc' = IF Connected THEN "wait" ELSE "crashed"
  /\ UNCHANGED <<call, left, received, result, clean, network>>

\* The waiting loop ends with bytes to read ...
WaitEnds ==
  /\ pc = "wait" /\ Available
  /\ pc' = "read"
  /\ UNCHANGED <<call, left, socket, received, lineBuf, httpCode, result, clean, network>>

\* Slip: the loop waits for bytes or the end of the connection, not for time.
WaitsForever ==
  /\ pc = "wait" /\ ~Available
  /\ IF Connected
       THEN UNCHANGED vars
       ELSE /\ socket' = Probed
            /\ Return("SentFailed")
            /\ UNCHANGED <<call, left, received, lineBuf, httpCode, clean, network>>

\* ... or without: the connection ended, or tcpTimeout passed.
WaitFails ==
  /\ pc = "wait" /\ ~Available
  /\ socket' = Probed
  /\ Return("SentFailed")
  /\ UNCHANGED <<call, left, received, lineBuf, httpCode, clean, network>>

\* A status line counts only with its start, and replaces the code of the
\* one before.
ReadPiece ==
  /\ pc = "read" /\ Available
  /\ received' = Tail(received)
  /\ lineBuf' = (Head(received) = "start")
  /\ httpCode' = IF Head(received) \in Verdict /\ lineBuf THEN Head(received) ELSE httpCode
  /\ UNCHANGED <<pc, call, left, socket, result, clean, network>>

\* Bytes without a line end kept coming for longer than tcpTimeout.
ReadTimesOut ==
  /\ pc = "read" /\ Available /\ Head(received) \notin Verdict
  /\ received' = Tail(received)
  /\ httpCode' = "timeout"
  /\ Return("SentFailed")
  /\ UNCHANGED <<call, left, socket, lineBuf, clean, network>>

\* Reading ends as soon as there is nothing to read, even within a line.
ReadEnds ==
  /\ pc = "read" /\ ~Available
  /\ socket' = Probed
  /\ Return(IF httpCode = "accepted" THEN "SentCompleted" ELSE "SentFailed")
  /\ UNCHANGED <<call, left, received, lineBuf, httpCode, clean, network>>

Client ==
  \/ Begin \/ NoFile \/ Reuse \/ Open \/ Refuse \/ SendHeader \/ FailHeader
  \/ SendPayload \/ FailPayload \/ GetImageStream \/ GetStream \/ WaitEnds \/ WaitFails
  \/ ReadPiece \/ ReadTimesOut \/ ReadEnds

-----------------------------------------------------------------------------
(* The server and the network.                                             *)

\* The server answers requests in order, once it has all of one.  The content
\* length of an image is two bytes short, which leaves an empty line in front
\* of the next header, where servers skip it.
Answer ==
  /\ peer = "up"
  /\ \E n \in 1 .. Len(stream), verdict \in Verdict :
       /\ stream[n].part = "message" /\ \A i \in 1 .. n - 1 : stream[i].part \notin Ends
       /\ stream' = SubSeq(stream, n + 1, Len(stream))
       /\ accepted' = IF verdict = "accepted"
                        THEN accepted \cup {stream[n].call} ELSE accepted
       /\ wire' = wire \o Answers(verdict)
  /\ UNCHANGED <<client, peer>>

\* A message that came short is complete, for the server, when the requests
\* after it have filled it up.  What follows is a header, if the filling ended
\* with a request, or nothing a server can read, and it closes the connection.
Misread ==
  /\ peer = "up"
  /\ \E n \in 1 .. Len(stream), verdict \in Verdict :
       /\ stream[n].part = "short" /\ \A i \in 1 .. n - 1 : stream[i].part \notin Ends
       /\ stream[Len(stream)].call # stream[n].call
       /\ accepted' = IF verdict = "accepted"
                        THEN accepted \cup {stream[n].call} ELSE accepted
       /\ \/ /\ \E m \in n + 1 .. Len(stream) :
                  stream[m].part \in Ends /\ stream' = SubSeq(stream, m + 1, Len(stream))
             /\ wire' = wire \o Answers(verdict)
             /\ UNCHANGED peer
          \/ /\ peer' = "closed" /\ stream' = <<>>
             /\ wire' = wire \o Answers(verdict) \o Answers("rejected")
  /\ UNCHANGED client

Arrive ==
  /\ wire # <<>> /\ socket = "open"
  /\ received' = Append(received, Head(wire))
  /\ wire' = Tail(wire)
  /\ UNCHANGED <<pc, call, left, socket, lineBuf, httpCode, result, clean, peer, stream, accepted>>

\* The connection breaks, in the open or not, and what was on its way is
\* lost or still comes.
Break ==
  /\ peer = "up"
  /\ peer' \in {"closed", "gone"}
  /\ wire' \in {wire, <<>>}
  /\ stream' = <<>>
  /\ UNCHANGED <<client, accepted>>

Network == Answer \/ Misread \/ Arrive \/ Break

\* The system stops when the calls are made, or the microcontroller crashed.
Done ==
  /\ pc = "crashed" \/ (pc = "idle" /\ call = MaxCalls)
  /\ UNCHANGED vars

Next == Client \/ Network \/ Done

Spec == Init /\ [][Next]_vars

(* The client runs on; its waits for bytes are bounded by tcpTimeout.      *)
FairSpec == Spec /\ WF_vars(Client)

-----------------------------------------------------------------------------
(* Properties.                                                             *)

Returns(status) == result' # result /\ result'[Len(result')] = status

(* A call that connected when no answer to an earlier one was still owed   *)
(* and that reports success was accepted by the server: http_connect reads *)
(* away what came too late, so no old answer is left to be taken for new.  *)
CompletedIsOwn == [][Returns("SentCompleted") /\ clean' => call' \in accepted]_vars

Framed(chunks) ==
  \A i \in 1 .. Len(chunks) :
    IF i = 1 \/ chunks[i - 1].part \in Ends
      THEN chunks[i].part = "header"
      ELSE chunks[i].part # "header" /\ chunks[i].call = chunks[i - 1].call

(* On each connection come header, message, header, message, each message  *)
(* in all its parts and with the header of its own call: a write that      *)
(* fails in the middle of a request stops the socket, so no later header   *)
(* comes in the middle of an earlier message.  The exception is what the   *)
(* code does with a text longer than a TLS record: its message is short,   *)
(* the socket stays open, and the next header is read as the rest of it.   *)
RequestsAreFramed == Framed(stream)

\* A request is half written only while the call that writes it is about to
\* write the rest, or where nothing will be written any more.
HeaderIsOpen ==
  socket = "open" =>
    IF pc \in Writing \cup {"imageStream"} /\ peer = "up"
      THEN /\ stream # <<>>
           /\ stream[Len(stream)].part \notin Ends /\ stream[Len(stream)].call = call
      ELSE stream # <<>> => stream[Len(stream)].part \in Ends

Accepts(pieces) == \E i \in 1 .. Len(pieces) : pieces[i] = "accepted"

\* Whatever a clean call still has to read is about its own message.
AnswersAreOwn ==
  clean /\ pc \notin {"idle", "connect"} =>
    /\ \A i \in 1 .. Len(stream) : stream[i].call = call
    /\ Accepts(wire) \/ Accepts(received) => call \in accepted
    /\ pc = "read" /\ httpCode = "accepted" => call \in accepted
    /\ pc = "wait" => httpCode = "none"

(* Why framing and ownership hold: a request that is half written and the  *)
(* answers under way belong to the running call, at every step of it and   *)
(* of the network.                                                         *)
LineInv == RequestsAreFramed /\ HeaderIsOpen /\ AnswersAreOwn

\* The calls whose messages are among the chunks.
MessagesIn(chunks) ==
  {c \in Call : \E i \in 1 .. Len(chunks) : chunks[i].call = c /\ chunks[i].part \in Ends}
Pending == MessagesIn(stream)

\* Messages reach the server in the order of their calls, each once.
Unsent == {"connect", "header"} \cup Writing \cup {"imageStream"}
SentOnce ==
  /\ \A i \in 1 .. Len(stream) : stream[i].call <= call
  /\ \A c \in accepted : c <= call
  /\ pc \in Unsent => call \notin accepted \cup Pending
  /\ \A i, j \in 1 .. Len(stream) :
       i < j /\ stream[i].part \in Ends => stream[i].call < stream[j].call
  /\ Pending \cap accepted = {}

Stage ==
  CASE pc \in {"idle", "crashed"} -> pc [] pc = "connect" -> "connecting" [] OTHER -> "talking"

Promise == INSTANCE LinePromise WITH stage <- Stage, pending <- Pending, owed <- wire # <<>>

(* Every behaviour of client, server and network is one the promise        *)
(* allows: a message is accepted once at most, that of a refused call      *)
(* never, and success is truthful where no old answer was owed.  A message *)
(* that came short is judged with what later calls sent, and may take      *)
(* their messages with it.                                                 *)
KeepsPromise == Promise!Spec

(* Every call comes back to the sketch, which runs nothing else meanwhile, *)
(* or the microcontroller restarts: whatever the network does, no wait of  *)
(* a call is without end.                                                  *)
CallReturns == (pc # "idle") ~> (pc \in {"idle", "crashed"})

\* What a call has before it: its own steps, pieces to write, a break of the
\* connection, and what is to be judged, to arrive and to be read.
Ahead(p) ==
  CASE p = "connect" -> 9 [] p = "header" -> 8 [] p = "text" -> 7 [] p = "imageStream" -> 6
    [] p = "image" -> 5 [] p = "payload" -> 4 [] p = "stream" -> 3 [] p = "wait" -> 2
    [] p = "read" -> 1 [] OTHER -> 0
Remaining ==
  <<Ahead(pc), left, IF peer = "up" THEN 1 ELSE 0, Len(stream), Len(wire), Len(received)>>
Below(a, b) == \E i \in 1 .. 6 : a[i] < b[i] /\ \A j \in 1 .. i - 1 : a[j] = b[j]

(* No call goes round in circles: each step within a call, of the client,  *)
(* of the server or of the network, leaves less before it, so a call has   *)
(* finitely many steps whatever the other side does.                       *)
CallsRunDown == [][pc \notin {"idle", "crashed"} => Below(Remaining', Remaining)]_vars

(* LineNotifyESP32.h:129 of sendLineMessage: it returns one of three codes,*)
(* CONNECTION_FAILED when there is no connection.                          *)
MessageCallReturns == pc # "crashed"

(* LineNotifyESP32.h:129 of sendLineMessage: SENT_COMPLETED says that the  *)
(* message of this call was sent.                                          *)
CompletedMeansSent == [][Returns("SentCompleted") => call' \in accepted]_vars

=============================================================================
