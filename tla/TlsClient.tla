----------------------------- MODULE TlsClient ------------------------------
(***************************************************************************)
(* One connection of the HTTP client: http_connect() of HTTPClientESP32Ex, *)
(* its WiFiClientSecureESP32 and the calls of mbedTLS in ssl_client32.     *)
(*                                                                         *)
(* start_ssl_client acquires in a dozen steps a socket, four contexts and  *)
(* up to three certificates, and may fail at each; stop() gives back what  *)
(* it knows of.  Socket numbers are used again as soon as they are closed, *)
(* by whatever task of the program opens a socket next.                    *)
(*                                                                         *)
(* mbedTLS, lwIP and the server are modelled by the outcomes their calls   *)
(* can have.  The bytes the server sends are numbered.                     *)
(***************************************************************************)
EXTENDS Integers, Sequences, FiniteSets

CONSTANTS
  Slots,        \* the socket numbers lwIP can give
  Settings,     \* what a connection is set up with
  Timeout,      \* handshake_timeout, in ticks
  MaxConnects,  \* bound: connections tried
  MaxBytes,     \* bound: bytes the server sends on one of them
  MaxAsks       \* bound: calls of socket()

\* A certificate of the client and its key are given each on its own; the
\* connect() with a pre-shared key passes neither on.
Setting ==
  {s \in [auth : {"none", "ca", "psk"}, cert : BOOLEAN, key : BOOLEAN, starttls : BOOLEAN] :
     s.auth = "psk" => ~s.cert /\ ~s.key}

ASSUME ClientAssumption ==
  /\ Slots \subseteq Nat /\ IsFiniteSet(Slots)
  /\ Settings \subseteq Setting
  /\ Timeout \in Nat /\ MaxConnects \in Nat /\ MaxBytes \in Nat /\ MaxAsks \in Nat

\* The steps of start_ssl_client that can fail.
SetUpStep == {"resolve", "tcp", "starttls", "seed", "defaults", "ca", "psk",
              "cert", "key", "hostname", "setup"}
Step == {"socket", "handshake", "verify"} \cup SetUpStep

Engine == {"ssl", "conf", "drbg", "entropy"}
Certificates == {"ca", "cert", "key"}
Context == Engine \cup Certificates

VARIABLES
  pc,         \* idle, a step of start_ssl_client, or a step of a call
  why,        \* why stop() runs: failed, broken, asked for or replaced
  setting,    \* what the connection was set up with
  created,    \* _tcp is not null
  socket,     \* sslclient->socket, or -1
  connected,  \* _connected
  peek,       \* _peek: a byte, or -1
  ctx,        \* each context: raw memory, initialised, or holding memory
  waited,     \* ticks since the handshake began
  owner,      \* lwIP: who has opened each socket
  session,    \* the server's end: none, up, closed in order, or broken
  stalled,    \* the server takes nothing more
  arrived,    \* bytes that arrived in this session
  given,      \* the bytes read() returned, in order
  connects,   \* history: connections tried
  asked,      \* history: sockets that socket() has forgotten
  misclosed,  \* history: a close of a socket that was not the client's
  early,      \* history: a connection failed before the generator was seeded
  wild,       \* history: contexts freed without being initialised, and the
              \* settings they were freed under
  rejected    \* history: this connection was refused by the late verdict

object == <<created, socket, connected, peek, ctx>>
control == <<pc, why, setting, waited>>
network == <<owner, session, stalled, arrived>>
history == <<given, connects, asked, misclosed, early, wild, rejected>>
vars == <<control, object, network, history>>

\* Slip: the random generator is left out.
ssl_initTwo == [c \in Context |-> IF c \in {"ssl", "conf"} THEN "clean" ELSE "raw"]

\* ssl_init leaves the entropy context and the certificates as they are.
ssl_init == [c \in Context |-> IF c \in {"ssl", "conf", "drbg"} THEN "clean" ELSE "raw"]

Init ==
  /\ pc = "idle" /\ why = "asked" /\ setting \in Settings /\ waited = 0
  /\ created = FALSE /\ socket = -1 /\ connected = FALSE /\ peek = -1
  /\ ctx = ssl_init
  /\ owner = [fd \in Slots |-> "none"]
  /\ session = "none" /\ stalled = FALSE /\ arrived = 0
  /\ given = <<>> /\ connects = 0
  /\ asked = {} /\ misclosed = FALSE /\ early = FALSE /\ wild = {} /\ rejected = FALSE

\* The bytes taken from mbedTLS: those given, and the one in _peek.
Taken == Len(given) + (IF peek = -1 THEN 0 ELSE 1)

\* Slip: what arrived before the end is not looked for.
BrokenAtOnce == connected /\ (ctx["ssl"] # "full" \/ session # "up")

\* data_to_read() fails: mbedTLS was shut down, or the session is over and
\* all of it was taken.
Broken == connected /\ (ctx["ssl"] # "full" \/ (session # "up" /\ Taken >= arrived))

-----------------------------------------------------------------------------
(* start_ssl_client.                                                       *)

\* The certificate is loaded only together with the key.
AfterAuth == IF setting.cert /\ setting.key THEN "cert" ELSE "hostname"

NextStep ==
  CASE pc = "socket" -> "resolve"
    [] pc = "resolve" -> "tcp"
    [] pc = "tcp" -> IF setting.starttls THEN "starttls" ELSE "seed"
    [] pc = "starttls" -> "seed"
    [] pc = "seed" -> "defaults"
    [] pc = "defaults" -> IF setting.auth = "none" THEN AfterAuth ELSE setting.auth
    [] pc \in {"ca", "psk"} -> AfterAuth
    [] pc = "cert" -> "key"
    [] pc = "key" -> "hostname"
    [] pc = "hostname" -> "setup"
    [] pc = "setup" -> "handshake"
    [] pc = "handshake" -> "verify"

\* The contexts a step initialises and the ones it then fills.
Initialised(step) ==
  CASE step = "seed" -> {"entropy"} [] step = "ca" -> {"ca"} [] step = "cert" -> {"cert", "key"}
    [] OTHER -> {}
Filled(step) ==
  CASE step = "seed" -> {"entropy", "drbg"} [] step \in {"defaults", "psk"} -> {"conf"}
    [] step \in Certificates -> {step} [] step \in {"hostname", "setup"} -> {"ssl"}
    [] OTHER -> {}

\* A step that fails may have filled its contexts or not.
Made(step, full) ==
  [c \in Context |-> CASE c \in full -> "full"
                       [] c \in Initialised(step) \ full -> "clean"
                       [] OTHER -> ctx[c]]

\* Slip: the error is returned at once.
FailAtOnce == pc' = "idle" /\ why' = "failed"

\* connect() hands an error to its caller after a stop().
Fail == pc' = "close" /\ why' = "failed"

OpenSocket ==
  /\ pc = "socket"
  /\ \/ \E fd \in Slots :
          /\ owner[fd] = "none"
          /\ owner' = [owner EXCEPT ![fd] = "client"]
          /\ socket' = fd
          /\ pc' = NextStep /\ UNCHANGED <<why, early>>
     \/ /\ \A fd \in Slots : owner[fd] # "none"
        /\ socket' = -1
        /\ Fail /\ early' = TRUE /\ UNCHANGED owner
  /\ UNCHANGED <<setting, waited, created, connected, peek, ctx, session, stalled, arrived,
                 given, connects, asked, misclosed, wild, rejected>>

\* DNS, the TCP connection, the exchange before STARTTLS, the set-up of
\* mbedTLS: each goes on to the next or ends in an error.
SetUp ==
  /\ pc \in SetUpStep
  /\ \/ /\ ctx' = Made(pc, Filled(pc))
        /\ pc' = NextStep /\ UNCHANGED <<why, early>>
     \/ /\ \E full \in SUBSET Filled(pc) : ctx' = Made(pc, full)
        /\ Fail /\ early' = (early \/ pc \in {"resolve", "tcp", "starttls"})
  /\ waited' = 0
  /\ UNCHANGED <<setting, created, socket, connected, peek, network,
                 given, connects, asked, misclosed, wild, rejected>>

\* Slip: the time is counted from the last answer of the server.
HandshakeForEver ==
  /\ pc = "handshake"
  /\ \/ pc' = NextStep /\ session' = "up" /\ UNCHANGED <<why, waited>>
     \/ Fail /\ UNCHANGED <<waited, session>>
     \/ UNCHANGED <<pc, why, session>> /\ waited' = IF waited = 0 THEN 1 ELSE 0
  /\ UNCHANGED <<setting, object, owner, stalled, arrived, history>>

\* Slip: the loop ends a tick late.
HandshakeLate ==
  /\ pc = "handshake"
  /\ \/ pc' = NextStep /\ session' = "up" /\ UNCHANGED <<why, waited>>
     \/ Fail /\ UNCHANGED <<waited, session>>
     \/ /\ IF waited > Timeout + 1
             THEN Fail /\ UNCHANGED waited
             ELSE waited' = waited + 1 /\ UNCHANGED <<pc, why>>
        /\ UNCHANGED session
  /\ UNCHANGED <<setting, object, owner, stalled, arrived, history>>

\* The loop over mbedtls_ssl_handshake: done, an error, or one more wait.
Handshake ==
  /\ pc = "handshake"
  /\ \/ pc' = NextStep /\ session' = "up" /\ UNCHANGED <<why, waited>>
     \/ Fail /\ UNCHANGED <<waited, session>>
     \/ /\ IF waited > Timeout
             THEN Fail /\ UNCHANGED waited
             ELSE waited' = waited + 1 /\ UNCHANGED <<pc, why>>
        /\ UNCHANGED session
  /\ UNCHANGED <<setting, object, owner, stalled, arrived, history>>

FreedRaw(freed) ==
  wild' = wild \cup {[context |-> c, of |-> setting] : c \in {d \in freed : ctx[d] = "raw"}}

\* The certificates are not needed after the handshake: each is freed if its
\* own pointer was given.
Pointers ==
  {c \in Certificates :
     CASE c = "ca" -> setting.auth = "ca" [] c = "cert" -> setting.cert [] c = "key" -> setting.key}
FreeCertificates ==
  /\ FreedRaw(Pointers)
  /\ ctx' = [c \in Context |-> IF c \in Pointers THEN "clean" ELSE ctx[c]]

Verified ==
  /\ pc = "verify"
  /\ FreeCertificates
  /\ connected' = TRUE
  /\ pc' = "idle"
  /\ UNCHANGED <<why, setting, waited, created, socket, peek, network,
                 given, connects, asked, misclosed, early, rejected>>

\* The late verdict stops the session and returns what `ret' was left at: 0 by
\* the handshake, or the expansion of a record.  connect() takes both for
\* success.
LateVerdict ==
  /\ pc = "verify"
  /\ owner' = [owner EXCEPT ![socket] = "none"] /\ socket' = -1
  /\ ctx' = [c \in Context |-> IF c \in Engine THEN "clean" ELSE ctx[c]]
  /\ session' = "none"
  /\ connected' = TRUE /\ rejected' = TRUE
  /\ pc' = "idle"
  /\ UNCHANGED <<why, setting, waited, created, peek, stalled, arrived,
                 given, connects, asked, misclosed, early, wild>>

StartSsl == OpenSocket \/ SetUp \/ Handshake \/ Verified \/ LateVerdict

-----------------------------------------------------------------------------
(* stop(), in two parts: another task may run between them.                *)

CloseSocket ==
  /\ owner' = IF socket = -1 THEN owner ELSE [owner EXCEPT ![socket] = "none"]
  /\ misclosed' = (misclosed \/ (socket # -1 /\ owner[socket] # "client"))
  /\ session' = IF socket = -1 THEN session ELSE "none"

\* Slip: the number is kept after the close.
CloseAndKeep ==
  /\ pc = "close"
  /\ CloseSocket
  /\ connected' = IF socket = -1 THEN connected ELSE FALSE
  /\ peek' = IF socket = -1 THEN peek ELSE -1
  /\ pc' = "free"
  /\ UNCHANGED <<why, setting, waited, created, socket, ctx, stalled, arrived,
                 given, connects, asked, early, wild, rejected>>

\* WiFiClientSecureESP32::stop() up to its call of stop_ssl_socket.
Close ==
  /\ pc = "close"
  /\ CloseSocket
  /\ socket' = -1
  /\ connected' = IF socket = -1 THEN connected ELSE FALSE
  /\ peek' = IF socket = -1 THEN peek ELSE -1
  /\ pc' = "free"
  /\ UNCHANGED <<why, setting, waited, created, ctx, stalled, arrived,
                 given, connects, asked, early, wild, rejected>>

\* stop_ssl_socket(); the destructor goes on with a new client.
Free ==
  /\ pc = "free"
  /\ CloseSocket
  /\ socket' = -1
  /\ FreedRaw(Engine)
  /\ ctx' = [c \in Context |-> IF c \in Engine THEN "clean" ELSE ctx[c]]
  /\ pc' = IF why = "replaced" THEN "create" ELSE "idle"
  /\ UNCHANGED <<why, setting, waited, created, connected, peek, stalled, arrived,
                 given, connects, asked, early, rejected>>

-----------------------------------------------------------------------------
(* The calls.                                                              *)

\* http_connect() when http_connected() says no: a new client takes the
\* place of the old one, which is destroyed.
HttpConnect ==
  /\ pc = "idle" /\ ~connected /\ connects < MaxConnects
  /\ connects' = connects + 1
  /\ why' = "replaced"
  /\ pc' = IF created THEN "close" ELSE "create"
  /\ UNCHANGED <<setting, waited, object, network, given, asked, misclosed, early, wild, rejected>>

Create ==
  /\ pc = "create"
  /\ created' = TRUE /\ socket' = -1 /\ connected' = FALSE /\ peek' = -1
  /\ ctx' = ssl_init
  /\ setting' \in Settings
  /\ session' = "none" /\ stalled' = FALSE /\ arrived' = 0
  /\ given' = <<>> /\ rejected' = FALSE
  /\ pc' = "socket"
  /\ UNCHANGED <<why, waited, owner, connects, asked, misclosed, early, wild>>

\* available() or connected(), and read() when there is nothing left: they
\* notice that the session is over.  A client without a socket is stopped
\* again and stays connected.
Probe ==
  /\ pc = "idle" /\ Broken
  /\ pc' = "close" /\ why' = "broken"
  /\ UNCHANGED <<setting, waited, object, network, history>>

\* peek(): a byte is taken from mbedTLS and kept.
Peek ==
  /\ pc = "idle" /\ connected /\ ~Broken /\ peek = -1 /\ Taken < arrived
  /\ peek' = Taken + 1
  /\ UNCHANGED <<control, created, socket, connected, ctx, network, history>>

\* read() of the byte in _peek, or of the next one.
Read ==
  /\ pc = "idle" /\ connected /\ ~Broken /\ (peek # -1 \/ Taken < arrived)
  /\ given' = Append(given, IF peek = -1 THEN Taken + 1 ELSE peek)
  /\ peek' = -1
  /\ UNCHANGED <<control, created, socket, connected, ctx, network,
                 connects, asked, misclosed, early, wild, rejected>>

\* write() enters the loop of send_ssl_data.
Send ==
  /\ pc = "idle" /\ connected
  /\ pc' = "send"
  /\ UNCHANGED <<why, setting, waited, object, network, history>>

\* The loop asks again while mbedTLS wants to write.
SendLoop ==
  /\ pc = "send"
  /\ CASE ctx["ssl"] # "full" \/ session \in {"none", "broken"} ->
              pc' = "close" /\ why' = "broken"
       [] stalled /\ session \in {"up", "closed"} -> UNCHANGED <<pc, why>>
       [] OTHER -> pc' = "idle" /\ UNCHANGED why
  /\ UNCHANGED <<setting, waited, object, network, history>>

Stop ==
  /\ pc = "idle" /\ created
  /\ pc' = "close" /\ why' = "asked"
  /\ UNCHANGED <<setting, waited, object, network, history>>

\* socket() returns `sslclient->socket = -1': mbedTLS, which reads the number
\* from there, is cut off.
AskSocket ==
  /\ pc = "idle" /\ socket # -1 /\ Cardinality(asked) < MaxAsks
  /\ asked' = asked \cup {socket}
  /\ socket' = -1
  /\ session' = "broken" /\ arrived' \in {Taken, arrived}
  /\ UNCHANGED <<control, created, connected, peek, ctx, owner, stalled,
                 given, connects, misclosed, early, wild, rejected>>

Client ==
  \/ StartSsl \/ Close \/ Free \/ Create \/ SendLoop

Calls == HttpConnect \/ Probe \/ Peek \/ Read \/ Send \/ Stop \/ AskSocket

-----------------------------------------------------------------------------
(* Around the client.                                                      *)

\* Another task opens and closes sockets.
OtherTask ==
  /\ \E fd \in Slots :
       \/ owner[fd] = "none" /\ owner' = [owner EXCEPT ![fd] = "other"]
       \/ owner[fd] = "other" /\ owner' = [owner EXCEPT ![fd] = "none"]
  /\ UNCHANGED <<control, object, session, stalled, arrived, history>>

Arrive ==
  /\ session = "up" /\ arrived < MaxBytes
  /\ arrived' = arrived + 1
  /\ UNCHANGED <<control, object, owner, session, stalled, history>>

\* The server closes the session: what it sent before is still read.
End ==
  /\ session = "up" /\ session' = "closed"
  /\ UNCHANGED <<control, object, owner, stalled, arrived, history>>

\* The server, or the way to it, takes nothing more.
Stall ==
  /\ session \in {"up", "closed"} /\ ~stalled /\ stalled' = TRUE
  /\ UNCHANGED <<control, object, owner, session, arrived, history>>

\* TCP gives the connection up; bytes that were not decrypted are gone.
GiveUp ==
  /\ session \in {"up", "closed"}
  /\ session' = "broken"
  /\ arrived' \in {Taken, arrived}
  /\ UNCHANGED <<control, object, owner, stalled, history>>

Network == OtherTask \/ Arrive \/ End \/ Stall \/ GiveUp

Done == pc = "idle" /\ connects = MaxConnects /\ ~connected /\ UNCHANGED vars

Next == Client \/ Calls \/ Network \/ Done

Spec == Init /\ [][Next]_vars

(* The client runs on, and TCP does not wait for ever for a server that    *)
(* takes nothing.                                                          *)
FairSpec == Spec /\ WF_vars(Client) /\ WF_vars(stalled /\ GiveUp)

-----------------------------------------------------------------------------
(* Properties.                                                             *)

TypeOK ==
  /\ pc \in {"idle", "create", "close", "free", "send"} \cup Step
  /\ why \in {"failed", "broken", "asked", "replaced"}
  /\ setting \in Settings
  /\ created \in BOOLEAN /\ connected \in BOOLEAN
  /\ socket \in Slots \cup {-1}
  /\ peek \in (1 .. MaxBytes) \cup {-1}
  /\ ctx \in [Context -> {"raw", "clean", "full"}]
  /\ waited \in 0 .. Timeout + 1
  /\ owner \in [Slots -> {"none", "client", "other"}]
  /\ session \in {"none", "up", "closed", "broken"}
  /\ stalled \in BOOLEAN
  /\ arrived \in 0 .. MaxBytes
  /\ given \in Seq(1 .. MaxBytes)
  /\ connects \in 0 .. MaxConnects
  /\ asked \subseteq Slots
  /\ wild \subseteq [context : Context, of : Settings]
  /\ {misclosed, early, rejected} \subseteq BOOLEAN

(* The sockets open in the client's name are the one it knows of and those *)
(* that socket() made it forget, and it closes none that is not its own,   *)
(* whichever way it fails and whoever opens a socket with the same number  *)
(* between the two closes of stop().                                       *)
OwnSocketOnly ==
  /\ ~misclosed
  /\ {fd \in Slots : owner[fd] = "client"} = ({socket} \ {-1}) \cup asked

(* Between calls a client either is connected, with a socket, a session    *)
(* set up in full and no certificates held, or holds nothing but the       *)
(* certificates of a connection that failed.  Left out are a client that   *)
(* was asked for its socket and one that the late verdict refused: they    *)
(* say they are connected.                                                 *)
Settled ==
  pc = "idle" /\ created /\ asked = {} /\ ~rejected =>
    IF connected
      THEN /\ socket # -1
           /\ \A c \in Engine : ctx[c] = "full"
           /\ \A c \in Certificates : ctx[c] # "full"
      ELSE /\ socket = -1 /\ peek = -1
           /\ \A c \in Engine : ctx[c] # "full"

(* Contexts are initialised before they are freed.  The code breaks this   *)
(* in two cases and in no other: when a connection failed before the       *)
(* random generator was seeded, stop() frees an entropy context that       *)
(* nobody initialised; and when a certificate was given without its key,   *)
(* or the key without it, the end of start_ssl_client frees the one that   *)
(* was given, which it had not loaded.                                     *)
FreedAfterMade ==
  \A w \in wild :
    \/ w.context = "entropy" /\ early
    \/ w.context \in {"cert", "key"} /\ w.of.cert # w.of.key

(* The bytes of a session are read in order and once, whether peeked at    *)
(* before or not, and a session that the server closed is left only when   *)
(* all were read, but for one that was peeked at.                          *)
NothingLost ==
  /\ \A i \in 1 .. Len(given) : given[i] = i
  /\ pc = "close" /\ why = "broken" /\ session = "closed" => Taken = arrived

(* Every call of the client returns: the handshake is bounded by its       *)
(* timeout, and the loops by the end of the session.                       *)
CallReturns == pc # "idle" ~> pc = "idle"

\* What a call has before it: its steps to the end, a failure included, and
\* the time left to the handshake.
Ahead ==
  CASE pc = "idle" -> 0
    [] pc = "free" -> IF why = "replaced" THEN Timeout + 20 ELSE 1
    [] pc = "close" -> IF why = "replaced" THEN Timeout + 21 ELSE 2
    [] pc \in {"send", "verify"} -> 3
    [] pc = "handshake" -> Timeout + 5 - waited
    [] pc = "setup" -> Timeout + 6 [] pc = "hostname" -> Timeout + 7 [] pc = "key" -> Timeout + 8
    [] pc = "cert" -> Timeout + 9 [] pc \in {"ca", "psk"} -> Timeout + 10
    [] pc = "defaults" -> Timeout + 11 [] pc = "seed" -> Timeout + 12
    [] pc = "starttls" -> Timeout + 13 [] pc = "tcp" -> Timeout + 14
    [] pc = "resolve" -> Timeout + 15 [] pc = "socket" -> Timeout + 16
    [] pc = "create" -> Timeout + 17

(* Within a call the client never goes back: connecting, failing and       *)
(* closing come one after the other, and every turn of the handshake costs *)
(* time.  Only the loop of send_ssl_data turns on the spot.                *)
CallsRunDown == [][pc # "idle" => UNCHANGED control \/ (Ahead' \in Nat /\ Ahead' < Ahead)]_vars

=============================================================================
