-------------------------- MODULE TlsClientProofs ---------------------------
(***************************************************************************)
(* Proofs about TlsClient, for any number of sockets, any settings and any *)
(* number of connections and bytes: types, who owns which socket, what a   *)
(* client holds between calls, which contexts are freed, and the order of  *)
(* the bytes read.                                                         *)
(***************************************************************************)
EXTENDS TlsClient, TLAPS

-----------------------------------------------------------------------------
(* The inductive invariant.                                                *)

\* What was given is what the server sent, in order; a byte that is peeked at
\* is the next one, and belongs to a client that is connected.
Reading ==
  /\ \A i \in 1 .. Len(given) : given[i] = i
  /\ peek # -1 => connected /\ peek = Len(given) + 1
  /\ Taken <= arrived

\* The client knows its socket, from the moment it is open to its close.
Sockets ==
  /\ ~misclosed
  /\ \A fd \in Slots : owner[fd] = "client" <=> fd = socket \/ fd \in asked
  /\ socket \notin asked
  /\ pc \in {"create", "free", "socket"} => socket = -1
  /\ pc \in Step \ {"socket"} => socket # -1
  /\ ~created => socket = -1 /\ ~connected /\ pc \in {"idle", "create"}

\* A session that is up has a socket and mbedTLS; one that is left as broken
\* does not come up again.
Sessions ==
  /\ session \in {"up", "closed"} => socket # -1 /\ ctx["ssl"] = "full"
  /\ pc = "close" /\ why = "broken" => session # "up"
  /\ pc = "close" /\ why = "broken" /\ session = "closed" => Taken = arrived

\* The contexts fill up along start_ssl_client.
Seeded == Step \ {"socket", "resolve", "tcp", "starttls", "seed"}

Contexts ==
  /\ \A c \in {"ssl", "conf", "drbg"} : ctx[c] # "raw"
  /\ ctx["entropy"] = "raw" =>
       early \/ ~created \/ pc \in {"socket", "resolve", "tcp", "starttls", "seed"}
  /\ pc \in Seeded => ctx["entropy"] = "full" /\ ctx["drbg"] = "full"
  /\ pc \in Seeded \ {"defaults"} => ctx["conf"] = "full"
  /\ pc \in {"setup", "handshake", "verify"} => ctx["ssl"] = "full"

\* The certificates are initialised on the way, the client's only with both
\* of them given, and none is loaded that was not given.
Loading ==
  /\ pc \in {"ca", "psk"} => setting.auth = pc
  /\ pc \in {"cert", "key"} => setting.cert /\ setting.key
  /\ \A c \in Certificates : ctx[c] = "full" => c \in Pointers
  /\ setting.auth = "ca" /\ pc \in {"cert", "key", "hostname", "setup", "handshake", "verify"} =>
       ctx["ca"] # "raw"
  /\ setting.cert /\ setting.key /\ pc \in {"key", "hostname", "setup", "handshake", "verify"} =>
       ctx["cert"] # "raw" /\ ctx["key"] # "raw"

\* A client is connected at the end of start_ssl_client and until stop().
Connection ==
  /\ pc \in Step => ~connected
  /\ pc = "send" => connected
  /\ created /\ asked = {} /\ ~rejected =>
       /\ connected => /\ pc \in {"idle", "send", "close"}
                       /\ socket # -1
                       /\ \A c \in Engine : ctx[c] = "full"
                       /\ \A c \in Certificates : ctx[c] # "full"
       /\ ~connected /\ pc = "idle" => /\ socket = -1
                                       /\ \A c \in Engine : ctx[c] # "full"

\* With the types, each part holds on from step to step given the parts it
\* is proved from.
IInv ==
  /\ TypeOK /\ Reading /\ Sockets /\ Sessions /\ Contexts /\ Loading /\ FreedAfterMade
  /\ Connection

-----------------------------------------------------------------------------
(* Types.                                                                  *)

LEMMA NewType ==
  /\ ssl_init \in [Context -> {"raw", "clean", "full"}]
  /\ <<>> \in Seq(1 .. MaxBytes)
BY DEF ssl_init

LEMMA InitType == Init => TypeOK
<1> SUFFICES ASSUME Init PROVE TypeOK
  OBVIOUS
<1>1. given \in Seq(1 .. MaxBytes) /\ ctx \in [Context -> {"raw", "clean", "full"}]
  BY NewType, Zenon DEF Init
<1>2. /\ setting \in Settings /\ owner \in [Slots -> {"none", "client", "other"}]
      /\ connects \in 0 .. MaxConnects /\ arrived \in 0 .. MaxBytes /\ waited \in 0 .. Timeout + 1
  BY ClientAssumption DEF Init
<1>3. /\ asked \subseteq Slots /\ {misclosed, early, rejected} \subseteq BOOLEAN
      /\ wild \subseteq [context : Context, of : Settings]
  BY DEF Init
<1>4. /\ pc = "idle" /\ why = "asked" /\ created \in BOOLEAN /\ connected \in BOOLEAN
      /\ socket = -1 /\ peek = -1 /\ session = "none" /\ stalled \in BOOLEAN
  BY DEF Init
<1> QED BY <1>1, <1>2, <1>3, <1>4 DEF TypeOK

(* The fields that an action of the set-up of a connection changes.        *)
LEMMA NextStepType ==
  ASSUME TypeOK, pc \in Step
  PROVE  /\ pc # "verify" => NextStep \in Step
         /\ pc = "socket" => NextStep = "resolve"
         /\ pc \in SetUpStep => NextStep \in (SetUpStep \ {"resolve"}) \cup {"handshake"}
         /\ pc = "handshake" => NextStep = "verify"
<1>1. setting.auth \in {"none", "ca", "psk"}
  BY ClientAssumption DEF TypeOK, Setting
<1> QED BY <1>1 DEF Step, SetUpStep, NextStep, AfterAuth

(* What a step of the set-up makes of the contexts.                        *)
LEMMA MadeType ==
  ASSUME TypeOK, pc \in SetUpStep, NEW full \in SUBSET Filled(pc)
  PROVE  Made(pc, full) \in [Context -> {"raw", "clean", "full"}]
BY DEF Made, TypeOK, Context

(* What was freed without being initialised.                               *)
LEMMA FreedType ==
  ASSUME TypeOK, NEW freed \in SUBSET Context, FreedRaw(freed)
  PROVE  wild' \subseteq [context : Context, of : Settings]
<1>1. setting \in Settings /\ wild \subseteq [context : Context, of : Settings]
  BY DEF TypeOK
<1>2. \A c \in freed : [context |-> c, of |-> setting] \in [context : Context, of : Settings]
  BY <1>1
<1> QED BY <1>1, <1>2 DEF FreedRaw

LEMMA TypeStep == TypeOK /\ Reading /\ [Next]_vars => TypeOK'
<1> SUFFICES ASSUME TypeOK, Reading, [Next]_vars PROVE TypeOK'
  OBVIOUS
<1>0. /\ Slots \subseteq Nat /\ Timeout \in Nat /\ MaxConnects \in Nat
      /\ MaxBytes \in Nat /\ MaxAsks \in Nat
      /\ given \in Seq(1 .. MaxBytes) /\ Len(given) \in Nat
      /\ arrived \in 0 .. MaxBytes /\ Taken \in 0 .. arrived
  BY ClientAssumption DEF TypeOK, Reading, Taken
<1>1. CASE OpenSocket
  BY <1>0, <1>1, NextStepType, ZenonT(60) DEF TypeOK, OpenSocket, Fail, Step
<1>2. CASE SetUp
  <2>1. ctx' \in [Context -> {"raw", "clean", "full"}]
    BY <1>2, MadeType DEF SetUp
  <2>2. pc' \in Step \cup {"close"} /\ why' \in {why, "failed"} /\ early' \in BOOLEAN
    BY <1>2, NextStepType DEF SetUp, Fail, Step, TypeOK
  <2> QED BY <1>0, <1>2, <2>1, <2>2 DEF TypeOK, SetUp, network
<1>3. CASE Handshake
  BY <1>0, <1>3, NextStepType DEF TypeOK, Handshake, Fail, Step, object, history
<1>4. CASE Verified
  <2>1. wild' \subseteq [context : Context, of : Settings]
    <3>1. Pointers \in SUBSET Context
      BY DEF Pointers, Context
    <3> QED BY <1>4, <3>1, FreedType DEF Verified, FreeCertificates
  <2> QED BY <1>0, <1>4, <2>1 DEF TypeOK, Verified, FreeCertificates, network, Context, Step
<1>16. CASE LateVerdict
  BY <1>0, <1>16 DEF TypeOK, LateVerdict, Context, Step
<1>5. CASE Close
  BY <1>0, <1>5 DEF TypeOK, Close, CloseSocket
<1>6. CASE Free
  <2>1. wild' \subseteq [context : Context, of : Settings]
    <3>1. Engine \in SUBSET Context
      BY DEF Context
    <3> QED BY <1>6, <3>1, FreedType DEF Free
  <2> QED BY <1>0, <1>6, <2>1 DEF TypeOK, Free, CloseSocket, Context
<1>7. CASE HttpConnect
  BY <1>0, <1>7 DEF TypeOK, HttpConnect, object, network
<1>8. CASE Create
  <2>1. given' \in Seq(1 .. MaxBytes) /\ ctx' \in [Context -> {"raw", "clean", "full"}]
    BY <1>8, NewType, Zenon DEF Create
  <2>2. /\ pc' \in Step /\ created' \in BOOLEAN /\ connected' \in BOOLEAN /\ stalled' \in BOOLEAN
        /\ socket' = -1 /\ peek' = -1 /\ session' = "none" /\ arrived' = 0
        /\ setting' \in Settings /\ rejected' \in BOOLEAN
        /\ UNCHANGED <<why, waited, owner, connects, asked, misclosed, early, wild>>
    BY <1>8 DEF Create, Step
  <2> QED BY <1>0, <2>1, <2>2 DEF TypeOK
<1>9. CASE Probe \/ Send \/ Stop \/ SendLoop
  BY <1>0, <1>9 DEF TypeOK, Probe, Send, Stop, SendLoop, object, network, history
<1>10. CASE Peek
  BY <1>0, <1>10 DEF TypeOK, Peek, Taken, control, network, history
<1>11. CASE Read
  <2>1. (IF peek = -1 THEN Taken + 1 ELSE peek) \in 1 .. MaxBytes
    BY <1>0, <1>11 DEF Read, TypeOK
  <2>2. given' \in Seq(1 .. MaxBytes)
    BY <1>0, <1>11, <2>1 DEF Read
  <2> QED BY <1>0, <1>11, <2>2 DEF TypeOK, Read, control, network
<1>12. CASE AskSocket
  BY <1>0, <1>12 DEF TypeOK, AskSocket, control
<1>13. CASE OtherTask
  BY <1>0, <1>13 DEF TypeOK, OtherTask, control, object, history
<1>14. CASE Arrive \/ End \/ Stall \/ GiveUp
  <2>1. CASE Arrive
    BY <1>0, <2>1 DEF TypeOK, Arrive, control, object, history
  <2>2. CASE End \/ Stall
    BY <1>0, <2>2 DEF TypeOK, End, Stall, control, object, history
  <2>3. CASE GiveUp
    <3>1. arrived' \in 0 .. MaxBytes
      BY <1>0, <2>3 DEF GiveUp
    <3> QED BY <2>3, <3>1 DEF TypeOK, GiveUp, control, object, history
  <2> QED BY <1>14, <2>1, <2>2, <2>3
<1>15. CASE UNCHANGED vars
  BY <1>15 DEF TypeOK, vars, control, object, network, history
<1> QED BY <1>1, <1>2, <1>3, <1>4, <1>5, <1>6, <1>7, <1>8, <1>9, <1>10, <1>11, <1>12, <1>13,
           <1>14, <1>15, <1>16
        DEF Next, Client, StartSsl, Calls, Network, Done

-----------------------------------------------------------------------------
(* Reading.                                                                *)

LEMMA ReadingStep == TypeOK /\ Reading /\ [Next]_vars => Reading'
<1> SUFFICES ASSUME TypeOK, Reading, [Next]_vars PROVE Reading'
  OBVIOUS
<1>0. /\ given \in Seq(Nat) /\ Len(given) \in Nat /\ arrived \in Nat
      /\ Taken = Len(given) + (IF peek = -1 THEN 0 ELSE 1)
      /\ Taken <= arrived
  BY ClientAssumption DEF TypeOK, Reading, Taken
<1> USE DEF Reading, Taken
<1>1. CASE UNCHANGED <<peek, connected, given, arrived>>
  BY <1>1
<1>2. CASE Verified \/ LateVerdict
  BY <1>2 DEF Verified, LateVerdict, network
<1>3. CASE Close
  BY <1>0, <1>3 DEF Close
<1>4. CASE Create
  BY <1>4 DEF Create
<1>5. CASE Peek
  BY <1>0, <1>5 DEF Peek, network, history
<1>6. CASE Read
  <2>1. given' = Append(given, Len(given) + 1)
    BY <1>0, <1>6 DEF Read
  <2>2. /\ Len(given') = Len(given) + 1
        /\ \A i \in 1 .. Len(given) : given'[i] = given[i]
        /\ given'[Len(given) + 1] = Len(given) + 1
    BY <1>0, <2>1
  <2> QED BY <1>0, <1>6, <2>2 DEF Read, network
<1>7. CASE Arrive
  BY <1>0, <1>7 DEF Arrive, object, history
<1>8. CASE AskSocket
  BY <1>0, <1>8 DEF AskSocket
<1>9. CASE GiveUp
  BY <1>0, <1>9 DEF GiveUp, object, history
<1> QED BY <1>1, <1>2, <1>3, <1>4, <1>5, <1>6, <1>7, <1>8, <1>9
        DEF Next, Client, StartSsl, Calls, Network, Done, OpenSocket, SetUp, Handshake, Free,
            HttpConnect, Probe, Send, SendLoop, Stop, OtherTask, End, Stall,
            control, object, network, history, vars

-----------------------------------------------------------------------------
(* Sockets.                                                                *)

(* A close of the socket the client knows takes it off the client's list;  *)
(* a close of none changes nothing.                                        *)
LEMMA CloseOwn ==
  ASSUME TypeOK, Sockets, CloseSocket
  PROVE  /\ ~misclosed'
         /\ \A fd \in Slots : owner'[fd] = "client" <=> fd \in asked
<1>1. /\ ~misclosed /\ owner \in [Slots -> {"none", "client", "other"}]
      /\ socket \in Slots \cup {-1} /\ -1 \notin Slots /\ socket \notin asked
      /\ \A fd \in Slots : owner[fd] = "client" <=> fd = socket \/ fd \in asked
  BY ClientAssumption DEF TypeOK, Sockets
<1>2. CASE socket = -1
  BY <1>1, <1>2 DEF CloseSocket
<1>3. CASE socket # -1
  BY <1>1, <1>3 DEF CloseSocket
<1> QED BY <1>2, <1>3

LEMMA SocketsStep == TypeOK /\ Sockets /\ [Next]_vars => Sockets'
<1> SUFFICES ASSUME TypeOK, Sockets, [Next]_vars PROVE Sockets'
  OBVIOUS
<1>0. /\ -1 \notin Slots /\ owner \in [Slots -> {"none", "client", "other"}]
      /\ socket \in Slots \cup {-1} /\ asked \subseteq Slots
      /\ ~misclosed /\ \A fd \in Slots : owner[fd] = "client" <=> fd = socket \/ fd \in asked
      /\ socket \notin asked
  BY ClientAssumption DEF TypeOK, Sockets
<1> USE DEF Step, SetUpStep
<1>1. CASE OpenSocket
  <2>1. CASE \E fd \in Slots : owner[fd] = "none" /\ owner' = [owner EXCEPT ![fd] = "client"]
                               /\ socket' = fd /\ pc' = NextStep
    <3>1. PICK fd \in Slots : /\ owner[fd] = "none" /\ owner' = [owner EXCEPT ![fd] = "client"]
                              /\ socket' = fd /\ pc' = NextStep
      BY <2>1
    <3>2. socket = -1 /\ pc' = "resolve" /\ asked' = asked /\ misclosed' = misclosed
      BY <1>1, <3>1, NextStepType DEF OpenSocket, Sockets
    <3>3. \A f \in Slots : owner'[f] = "client" <=> f = fd \/ f \in asked
      BY <1>0, <3>1, <3>2
    <3> QED BY <1>0, <1>1, <3>1, <3>2, <3>3 DEF OpenSocket, Sockets
  <2>2. CASE socket' = -1 /\ Fail /\ UNCHANGED owner
    BY <1>0, <1>1, <2>2 DEF OpenSocket, Fail, Sockets
  <2> QED BY <1>1, <2>1, <2>2 DEF OpenSocket
<1>2. CASE SetUp
  BY <1>2, NextStepType DEF SetUp, Fail, Sockets, network
<1>3. CASE Handshake
  BY <1>3, NextStepType DEF Handshake, Fail, Sockets, object, history
<1>4. CASE Verified
  BY <1>4 DEF Verified, Sockets, network
<1>5. CASE LateVerdict
  <2>1. socket \in Slots /\ created
    BY <1>0, <1>5 DEF LateVerdict, Sockets, TypeOK
  <2>2. \A fd \in Slots : owner'[fd] = "client" <=> owner[fd] = "client" /\ fd # socket
    BY <1>0, <1>5, <2>1 DEF LateVerdict
  <2> QED BY <1>0, <1>5, <2>1, <2>2 DEF LateVerdict, Sockets
<1>6. CASE Close
  BY <1>0, <1>6, CloseOwn DEF Close, Sockets
<1>7. CASE Free
  BY <1>0, <1>7, CloseOwn DEF Free, Sockets
<1>8. CASE Create
  BY <1>0, <1>8 DEF Create, Sockets
<1>9. CASE HttpConnect
  BY <1>9 DEF HttpConnect, Sockets, object, network
<1>10. CASE Probe \/ Send \/ Stop \/ SendLoop
  <2>1. pc \in {"idle", "send"} /\ pc' \in {"idle", "send", "close"} /\ created
    BY <1>10 DEF Probe, Send, Stop, SendLoop, Broken, Sockets
  <2>2. UNCHANGED <<object, network, history>>
    BY <1>10 DEF Probe, Send, Stop, SendLoop
  <2> QED BY <2>1, <2>2 DEF Sockets, object, network, history
<1>11. CASE Peek \/ Read
  BY <1>11 DEF Peek, Read, Sockets, control, network, history
<1>12. CASE AskSocket
  BY <1>0, <1>12 DEF AskSocket, Sockets, control
<1>13. CASE OtherTask
  <2>1. \A fd \in Slots : owner'[fd] = "client" <=> owner[fd] = "client"
    BY <1>0, <1>13 DEF OtherTask
  <2> QED BY <1>0, <1>13, <2>1 DEF OtherTask, Sockets, control, object, history
<1>14. CASE Arrive \/ End \/ Stall \/ GiveUp \/ UNCHANGED vars
  BY <1>14 DEF Arrive, End, Stall, GiveUp, vars, Sockets,
              control, object, network, history
<1> QED BY <1>1, <1>2, <1>3, <1>4, <1>5, <1>6, <1>7, <1>8, <1>9, <1>10, <1>11, <1>12, <1>13,
           <1>14
        DEF Next, Client, StartSsl, Calls, Network, Done

-----------------------------------------------------------------------------
(* Sessions and contexts.                                                  *)

(* A step of the set-up keeps what was made and makes its own.             *)
LEMMA MadeSo ==
  ASSUME TypeOK, NEW full, NEW c \in Context
  PROVE  /\ c \in full => Made(pc, full)[c] = "full"
         /\ ctx[c] = "full" /\ c \notin Initialised(pc) => Made(pc, full)[c] = "full"
         /\ ctx[c] # "raw" => Made(pc, full)[c] # "raw"
         /\ c \in Initialised(pc) => Made(pc, full)[c] # "raw"
         /\ c \notin Initialised(pc) /\ c \notin full => Made(pc, full)[c] = ctx[c]
BY DEF Made

(* What the SetUp step at each position initialises of the engine.         *)
LEMMA InitialisedSo ==
  /\ "ssl" \notin Initialised(pc) /\ "conf" \notin Initialised(pc)
  /\ "drbg" \notin Initialised(pc)
  /\ "entropy" \in Initialised(pc) <=> pc = "seed"
BY DEF Initialised

LEMMA FilledSo ==
  /\ Filled("seed") = {"entropy", "drbg"}
  /\ Filled("defaults") = {"conf"}
  /\ Filled("hostname") = {"ssl"} /\ Filled("setup") = {"ssl"}
BY DEF Filled, Certificates

(* The order of the steps.                                                 *)
LEMMA NextStepSo ==
  ASSUME TypeOK, pc \in SetUpStep
  PROVE  /\ NextStep \in Seeded => pc = "seed" \/ pc \in Seeded
         /\ NextStep \in Seeded \ {"defaults"} => pc = "defaults" \/ pc \in Seeded \ {"defaults"}
         /\ NextStep \in {"setup", "handshake", "verify"} => pc \in {"hostname", "setup"}
         /\ NextStep # "verify" /\ NextStep # "resolve" /\ NextStep # "socket"
         /\ NextStep = "handshake" => pc = "setup"
<1>1. setting.auth \in {"none", "ca", "psk"}
  BY ClientAssumption DEF TypeOK, Setting
<1> QED BY <1>1, ZenonT(60) DEF SetUpStep, Seeded, Step, NextStep, AfterAuth

LEMMA ContextsStep == TypeOK /\ Sockets /\ Contexts /\ [Next]_vars => Contexts'
<1> SUFFICES ASSUME TypeOK, Sockets, Contexts, [Next]_vars PROVE Contexts'
  OBVIOUS
<1> USE DEF Contexts
<1>0. /\ ctx \in [Context -> {"raw", "clean", "full"}]
      /\ Context = {"ssl", "conf", "drbg", "entropy", "ca", "cert", "key"}
      /\ Engine = {"ssl", "conf", "drbg", "entropy"}
      /\ Certificates = {"ca", "cert", "key"}
      /\ Seeded = {"defaults", "ca", "psk", "cert", "key", "hostname", "setup", "handshake",
                   "verify"}
  BY DEF TypeOK, Context, Engine, Certificates, Seeded, Step, SetUpStep
<1>1. CASE OpenSocket
  <2>1. pc' \in {"resolve", "close"} /\ (pc' = "close" => early')
    BY <1>1, NextStepType DEF OpenSocket, Fail, Step
  <2>2. UNCHANGED <<ctx, created>> /\ (early => early')
    BY <1>1 DEF OpenSocket
  <2>3. ctx["entropy"] = "raw" => pc' = "resolve" \/ early'
    BY <2>1
  <2> QED BY <1>0, <2>1, <2>2, <2>3
<1>2. CASE SetUp
  <2>1. ASSUME ctx' = Made(pc, Filled(pc)), pc' = NextStep, early' = early
        PROVE  Contexts'
    <3>1. pc \in SetUpStep /\ created' = created
      BY <1>2 DEF SetUp
    <3>2. /\ \A c \in {"ssl", "conf", "drbg"} : ctx'[c] # "raw"
          /\ \A c \in {"ssl", "conf", "drbg"} : ctx[c] = "full" => ctx'[c] = "full"
          /\ pc # "seed" => (ctx'["entropy"] = "raw" <=> ctx["entropy"] = "raw")
          /\ pc # "seed" /\ ctx["entropy"] = "full" => ctx'["entropy"] = "full"
          /\ pc = "seed" => ctx'["entropy"] = "full" /\ ctx'["drbg"] = "full"
          /\ pc = "defaults" => ctx'["conf"] = "full"
          /\ pc \in {"hostname", "setup"} => ctx'["ssl"] = "full"
      <4>1. \A c \in {"ssl", "conf", "drbg"} :
              /\ ctx[c] # "raw" => ctx'[c] # "raw"
              /\ ctx[c] = "full" => ctx'[c] = "full"
        BY <1>0, <2>1, MadeSo, InitialisedSo
      <4>2. pc # "seed" => ctx'["entropy"] = ctx["entropy"]
        <5>1. pc # "seed" => "entropy" \notin Filled(pc)
          BY DEF Filled, Certificates
        <5> QED BY <1>0, <2>1, <5>1, MadeSo, InitialisedSo
      <4>3. \A c \in Context : c \in Filled(pc) => ctx'[c] = "full"
        BY <1>0, <2>1, MadeSo
      <4>4. CASE pc = "seed"
        <5>1. "entropy" \in Filled(pc) /\ "drbg" \in Filled(pc)
          BY <4>4, FilledSo
        <5> QED BY <1>0, <4>1, <4>3, <4>4, <5>1
      <4>5. CASE pc = "defaults"
        <5>1. "conf" \in Filled(pc)
          BY <4>5, FilledSo
        <5> QED BY <1>0, <4>1, <4>2, <4>3, <4>5, <5>1
      <4>6. CASE pc \in {"hostname", "setup"}
        <5>1. "ssl" \in Filled(pc)
          BY <4>6, FilledSo
        <5> QED BY <1>0, <4>1, <4>2, <4>3, <4>6, <5>1
      <4> QED BY <1>0, <4>1, <4>2, <4>4, <4>5, <4>6
    <3>3. pc' \in SetUpStep \cup {"handshake"}
      BY <2>1, <3>1, NextStepType DEF Step
    <3>4. ctx'["entropy"] = "raw" =>
            early' \/ ~created' \/ pc' \in {"socket", "resolve", "tcp", "starttls", "seed"}
      <4>1. CASE pc \in {"resolve", "tcp", "starttls"}
        BY <2>1, <3>1, <4>1 DEF NextStep
      <4>2. CASE pc = "seed"
        BY <3>2, <4>2
      <4>3. CASE pc \notin {"resolve", "tcp", "starttls", "seed"}
        BY <2>1, <3>1, <3>2, <4>3 DEF SetUpStep
      <4> QED BY <4>1, <4>2, <4>3
    <3> QED BY <1>0, <2>1, <3>1, <3>2, <3>4, NextStepSo
  <2>2. ASSUME NEW full \in SUBSET Filled(pc), ctx' = Made(pc, full), pc' = "close",
               early' = (early \/ pc \in {"resolve", "tcp", "starttls"})
        PROVE  Contexts'
    <3>1. pc \in SetUpStep /\ created' = created /\ created
      BY <1>2 DEF SetUp, Sockets, SetUpStep
    <3>2. /\ \A c \in {"ssl", "conf", "drbg"} : ctx'[c] # "raw"
          /\ pc = "seed" => ctx'["entropy"] # "raw"
          /\ ctx["entropy"] # "raw" => ctx'["entropy"] # "raw"
      BY <1>0, <2>2, MadeSo, InitialisedSo
    <3> QED BY <1>0, <2>2, <3>1, <3>2 DEF SetUpStep
  <2> QED BY <1>2, <2>1, <2>2 DEF SetUp, Fail
<1>3. CASE Handshake
  <2>1. pc = "handshake" /\ pc' \in {"handshake", "verify", "close"}
    BY <1>3, NextStepType DEF Handshake, Fail, Step
  <2> QED BY <1>0, <1>3, <2>1 DEF Handshake, object, history
<1>4. CASE Verified
  <2>1. \A c \in Engine : ctx'[c] = ctx[c]
    BY <1>0, <1>4 DEF Verified, FreeCertificates, Pointers
  <2> QED BY <1>0, <1>4, <2>1 DEF Verified
<1>5. CASE LateVerdict
  <2>1. \A c \in Engine : ctx'[c] = "clean"
    BY <1>0, <1>5 DEF LateVerdict
  <2> QED BY <1>0, <1>5, <2>1 DEF LateVerdict
<1>6. CASE Close
  BY <1>0, <1>6 DEF Close
<1>7. CASE Free
  <2>1. \A c \in Engine : ctx'[c] = "clean"
    BY <1>0, <1>7 DEF Free
  <2> QED BY <1>0, <1>7, <2>1 DEF Free
<1>8. CASE Create
  <2>1. \A c \in {"ssl", "conf", "drbg"} : ctx'[c] = "clean"
    BY <1>0, <1>8 DEF Create, ssl_init
  <2> QED BY <1>0, <1>8, <2>1 DEF Create
<1>9. CASE HttpConnect \/ Probe \/ Send \/ Stop \/ SendLoop
  <2>1. /\ pc \in {"idle", "send"} /\ pc' \in {"idle", "send", "create", "close"}
        /\ UNCHANGED <<ctx, created, early>>
    BY <1>9 DEF HttpConnect, Probe, Send, Stop, SendLoop, object, history
  <2> QED BY <1>0, <2>1
<1>10. CASE UNCHANGED <<pc, ctx, created, early>>
  BY <1>10
<1> QED BY <1>1, <1>2, <1>3, <1>4, <1>5, <1>6, <1>7, <1>8, <1>9, <1>10
        DEF Next, Client, StartSsl, Calls, Network, Done, Peek, Read, AskSocket, OtherTask,
            Arrive, End, Stall, GiveUp, control, object, network, history, vars

(* The certificates are ready when the step that uses them is reached.     *)
LEMMA LoadingStep == TypeOK /\ Loading /\ [Next]_vars => Loading'
<1> SUFFICES ASSUME TypeOK, Loading, [Next]_vars PROVE Loading'
  OBVIOUS
<1> USE DEF Loading
<1>0. /\ Certificates = {"ca", "cert", "key"} /\ Certificates \subseteq Context
      /\ setting.auth \in {"none", "ca", "psk"}
      /\ setting' = setting => Pointers' = Pointers
  BY ClientAssumption DEF Context, Certificates, TypeOK, Setting, Pointers
<1>1. CASE SetUp
  <2>1. PICK full \in SUBSET Filled(pc) :
          /\ ctx' = Made(pc, full)
          /\ pc' = NextStep \/ pc' = "close"
    BY <1>1 DEF SetUp, Fail
  <2>2. setting' = setting /\ pc \in SetUpStep
    BY <1>1 DEF SetUp
  <2>3. \A c \in Certificates : ctx'[c] = "full" => c \in Pointers
    <3> SUFFICES ASSUME NEW c \in Certificates, ctx'[c] = "full", ctx[c] # "full"
                 PROVE  c \in Pointers
      BY DEF Loading
    <3>1. c \in Filled(pc)
      BY <1>0, <2>1 DEF Made
    <3>2. pc = c
      BY <1>0, <2>2, <3>1 DEF Filled, SetUpStep
    <3> QED BY <1>0, <3>2 DEF Pointers
  <2>4. CASE pc' = NextStep
    <3>1. /\ pc' \in {"ca", "psk"} => setting.auth = pc'
          /\ pc' \in {"cert", "key"} => setting.cert /\ setting.key
      BY <1>0, <2>2, <2>4 DEF NextStep, AfterAuth, SetUpStep
    <3>2. \A c \in Certificates : (ctx[c] # "raw" \/ c \in Initialised(pc) => ctx'[c] # "raw")
      BY <1>0, <2>1, MadeSo
    <3>3. ASSUME setting.auth = "ca",
                 NextStep \in {"cert", "key", "hostname", "setup", "handshake", "verify"}
          PROVE  ctx'["ca"] # "raw"
      <4>1. pc = "ca" \/ pc \in {"cert", "key", "hostname", "setup"}
        BY <2>2, <3>3 DEF NextStep, AfterAuth, SetUpStep
      <4>2. pc = "ca" => "ca" \in Initialised(pc)
        BY DEF Initialised
      <4> QED BY <1>0, <3>2, <3>3, <4>1, <4>2
    <3>4. ASSUME setting.cert, setting.key,
                 NextStep \in {"key", "hostname", "setup", "handshake", "verify"}
          PROVE  ctx'["cert"] # "raw" /\ ctx'["key"] # "raw"
      <4>1. pc \in {"cert", "key", "hostname", "setup"}
        BY <1>0, <2>2, <3>4 DEF NextStep, AfterAuth, SetUpStep
      <4>2. pc = "cert" => "cert" \in Initialised(pc) /\ "key" \in Initialised(pc)
        BY DEF Initialised
      <4> QED BY <1>0, <3>2, <3>4, <4>1, <4>2
    <3> QED BY <1>0, <2>2, <2>3, <2>4, <3>1, <3>3, <3>4
  <2>5. CASE pc' = "close"
    BY <1>0, <2>2, <2>3, <2>5
  <2> QED BY <2>1, <2>4, <2>5
<1>2. CASE Handshake
  <2>1. pc = "handshake" /\ pc' \in {"handshake", "verify", "close"} /\ UNCHANGED <<setting, ctx>>
    BY <1>2, NextStepType DEF Handshake, Fail, Step, object
  <2> QED BY <1>0, <2>1
<1>3. CASE OpenSocket
  <2>1. pc' \in {"resolve", "close"} /\ UNCHANGED <<setting, ctx>>
    BY <1>3, NextStepType DEF OpenSocket, Fail, Step
  <2> QED BY <1>0, <2>1
<1>4. CASE UNCHANGED <<pc, setting, ctx>>
  BY <1>0, <1>4
<1>5. CASE Verified \/ LateVerdict \/ Free
  <2>1. /\ pc' \in {"idle", "create"} /\ setting' = setting
        /\ \A c \in Certificates : ctx'[c] = "full" => ctx[c] = "full"
    BY <1>0, <1>5 DEF Verified, FreeCertificates, LateVerdict, Free, Engine
  <2> QED BY <1>0, <2>1
<1>6. CASE Create
  <2>1. pc' = "socket" /\ \A c \in Certificates : ctx'[c] = "raw"
    BY <1>0, <1>6 DEF Create, ssl_init
  <2> QED BY <2>1
<1>7. CASE Close \/ HttpConnect \/ Probe \/ Send \/ Stop \/ SendLoop
  <2>1. pc' \in {"idle", "close", "free", "create", "send"} /\ UNCHANGED <<setting, ctx>>
    BY <1>7 DEF Close, HttpConnect, Probe, Send, Stop, SendLoop, object
  <2> QED BY <1>0, <2>1
<1> QED BY <1>1, <1>2, <1>3, <1>4, <1>5, <1>6, <1>7
        DEF Next, Client, StartSsl, Calls, Network, Done, Peek, Read, AskSocket, OtherTask,
            Arrive, End, Stall, GiveUp, control, object, network, history, vars

(* What is freed without being initialised is one of the two cases.        *)
LEMMA FreedStep ==
  TypeOK /\ Sockets /\ Contexts /\ Loading /\ FreedAfterMade /\ [Next]_vars => FreedAfterMade'
<1> SUFFICES ASSUME TypeOK, Sockets, Contexts, Loading, FreedAfterMade, [Next]_vars
             PROVE  FreedAfterMade'
  OBVIOUS
<1>0. /\ Engine = {"ssl", "conf", "drbg", "entropy"}
      /\ Certificates = {"ca", "cert", "key"}
  BY DEF Engine, Certificates
<1>1. CASE Verified
  <2>1. pc = "verify" /\ UNCHANGED <<early>> /\ FreedRaw(Pointers)
    BY <1>1 DEF Verified, FreeCertificates
  <2>2. ASSUME NEW c \in Pointers, ctx[c] = "raw"
        PROVE  c \in {"cert", "key"} /\ setting.cert # setting.key
    <3>1. setting.cert \in BOOLEAN /\ setting.key \in BOOLEAN
      BY ClientAssumption DEF TypeOK, Setting
    <3>2. CASE c = "ca"
      BY <2>1, <2>2, <3>2 DEF Pointers, Loading
    <3>3. CASE c = "cert"
      <4>1. setting.cert
        BY <3>3 DEF Pointers
      <4>2. ~setting.key
        BY <2>1, <2>2, <3>3, <4>1 DEF Loading
      <4> QED BY <3>1, <3>3, <4>1, <4>2
    <3>4. CASE c = "key"
      <4>1. setting.key
        BY <3>4 DEF Pointers
      <4>2. ~setting.cert
        BY <2>1, <2>2, <3>4, <4>1 DEF Loading
      <4> QED BY <3>1, <3>4, <4>1, <4>2
    <3> QED BY <1>0, <3>2, <3>3, <3>4 DEF Pointers
  <2>3. \A w \in wild' :
           w \in wild \/ \E c \in Pointers : ctx[c] = "raw" /\ w = [context |-> c, of |-> setting]
    BY <2>1 DEF FreedRaw
  <2>4. \A w \in wild' : w \in wild \/ (w.context \in {"cert", "key"} /\ w.of.cert # w.of.key)
    BY <2>2, <2>3
  <2> QED BY <2>1, <2>4 DEF FreedAfterMade
<1>2. CASE Free
  <2>1. pc = "free" /\ created /\ UNCHANGED early /\ FreedRaw(Engine)
    BY <1>2 DEF Free, Sockets
  <2>2. \A c \in Engine : ctx[c] = "raw" => c = "entropy" /\ early
    BY <1>0, <2>1 DEF Contexts
  <2>3. \A w \in wild' :
           w \in wild \/ \E c \in Engine : ctx[c] = "raw" /\ w = [context |-> c, of |-> setting]
    BY <2>1 DEF FreedRaw
  <2>4. \A w \in wild' : w \in wild \/ (w.context = "entropy" /\ early)
    BY <2>2, <2>3
  <2> QED BY <2>1, <2>4 DEF FreedAfterMade
<1>3. CASE ~Verified /\ ~Free
  <2>1. wild' = wild /\ (early => early')
    <3>1. CASE OpenSocket
      BY <3>1 DEF OpenSocket
    <3>2. CASE SetUp
      <4>1. \/ early' = early
            \/ early' = (early \/ pc \in {"resolve", "tcp", "starttls"})
        BY <3>2 DEF SetUp
      <4>2. wild' = wild
        BY <3>2 DEF SetUp
      <4>3. CASE early' = early
        BY ONLY <4>2, <4>3, Zenon
      <4>4. CASE early' = (early \/ pc \in {"resolve", "tcp", "starttls"})
        <5>1. ASSUME early PROVE early'
          BY <4>4, <5>1 DEF TypeOK
        <5> QED BY ONLY <4>2, <5>1, Zenon
      <4> QED BY <4>1, <4>3, <4>4
    <3>3. CASE Create \/ Close \/ LateVerdict \/ HttpConnect \/ Read \/ AskSocket
      <4>1. wild' = wild /\ early' = early
        BY <3>3 DEF Create, Close, LateVerdict, HttpConnect, Read, AskSocket
      <4> QED BY ONLY <4>1, Zenon
    <3>4. CASE UNCHANGED history
      <4>1. wild' = wild /\ early' = early
        BY <3>4 DEF history
      <4> QED BY ONLY <4>1, Zenon
    <3> QED BY <1>3, <3>1, <3>2, <3>3, <3>4
            DEF Next, Client, StartSsl, Calls, Network, Done, Handshake, Probe, Send, Stop,
                SendLoop, Peek, OtherTask, Arrive, End, Stall, GiveUp, vars
  <2> QED BY <2>1 DEF FreedAfterMade
<1> QED BY <1>1, <1>2, <1>3

LEMMA SessionsStep ==
  TypeOK /\ Reading /\ Sockets /\ Contexts /\ Sessions /\ [Next]_vars => Sessions'
<1> SUFFICES ASSUME TypeOK, Reading, Sockets, Contexts, Sessions, [Next]_vars PROVE Sessions'
  OBVIOUS
<1> USE DEF Sessions
<1>0. /\ ctx \in [Context -> {"raw", "clean", "full"}] /\ "ssl" \in Context
      /\ "ssl" \in Engine /\ "ssl" \notin Certificates
      /\ session \in {"none", "up", "closed", "broken"}
      /\ Taken \in Nat /\ arrived \in Nat /\ Taken <= arrived
      /\ (peek' = peek /\ given' = given => Taken' = Taken)
  BY ClientAssumption DEF TypeOK, Reading, Taken, Context, Engine, Certificates
<1>1. CASE OpenSocket
  <2>1. socket = -1 /\ UNCHANGED <<session, ctx>>
    BY <1>1 DEF OpenSocket, Sockets
  <2>2. pc' = "close" => why' = "failed"
    BY <1>1, NextStepType DEF OpenSocket, Fail, Step, SetUpStep
  <2> QED BY <1>0, <2>1, <2>2
<1>2. CASE SetUp
  <2>1. ctx["ssl"] = "full" => ctx'["ssl"] = "full"
    BY <1>0, <1>2, MadeSo, InitialisedSo DEF SetUp
  <2>2. pc' = "close" => why' = "failed"
    BY <1>2, NextStepType DEF SetUp, Fail, Step, SetUpStep
  <2> QED BY <1>0, <1>2, <2>1, <2>2 DEF SetUp, network
<1>3. CASE Handshake
  <2>1. socket # -1 /\ ctx["ssl"] = "full"
    BY <1>3 DEF Handshake, Sockets, Contexts, Step
  <2>2. pc' = "close" => why' = "failed"
    BY <1>3, NextStepType DEF Handshake, Fail, Step
  <2> QED BY <1>0, <1>3, <2>1, <2>2 DEF Handshake, object
<1>4. CASE Verified
  <2>1. ctx'["ssl"] = ctx["ssl"]
    BY <1>0, <1>4 DEF Verified, FreeCertificates, Pointers
  <2> QED BY <1>4, <2>1 DEF Verified, network
<1>5. CASE LateVerdict
  BY <1>5 DEF LateVerdict
<1>6. CASE Close
  BY <1>0, <1>6 DEF Close, CloseSocket
<1>7. CASE Free
  <2>1. session \notin {"up", "closed"} /\ session' = session
    BY <1>0, <1>7 DEF Free, CloseSocket, Sockets
  <2> QED BY <1>7, <2>1 DEF Free
<1>8. CASE Create
  BY <1>8 DEF Create
<1>9. CASE HttpConnect \/ Send \/ Stop
  BY <1>9 DEF HttpConnect, Send, Stop, object, network, history
<1>10. CASE Probe
  <2>1. session \in {"up", "closed"} => ctx["ssl"] = "full"
    BY <1>0
  <2>2. session # "up" /\ (session = "closed" => Taken = arrived)
    BY <1>0, <1>10, <2>1 DEF Probe, Broken
  <2>3. UNCHANGED <<socket, ctx, session, arrived>> /\ Taken' = Taken
    BY <1>0, <1>10 DEF Probe, object, network, history
  <2> QED BY <1>0, <2>2, <2>3
<1>11. CASE SendLoop
  <2>1. UNCHANGED <<socket, ctx, session, arrived>>
    BY <1>11 DEF SendLoop, object, network
  <2>2. pc' = "close" => session \notin {"up", "closed"}
    BY <1>0, <1>11 DEF SendLoop
  <2> QED BY <1>0, <2>1, <2>2
<1>12. CASE Peek \/ Read
  BY <1>12 DEF Peek, Read, control, network
<1>13. CASE AskSocket
  BY <1>13 DEF AskSocket, control
<1>14. CASE OtherTask \/ Arrive \/ End \/ Stall \/ GiveUp \/ UNCHANGED vars
  <2>1. UNCHANGED <<pc, why, socket, ctx>> /\ Taken' = Taken
    BY <1>0, <1>14 DEF OtherTask, Arrive, End, Stall, GiveUp, vars, control, object, network, history
  <2> QED BY <1>0, <1>14, <2>1
          DEF OtherTask, Arrive, End, Stall, GiveUp, vars, network
<1> QED BY <1>1, <1>2, <1>3, <1>4, <1>5, <1>6, <1>7, <1>8, <1>9, <1>10, <1>11, <1>12, <1>13,
           <1>14
        DEF Next, Client, StartSsl, Calls, Network, Done

-----------------------------------------------------------------------------
(* Between calls.                                                          *)

LEMMA ConnectionStep ==
  TypeOK /\ Sockets /\ Contexts /\ Loading /\ Connection /\ [Next]_vars => Connection'
<1> SUFFICES ASSUME TypeOK, Sockets, Contexts, Loading, Connection, [Next]_vars
             PROVE  Connection'
  OBVIOUS
<1> USE DEF Connection
<1>0. /\ ctx \in [Context -> {"raw", "clean", "full"}]
      /\ Context = {"ssl", "conf", "drbg", "entropy", "ca", "cert", "key"}
      /\ Engine = {"ssl", "conf", "drbg", "entropy"}
      /\ Certificates = {"ca", "cert", "key"}
      /\ Step = {"socket", "handshake", "verify"} \cup SetUpStep
      /\ SetUpStep = {"resolve", "tcp", "starttls", "seed", "defaults", "ca", "psk",
                      "cert", "key", "hostname", "setup"}
  BY DEF TypeOK, Context, Engine, Certificates, Step, SetUpStep
<1>1. CASE OpenSocket \/ SetUp \/ Handshake
  <2>1. pc \in Step /\ pc' \in Step \cup {"close"} /\ UNCHANGED connected
    BY <1>0, <1>1, NextStepType DEF OpenSocket, SetUp, Handshake, Fail, object
  <2> QED BY <1>0, <2>1
<1>2. CASE Verified
  <2>1. \A c \in Engine : ctx'[c] = "full"
    BY <1>0, <1>2 DEF Verified, FreeCertificates, Pointers, Contexts, Seeded
  <2>2. \A c \in Certificates : ctx'[c] # "full"
    <3>1. \A c \in Certificates : ctx[c] = "full" => c \in Pointers
      BY DEF Loading
    <3> QED BY <1>0, <1>2, <3>1 DEF Verified, FreeCertificates
  <2>3. socket' # -1 /\ connected' /\ pc' = "idle"
    BY <1>0, <1>2 DEF Verified, Sockets
  <2> QED BY <1>0, <2>1, <2>2, <2>3
<1>3. CASE LateVerdict
  BY <1>0, <1>3 DEF LateVerdict
<1>4. CASE Close
  BY <1>0, <1>4 DEF Close
<1>5. CASE Free
  <2>1. \A c \in Engine : ctx'[c] # "full"
    BY <1>0, <1>5 DEF Free
  <2>2. /\ pc = "free" /\ pc' \in {"idle", "create"} /\ socket' = -1
        /\ UNCHANGED <<connected, created, asked, rejected>>
    BY <1>5 DEF Free
  <2> QED BY <1>0, <2>1, <2>2
<1>6. CASE Create
  BY <1>0, <1>6 DEF Create
<1>7. CASE HttpConnect
  BY <1>0, <1>7 DEF HttpConnect, object, history
<1>8. CASE Probe \/ Send \/ Stop \/ SendLoop
  <2>1. /\ pc \in {"idle", "send"} /\ pc' \in {"idle", "send", "close"}
        /\ pc = "send" \/ pc' = "send" => connected
        /\ UNCHANGED <<created, socket, connected, ctx, asked, rejected>>
    BY <1>8 DEF Probe, Send, Stop, SendLoop, object, history
  <2>2. pc' = "idle" => connected
    BY <1>8 DEF Probe, Send, Stop, SendLoop
  <2> QED BY <1>0, <2>1, <2>2
<1>9. CASE AskSocket
  <2>1. asked' # {} /\ UNCHANGED <<pc, connected>>
    BY <1>9 DEF AskSocket, control
  <2> QED BY <2>1
<1>10. CASE UNCHANGED <<pc, created, socket, connected, ctx, asked, rejected>>
  BY <1>10
<1> QED BY <1>1, <1>2, <1>3, <1>4, <1>5, <1>6, <1>7, <1>8, <1>9, <1>10
        DEF Next, Client, StartSsl, Calls, Network, Done, Peek, Read, OtherTask,
            Arrive, End, Stall, GiveUp, control, object, network, history, vars

-----------------------------------------------------------------------------
(* The theorems.                                                           *)

LEMMA InvCorrect == Spec => []IInv
<1>1. Init => IInv
  BY InitType, ClientAssumption
     DEF Init, IInv, Reading, Taken, Sockets, Sessions, Contexts, Loading, Connection,
         FreedAfterMade, ssl_init, Context, Engine, Certificates, Step, SetUpStep, Seeded
<1>2. IInv /\ [Next]_vars => IInv'
  BY TypeStep, ReadingStep, SocketsStep, ContextsStep, LoadingStep, FreedStep, SessionsStep,
     ConnectionStep DEF IInv
<1> QED BY <1>1, <1>2, PTL DEF Spec

(* Every variable keeps its type.                                          *)
THEOREM TypeCorrect == Spec => []TypeOK
<1>1. IInv => TypeOK
  BY DEF IInv
<1> QED BY <1>1, InvCorrect, PTL

(* What the client knows of is what lwIP has open in its name.             *)
LEMMA SocketsOwn ==
  ASSUME TypeOK, Sockets
  PROVE  OwnSocketOnly
<1>1. -1 \notin Slots /\ socket \in Slots \cup {-1} /\ asked \subseteq Slots
  BY ClientAssumption DEF TypeOK
<1>2. \A fd \in Slots : owner[fd] = "client" <=> fd = socket \/ fd \in asked
  BY DEF Sockets
<1>3. ASSUME NEW fd
      PROVE  fd \in {f \in Slots : owner[f] = "client"} <=> fd \in ({socket} \ {-1}) \cup asked
  BY <1>1, <1>2
<1> QED BY <1>3 DEF Sockets, OwnSocketOnly

(* The client leaks no socket but those that socket() made it forget, and  *)
(* closes none of another task's, at every step of start_ssl_client and    *)
(* between the two closes of stop().                                       *)
THEOREM SocketsCorrect == Spec => []OwnSocketOnly
<1>1. IInv => OwnSocketOnly
  BY SocketsOwn DEF IInv
<1> QED BY <1>1, InvCorrect, PTL

(* A context is initialised before it is freed, whichever step of          *)
(* start_ssl_client failed, but for two cases: a failure before the        *)
(* generator was seeded, and a certificate given without its key or the    *)
(* other way round.                                                        *)
THEOREM FreedCorrect == Spec => []FreedAfterMade
<1>1. IInv => FreedAfterMade
  BY DEF IInv
<1> QED BY <1>1, InvCorrect, PTL

(* The bytes of a session are read in order and once; a session that the   *)
(* server closed is left only when all were taken.                         *)
THEOREM ReadingCorrect == Spec => []NothingLost
<1>1. IInv => NothingLost
  BY DEF IInv, Reading, Sessions, NothingLost
<1> QED BY <1>1, InvCorrect, PTL

(* Between calls a client is either connected and whole, or holds nothing  *)
(* but certificates, whatever failed in the calls before.                  *)
THEOREM SettledCorrect == Spec => []Settled
<1>1. IInv => Settled
  BY DEF IInv, Reading, Connection, Settled
<1> QED BY <1>1, InvCorrect, PTL

-----------------------------------------------------------------------------
(* Calls run down.                                                         *)

(* A step of the set-up that goes well leads to a later one.                *)
LEMMA NextStepIsNear ==
  ASSUME TypeOK, pc \in {"socket"} \cup SetUpStep, pc' = NextStep, waited' = 0 \/ pc = "socket"
  PROVE  Ahead' \in Nat /\ Ahead' < Ahead
<1>1. Timeout \in Nat /\ setting \in Setting
  BY ClientAssumption DEF TypeOK
<1>2. CASE pc \in {"socket", "resolve", "starttls", "seed", "cert", "key", "hostname"}
  <2>1. CASE pc = "socket"
    <3>1. pc' = "resolve"
      BY <2>1 DEF NextStep
    <3> QED BY <1>1, <2>1, <3>1 DEF Ahead
  <2>2. CASE pc = "resolve"
    <3>1. pc' = "tcp"
      BY <2>2 DEF NextStep
    <3> QED BY <1>1, <2>2, <3>1 DEF Ahead
  <2>3. CASE pc = "starttls"
    <3>1. pc' = "seed"
      BY <2>3 DEF NextStep
    <3> QED BY <1>1, <2>3, <3>1 DEF Ahead
  <2>4. CASE pc = "seed"
    <3>1. pc' = "defaults"
      BY <2>4 DEF NextStep
    <3> QED BY <1>1, <2>4, <3>1 DEF Ahead
  <2>5. CASE pc = "cert"
    <3>1. pc' = "key"
      BY <2>5 DEF NextStep
    <3> QED BY <1>1, <2>5, <3>1 DEF Ahead
  <2>6. CASE pc = "key"
    <3>1. pc' = "hostname"
      BY <2>6 DEF NextStep
    <3> QED BY <1>1, <2>6, <3>1 DEF Ahead
  <2>7. CASE pc = "hostname"
    <3>1. pc' = "setup"
      BY <2>7 DEF NextStep
    <3> QED BY <1>1, <2>7, <3>1 DEF Ahead
  <2> QED BY <1>2, <2>1, <2>2, <2>3, <2>4, <2>5, <2>6, <2>7
<1>3. CASE pc = "tcp"
  <2>1. pc' \in {"starttls", "seed"}
    BY <1>3 DEF NextStep
  <2> QED BY <1>1, <1>3, <2>1 DEF Ahead
<1>4. CASE pc = "defaults"
  <2>1. pc' \in {"ca", "psk", "cert", "hostname"}
    BY <1>1, <1>4 DEF NextStep, AfterAuth, Setting
  <2> QED BY <1>1, <1>4, <2>1 DEF Ahead
<1>5. CASE pc \in {"ca", "psk"}
  <2>1. pc' \in {"cert", "hostname"}
    BY <1>5 DEF NextStep, AfterAuth
  <2> QED BY <1>1, <1>5, <2>1 DEF Ahead
<1>6. CASE pc = "setup"
  <2>1. pc' = "handshake" /\ waited' = 0
    BY <1>6 DEF NextStep
  <2>2. Ahead' = Timeout + 5 - waited' /\ Ahead = Timeout + 6
    BY <1>6, <2>1 DEF Ahead
  <2> QED BY <1>1, <2>1, <2>2
<1> QED BY <1>2, <1>3, <1>4, <1>5, <1>6 DEF SetUpStep

(* A step that fails is followed by the two halves of stop() and no more.  *)
LEMMA FailureIsNear ==
  ASSUME TypeOK, pc \in {"socket", "handshake"} \cup SetUpStep, Fail
  PROVE  Ahead' \in Nat /\ Ahead' < Ahead
<1>1. Timeout \in Nat /\ waited \in 0 .. Timeout + 1
  BY ClientAssumption DEF TypeOK
<1>2. Ahead' = 2
  BY DEF Fail, Ahead
<1>3. Ahead > 2
  BY <1>1 DEF Ahead, SetUpStep
<1> QED BY <1>2, <1>3

(* Every step of the client in a call leaves less before it, for any       *)
(* timeout: the set-up goes forward only, every turn of the handshake      *)
(* costs a tick, and stop() runs once.                                     *)
THEOREM RunsDownCorrect == Spec => CallsRunDown
<1>1. TypeOK /\ [Next]_vars
        => [pc # "idle" => UNCHANGED control \/ (Ahead' \in Nat /\ Ahead' < Ahead)]_vars
  <2> SUFFICES ASSUME TypeOK, [Next]_vars, pc # "idle", ~UNCHANGED control
               PROVE  Ahead' \in Nat /\ Ahead' < Ahead
    OBVIOUS
  <2>1. Timeout \in Nat /\ waited \in 0 .. Timeout + 1
    BY ClientAssumption DEF TypeOK
  <2>2. CASE OpenSocket
    <3>1. CASE pc' = NextStep
      BY <2>2, <3>1, NextStepIsNear DEF OpenSocket
    <3>2. CASE Fail
      BY <2>2, <3>2, FailureIsNear DEF OpenSocket
    <3> QED BY <2>2, <3>1, <3>2 DEF OpenSocket
  <2>3. CASE SetUp
    <3>1. CASE pc' = NextStep
      BY <2>3, <3>1, NextStepIsNear DEF SetUp
    <3>2. CASE Fail
      BY <2>3, <3>2, FailureIsNear DEF SetUp
    <3> QED BY <2>3, <3>1, <3>2 DEF SetUp
  <2>4. CASE Handshake
    <3>1. CASE Fail
      BY <2>4, <3>1, FailureIsNear DEF Handshake
    <3>2. CASE pc' = NextStep
      <4>1. pc' = "verify" /\ pc = "handshake"
        BY <2>4, <3>2 DEF Handshake, NextStep
      <4>2. Ahead' = 3 /\ Ahead = Timeout + 5 - waited
        BY <4>1 DEF Ahead
      <4> QED BY <2>1, <4>2
    <3>3. CASE waited <= Timeout /\ waited' = waited + 1 /\ UNCHANGED <<pc, why>>
      <4>1. Ahead' = Timeout + 5 - waited' /\ Ahead = Timeout + 5 - waited
        BY <2>4, <3>3 DEF Handshake, Ahead
      <4> QED BY <2>1, <3>3, <4>1
    <3>4. Fail \/ pc' = NextStep \/ (waited <= Timeout /\ waited' = waited + 1 /\ UNCHANGED <<pc, why>>)
      BY <2>1, <2>4 DEF Handshake
    <3> QED BY <3>1, <3>2, <3>3, <3>4
  <2>5. CASE Verified \/ LateVerdict
    BY <2>5 DEF Verified, LateVerdict, Ahead
  <2>6. CASE Close
    BY <2>1, <2>6 DEF Close, Ahead
  <2>7. CASE Free
    BY <2>1, <2>7 DEF Free, Ahead
  <2>8. CASE Create
    BY <2>1, <2>8 DEF Create, Ahead
  <2>9. CASE SendLoop
    <3>1. \/ pc' = "close" /\ why' = "broken"
          \/ UNCHANGED <<pc, why>>
          \/ pc' = "idle"
      BY <2>9 DEF SendLoop
    <3>2. pc = "send" /\ UNCHANGED <<setting, waited>>
      BY <2>9 DEF SendLoop
    <3>3. pc' = "idle" \/ (pc' = "close" /\ why' = "broken")
      BY <3>1, <3>2 DEF control
    <3>4. Ahead = 3
      BY <3>2 DEF Ahead
    <3>5. Ahead' \in {0, 2}
      BY <3>3 DEF Ahead
    <3> QED BY <3>4, <3>5
  <2>10. ~Calls /\ ~Done
    BY DEF Calls, HttpConnect, Probe, Peek, Read, Send, Stop, AskSocket, Done
  <2>11. ~Network /\ ~UNCHANGED vars
    BY DEF Network, OtherTask, Arrive, End, Stall, GiveUp, vars
  <2> QED BY <2>2, <2>3, <2>4, <2>5, <2>6, <2>7, <2>8, <2>9, <2>10, <2>11
          DEF Next, Client, StartSsl
<1> QED BY <1>1, TypeCorrect, PTL DEF Spec, CallsRunDown

=============================================================================
