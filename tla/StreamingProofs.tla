--------------------------- MODULE StreamingProofs ---------------------------
(***************************************************************************)
(* For any number of clients, buffers and sockets, and whatever the clients  *)
(* do: no stream keeps a buffer or a socket that it does not need.           *)
(***************************************************************************)
EXTENDS Streaming, SequenceTheorems, TLAPS

\* A connection is waiting, or its socket is open, but not both; the one in the
\* server's hands has its socket and no task yet.
Hands ==
    /\ server = "create" <=> client_fd # "nobody"
    /\ server = "create" => client_fd \in open /\ stream[client_fd] = "none"
    /\ \A k \in 1 .. Len(backlog) : backlog[k] \notin open
    /\ \A j, k \in 1 .. Len(backlog) : backlog[j] = backlog[k] => j = k

\* The parts of NothingLeaks.
SenderHasBuffer == \A c \in Clients : stream[c] = "send" <=> \E b \in Buffers : fb[b] = c
OneBufferEach == \A a, b \in Buffers : fb[a] = fb[b] /\ fb[a] \in Clients => a = b
OpenIsOwned == \A c \in open : stream[c] # "none" \/ c = client_fd \/ c \in orphans
StreamIsOpen == \A c \in Clients : stream[c] # "none" => c \in open

Inv == TypeOK /\ Hands /\ SenderHasBuffer /\ OneBufferEach /\ OpenIsOwned /\ StreamIsOpen

\* The names of the places are no clients.
LEMMA Names == \A c \in Clients : c # "nobody" /\ c # "empty" /\ c # "filled"
BY StreamingAssumption DEF StreamingAssumption

LEMMA BacklogTypes ==
    ASSUME TypeOK
    PROVE  /\ backlog \in Seq(Clients) /\ Len(backlog) \in Nat
           /\ \A k \in 1 .. Len(backlog) : backlog[k] \in Clients
           /\ DOMAIN backlog = 1 .. Len(backlog)
BY LenProperties, ElementOfSeq DEF TypeOK

LEMMA InitInv == Init => Inv
<1> SUFFICES ASSUME Init PROVE Inv
  OBVIOUS
<1>1. TypeOK
  BY StreamingAssumption, EmptySeq DEF Init, TypeOK, StreamingAssumption
<1>2. Hands
  BY EmptySeq DEF Init, Hands
<1>3. SenderHasBuffer /\ OneBufferEach /\ OpenIsOwned /\ StreamIsOpen
  BY Names DEF Init, SenderHasBuffer, OneBufferEach, OpenIsOwned, StreamIsOpen
<1> QED
  BY <1>1, <1>2, <1>3 DEF Inv

LEMMA AcceptInv == Inv /\ accept => Inv'
<1> SUFFICES ASSUME Inv, accept PROVE Inv'
  OBVIOUS
<1> DEFINE c == Head(backlog)
<1>1. /\ server = "accept" /\ backlog # << >> /\ backlog' = Tail(backlog)
      /\ UNCHANGED <<stream, fb, orphans>>
      /\ accepted \/ turned_away
  BY DEF accept
<1>2. /\ backlog \in Seq(Clients) /\ Len(backlog) \in Nat
      /\ \A k \in 1 .. Len(backlog) : backlog[k] \in Clients
  BY BacklogTypes DEF Inv
<1>3. /\ Len(backlog) >= 1 /\ c = backlog[1] /\ c \in Clients /\ Tail(backlog) \in Seq(Clients)
      /\ Len(Tail(backlog)) = Len(backlog) - 1
      /\ \A k \in 1 .. Len(Tail(backlog)) : Tail(backlog)[k] = backlog[k + 1]
  BY <1>1, <1>2, HeadTailProperties, EmptySeq, LenProperties
<1>4. /\ 1 \in 1 .. Len(backlog)
      /\ \A k \in 1 .. Len(Tail(backlog)) : k + 1 \in 1 .. Len(backlog) /\ k + 1 # 1
  BY <1>2, <1>3
<1>5. c \notin open /\ stream[c] = "none" /\ client_fd = "nobody"
  BY <1>1, <1>3, <1>4 DEF Inv, Hands, StreamIsOpen
<1>6. \/ client_fd' = c /\ open' = open \union {c} /\ server' = "create" /\ peer' = peer
      \/ client_fd' = client_fd /\ open' = open /\ server' = server
         /\ peer' = [peer EXCEPT ![c] = "left"]
  BY <1>1 DEF accepted, turned_away
<1>7. TypeOK'
  <2>1. backlog' \in Seq(Clients) /\ Len(backlog') <= BACKLOG
    BY <1>1, <1>2, <1>3, StreamingAssumption DEF Inv, TypeOK, StreamingAssumption
  <2> QED
    BY <1>1, <1>3, <1>6, <2>1 DEF Inv, TypeOK
<1>8. Hands'
  <2>1. \A k \in 1 .. Len(Tail(backlog)) : Tail(backlog)[k] \notin open \union {c}
    BY <1>3, <1>4 DEF Inv, Hands
  <2>2. ASSUME NEW j \in 1 .. Len(Tail(backlog)), NEW k \in 1 .. Len(Tail(backlog)),
               Tail(backlog)[j] = Tail(backlog)[k]
        PROVE  j = k
    <3>1. j + 1 = k + 1
      BY <1>3, <1>4, <2>2 DEF Inv, Hands
    <3> QED
      BY <3>1
  <2>3. c # "nobody"
    BY <1>3, Names
  <2> QED
    BY <1>1, <1>5, <1>6, <2>1, <2>2, <2>3 DEF Hands
<1>9. SenderHasBuffer' /\ OneBufferEach' /\ StreamIsOpen'
  BY <1>1, <1>6 DEF Inv, SenderHasBuffer, OneBufferEach, StreamIsOpen
<1>10. OpenIsOwned'
  BY <1>1, <1>5, <1>6, Names DEF Inv, OpenIsOwned, TypeOK
<1> QED
  BY <1>7, <1>8, <1>9, <1>10 DEF Inv

LEMMA CreateInv == Inv /\ create => Inv'
<1> SUFFICES ASSUME Inv, create PROVE Inv'
  OBVIOUS
<1>1. /\ server = "create" /\ server' = "accept" /\ client_fd' = "nobody"
      /\ UNCHANGED <<backlog, peer, open, fb>>
  BY DEF create
<1>2. client_fd \in Clients /\ client_fd \in open /\ stream[client_fd] = "none"
  BY <1>1 DEF Inv, Hands, TypeOK
<1>3. \/ stream' = [stream EXCEPT ![client_fd] = "capture"] /\ UNCHANGED orphans
      \/ orphans' = orphans \union {client_fd} /\ UNCHANGED stream
  BY DEF create
<1>4. /\ stream' \in [Clients -> {"none", "capture", "send", "delay", "close"}]
      /\ orphans' \subseteq Clients
      /\ \A c \in Clients : c # client_fd => stream'[c] = stream[c]
      /\ stream'[client_fd] \in {"none", "capture"}
  BY <1>2, <1>3 DEF Inv, TypeOK
<1>5. TypeOK' /\ Hands'
  BY <1>1, <1>4 DEF Inv, TypeOK, Hands
<1>6. SenderHasBuffer' /\ OneBufferEach'
  BY <1>1, <1>2, <1>4 DEF Inv, SenderHasBuffer, OneBufferEach
<1>7. OpenIsOwned' /\ StreamIsOpen'
  BY <1>1, <1>2, <1>3, <1>4 DEF Inv, OpenIsOwned, StreamIsOpen, TypeOK
<1> QED
  BY <1>5, <1>6, <1>7 DEF Inv

LEMMA StreamInv == ASSUME NEW c \in Clients PROVE Inv /\ stream_socket_task(c) => Inv'
<1> SUFFICES ASSUME Inv, stream_socket_task(c) PROVE Inv'
  OBVIOUS
<1>1. /\ UNCHANGED <<server, client_fd, backlog, peer, orphans>>
      /\ stream[c] # "none"
      /\ \E to \in {"none", "capture", "send", "delay", "close"} :
            stream' = [stream EXCEPT ![c] = to]
  BY DEF stream_socket_task, tryCapture, send, delay, close, StreamGoto
<1>2. /\ stream' \in [Clients -> {"none", "capture", "send", "delay", "close"}]
      /\ \A d \in Clients : d # c => stream'[d] = stream[d]
  BY <1>1 DEF Inv, TypeOK
<1>3. c # "empty" /\ c # "filled" /\ c \in open /\ c # client_fd
  <2>1. client_fd \in Clients => stream[client_fd] = "none"
    BY Names DEF Inv, Hands
  <2> QED
    BY <1>1, <2>1, Names DEF Inv, StreamIsOpen
<1>4. \/ fb' = fb /\ stream[c] # "send" /\ stream'[c] # "send"
      \/ /\ stream[c] = "capture" /\ stream'[c] = "send"
         /\ \E b \in Buffers : fb[b] = "filled" /\ fb' = [fb EXCEPT ![b] = c]
      \/ stream[c] = "send" /\ stream'[c] # "send" /\ fb' = Returned(c)
  BY DEF stream_socket_task, tryCapture, send, delay, close, StreamGoto, Inv, TypeOK
<1>5. \/ open' = open /\ stream'[c] # "none"
      \/ open' = open \ {c} /\ stream'[c] = "none"
  BY DEF stream_socket_task, tryCapture, send, delay, close, StreamGoto, Inv, TypeOK
<1>6. fb \in [Buffers -> Clients \union {"empty", "filled"}]
  BY DEF Inv, TypeOK
<1>7. /\ fb' \in [Buffers -> Clients \union {"empty", "filled"}]
      /\ SenderHasBuffer' /\ OneBufferEach'
  <2>1. CASE fb' = fb /\ stream[c] # "send" /\ stream'[c] # "send"
    BY <1>2, <1>6, <2>1 DEF Inv, SenderHasBuffer, OneBufferEach
  <2>2. CASE /\ stream[c] = "capture" /\ stream'[c] = "send"
             /\ \E b \in Buffers : fb[b] = "filled" /\ fb' = [fb EXCEPT ![b] = c]
    <3>1. PICK b \in Buffers : fb[b] = "filled" /\ fb' = [fb EXCEPT ![b] = c]
      BY <2>2
    <3>2. fb'[b] = c /\ \A a \in Buffers : a # b => fb'[a] = fb[a]
      BY <1>6, <3>1
    <3>3. \A a \in Buffers : fb[a] # c
      BY <2>2 DEF Inv, SenderHasBuffer
    <3>4. \A d \in Clients : d # fb[b]
      BY <3>1, Names
    <3>5. SenderHasBuffer'
      BY <1>2, <2>2, <3>2, <3>3, <3>4 DEF Inv, SenderHasBuffer
    <3>6. OneBufferEach'
      BY <3>2, <3>3 DEF Inv, OneBufferEach
    <3> QED
      BY <1>6, <3>1, <3>5, <3>6
  <2>3. CASE stream[c] = "send" /\ stream'[c] # "send" /\ fb' = Returned(c)
    <3>1. \A b \in Buffers : fb'[b] = IF fb[b] = c THEN "empty" ELSE fb[b]
      BY <2>3 DEF Returned
    <3>2. SenderHasBuffer'
      BY <1>2, <1>3, <2>3, <3>1, Names DEF Inv, SenderHasBuffer
    <3>3. OneBufferEach'
      BY <3>1, Names DEF Inv, OneBufferEach
    <3>4. fb' \in [Buffers -> Clients \union {"empty", "filled"}]
      BY <1>6, <2>3 DEF Returned
    <3> QED
      BY <3>2, <3>3, <3>4
  <2> QED
    BY <1>4, <2>1, <2>2, <2>3
<1>8. TypeOK'
  BY <1>1, <1>2, <1>5, <1>7 DEF Inv, TypeOK
<1>9. Hands'
  <2>1. client_fd \in open => client_fd \in open'
    BY <1>3, <1>5
  <2>2. server = "create" => client_fd \in Clients
    BY DEF Inv, Hands, TypeOK
  <2>3. open' \subseteq open
    BY <1>5
  <2> QED
    BY <1>1, <1>2, <1>3, <2>1, <2>2, <2>3 DEF Inv, Hands
<1>10. OpenIsOwned' /\ StreamIsOpen'
  BY <1>1, <1>2, <1>3, <1>5 DEF Inv, OpenIsOwned, StreamIsOpen, TypeOK
<1> QED
  BY <1>7, <1>8, <1>9, <1>10 DEF Inv

LEMMA WorldInv ==
    ASSUME NEW c \in Clients
    PROVE  Inv /\ (listen \/ fill \/ connect(c) \/ behave(c)) => Inv'
<1> SUFFICES ASSUME Inv, listen \/ fill \/ connect(c) \/ behave(c) PROVE Inv'
  OBVIOUS
<1>1. UNCHANGED <<client_fd, open, stream, orphans>>
  BY DEF listen, fill, connect, behave
<1>2. OpenIsOwned' /\ StreamIsOpen'
  BY <1>1 DEF Inv, OpenIsOwned, StreamIsOpen
<1>3. CASE fill
  <2>1. PICK b \in Buffers : fb[b] = "empty" /\ fb' = [fb EXCEPT ![b] = "filled"]
    BY <1>3 DEF fill
  <2>2. /\ UNCHANGED <<server, backlog, peer>>
        /\ fb' \in [Buffers -> Clients \union {"empty", "filled"}]
        /\ \A a \in Buffers : fb'[a] = IF a = b THEN "filled" ELSE fb[a]
    BY <1>3, <2>1 DEF fill, Inv, TypeOK
  <2>3. SenderHasBuffer'
    BY <1>1, <2>1, <2>2, Names DEF Inv, SenderHasBuffer
  <2>4. OneBufferEach'
    BY <2>2, Names DEF Inv, OneBufferEach
  <2>5. TypeOK' /\ Hands'
    BY <1>1, <2>2 DEF Inv, TypeOK, Hands
  <2> QED
    BY <1>2, <2>3, <2>4, <2>5 DEF Inv
<1>4. CASE listen \/ behave(c)
  <2>1. UNCHANGED <<backlog, fb>>
    BY <1>4 DEF listen, behave
  <2>2. TypeOK'
    BY <1>1, <1>4, <2>1 DEF listen, behave, Inv, TypeOK
  <2>3. Hands'
    BY <1>1, <1>4, <2>1 DEF listen, behave, Inv, Hands
  <2>4. SenderHasBuffer' /\ OneBufferEach'
    BY <1>1, <2>1 DEF Inv, SenderHasBuffer, OneBufferEach
  <2> QED
    BY <1>2, <2>2, <2>3, <2>4 DEF Inv
<1>5. CASE connect(c)
  <2>1. /\ c \notin open /\ backlog' = Append(backlog, c) /\ UNCHANGED <<server, fb>>
        /\ \A k \in 1 .. Len(backlog) : backlog[k] # c
        /\ Len(backlog) < BACKLOG
    BY <1>5, BacklogTypes DEF connect, backlog_has_room, Inv
  <2>2. backlog \in Seq(Clients) /\ Len(backlog) \in Nat
    BY BacklogTypes DEF Inv
  <2>3. /\ backlog' \in Seq(Clients) /\ Len(backlog') = Len(backlog) + 1
        /\ \A k \in 1 .. Len(backlog) : backlog'[k] = backlog[k]
        /\ backlog'[Len(backlog) + 1] = c
    BY <2>1, <2>2, AppendProperties
  <2>4. \A k \in 1 .. Len(backlog') : k \in 1 .. Len(backlog) \/ k = Len(backlog) + 1
    BY <2>2, <2>3
  <2>5. TypeOK'
    BY <1>1, <1>5, <2>1, <2>2, <2>3, StreamingAssumption
    DEF connect, Inv, TypeOK, StreamingAssumption
  <2>6. Hands'
    BY <1>1, <2>1, <2>2, <2>3, <2>4 DEF Inv, Hands
  <2>7. SenderHasBuffer' /\ OneBufferEach'
    BY <1>1, <2>1 DEF Inv, SenderHasBuffer, OneBufferEach
  <2> QED
    BY <1>2, <2>5, <2>6, <2>7 DEF Inv
<1> QED
  BY <1>3, <1>4, <1>5

LEMMA Invariance == Spec => []Inv
<1>1. Inv /\ UNCHANGED vars => Inv'
  BY DEF vars, Inv, TypeOK, Hands, SenderHasBuffer, OneBufferEach, OpenIsOwned, StreamIsOpen
<1>2. Inv /\ [Next]_vars => Inv'
  <2> SUFFICES ASSUME Inv, [Next]_vars PROVE Inv'
    OBVIOUS
  <2>1. CASE listen \/ fill
    <3>1. CASE Clients = {}
      <4>1. UNCHANGED <<client_fd, open, stream, orphans, backlog, peer>>
        BY <2>1 DEF listen, fill
      <4>2. TypeOK'
        BY <2>1, <3>1, <4>1 DEF listen, fill, Inv, TypeOK
      <4>3. Hands'
        BY <2>1, <4>1 DEF listen, fill, Inv, Hands
      <4> QED
        BY <3>1, <4>1, <4>2, <4>3
        DEF Inv, TypeOK, SenderHasBuffer, OneBufferEach, OpenIsOwned, StreamIsOpen
    <3>2. CASE Clients # {}
      BY <2>1, <3>2, WorldInv
    <3> QED
      BY <3>1, <3>2
  <2>2. CASE accept \/ create
    BY <2>2, AcceptInv, CreateInv
  <2>3. CASE \E c \in Clients : stream_socket_task(c)
    BY <2>3, StreamInv
  <2>4. CASE \E c \in Clients : connect(c) \/ behave(c)
    BY <2>4, WorldInv
  <2>5. CASE UNCHANGED vars
    BY <1>1, <2>5
  <2> QED
    BY <2>1, <2>2, <2>3, <2>4, <2>5 DEF Next, mjpeg_socket_server_task
<1> QED
  BY <1>2, InitInv, PTL DEF Spec

\* Every variable has a value of its type, and no more connections wait than the
\* backlog holds.
THEOREM StreamingTypeCorrect == Spec => []TypeOK
<1>1. Inv => TypeOK
  BY DEF Inv
<1> QED
  BY <1>1, Invariance, PTL

\* Buffers and sockets are given back whatever ends a stream, except the socket of a
\* client whose task could not be created.
THEOREM NothingLeaksCorrect == Spec => []NothingLeaks
<1>1. Inv => NothingLeaks
  BY DEF Inv, NothingLeaks, SenderHasBuffer, OneBufferEach, OpenIsOwned, StreamIsOpen
<1> QED
  BY <1>1, Invariance, PTL
=============================================================================
