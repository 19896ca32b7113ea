------------------------------ MODULE Streaming ------------------------------
(***************************************************************************)
(* The MJPEG server: one task accepts connections and creates a task for     *)
(* each, which sends frames until its client is gone.  The tasks share the  *)
(* frame buffers of the camera driver and the sockets of the device.        *)
(***************************************************************************)
EXTENDS Integers, Sequences, FiniteSets

CONSTANTS
    Clients,        \* connections that may exist at the same time
    FB_COUNT,       \* frame buffers of the driver
    BACKLOG,        \* connections that wait to be accepted
    SOCKETS         \* sockets left for streams

ASSUME StreamingAssumption ==
    /\ FB_COUNT \in Nat \ {0} /\ BACKLOG \in Nat \ {0} /\ SOCKETS \in Nat
    /\ Clients \intersect {"nobody", "empty", "filled"} = {}

Buffers == 1 .. FB_COUNT

VARIABLES
    server,         \* "start", "accept", "create" or "ended"
    client_fd,      \* the connection in the server's hands, or "nobody"
    backlog,        \* connections not accepted yet
    peer,           \* the other side: "away", "reading", "stalled" or "left"
    open,           \* connections whose socket is open on the device
    stream,         \* where the task of each connection is, "none" without one
    fb,             \* each buffer: "empty", "filled" or the connection that has it
    orphans         \* history: connections for which no task could be created

vars == <<server, client_fd, backlog, peer, open, stream, fb, orphans>>

Init ==
    /\ server = "start" /\ client_fd = "nobody"
    /\ backlog = << >>
    /\ peer = [c \in Clients |-> "away"]
    /\ open = {}
    /\ stream = [c \in Clients |-> "none"]
    /\ fb = [b \in Buffers |-> "empty"]
    /\ orphans = {}

-----------------------------------------------------------------------------
(* mjpeg_socket_server_task.                                                 *)

\* One connection too many (faulty).
one_too_many == Len(backlog) <= BACKLOG

\* listen(listen_fd, 1): further connections are refused while the backlog is full.
backlog_has_room == Len(backlog) < BACKLOG

\* socket, bind and listen, any of which may fail.
listen ==
    /\ server = "start"
    /\ server' \in {"accept", "ended"}
    /\ UNCHANGED <<client_fd, backlog, peer, open, stream, fb, orphans>>

\* The server has the first waiting connection in its hands.
accepted ==
    /\ client_fd' = Head(backlog)
    /\ open' = open \union {Head(backlog)}
    /\ server' = "create"
    /\ UNCHANGED peer

\* accept returned -1: the connection is gone, and the loop goes on without it.
turned_away ==
    /\ peer' = [peer EXCEPT ![Head(backlog)] = "left"]
    /\ UNCHANGED <<client_fd, open, server>>

\* Serving one client after the other (faulty).
AcceptWhenIdle ==
    /\ server = "accept" /\ backlog # << >>
    /\ \A c \in Clients : stream[c] = "none"
    /\ backlog' = Tail(backlog)
    /\ \/ Cardinality(open) < SOCKETS /\ accepted
       \/ turned_away
    /\ UNCHANGED <<stream, fb, orphans>>

\* accept may fail for any connection, because it was aborted or there is no memory,
\* and fails if no socket is left.
accept ==
    /\ server = "accept" /\ backlog # << >>
    /\ backlog' = Tail(backlog)
    /\ \/ Cardinality(open) < SOCKETS /\ accepted
       \/ turned_away
    /\ UNCHANGED <<stream, fb, orphans>>

\* The answer's headers are sent and a task is created; nobody looks whether that
\* worked.
create ==
    /\ server = "create"
    /\ \/ /\ stream' = [stream EXCEPT ![client_fd] = "capture"]
          /\ UNCHANGED orphans
       \/ /\ orphans' = orphans \union {client_fd}
          /\ UNCHANGED stream
    /\ server' = "accept" /\ client_fd' = "nobody"
    /\ UNCHANGED <<backlog, peer, open, fb>>

mjpeg_socket_server_task == listen \/ accept \/ create

-----------------------------------------------------------------------------
(* stream_socket_task of connection c.                                       *)

StreamGoto(c, from, to) ==
    /\ stream[c] = from
    /\ stream' = [stream EXCEPT ![c] = to]
    /\ UNCHANGED <<server, client_fd, backlog, peer, orphans>>

\* tryCapture takes a filled buffer; without one for 4 s it returns null and the
\* stream ends.
tryCapture(c) ==
    /\ \/ /\ StreamGoto(c, "capture", "send")
          /\ \E b \in Buffers : fb[b] = "filled" /\ fb' = [fb EXCEPT ![b] = c]
       \/ /\ \A b \in Buffers : fb[b] # "filled"
          /\ StreamGoto(c, "capture", "close")
          /\ UNCHANGED fb
    /\ UNCHANGED open

\* The buffers that the task of c has go back to the driver.
Returned(c) == [b \in Buffers |-> IF fb[b] = c THEN "empty" ELSE fb[b]]

\* Ending the stream of a lost client with its frame (faulty).
SendKeepingFrame(c) ==
    /\ \/ peer[c] = "reading" /\ StreamGoto(c, "send", "delay") /\ fb' = Returned(c)
       \/ peer[c] = "left" /\ StreamGoto(c, "send", "close") /\ UNCHANGED fb
    /\ UNCHANGED open

\* Trying the next frame after an error (faulty).
SendIgnoringError(c) ==
    /\ peer[c] \in {"reading", "left"}
    /\ StreamGoto(c, "send", "delay")
    /\ fb' = Returned(c)
    /\ UNCHANGED open

\* send blocks while the client does not read, and fails once it has left; with
\* success or error the frame is returned.
send(c) ==
    /\ \/ peer[c] = "reading" /\ StreamGoto(c, "send", "delay")
       \/ peer[c] = "left" /\ StreamGoto(c, "send", "close")
    /\ fb' = Returned(c)
    /\ UNCHANGED open

\* 50 ms between two frames.
delay(c) ==
    /\ StreamGoto(c, "delay", "capture")
    /\ UNCHANGED <<fb, open>>

close(c) ==
    /\ StreamGoto(c, "close", "none")
    /\ open' = open \ {c}
    /\ UNCHANGED fb

stream_socket_task(c) == tryCapture(c) \/ send(c) \/ delay(c) \/ close(c)

-----------------------------------------------------------------------------
(* The driver fills empty buffers.  Clients connect, read or do not read, and *)
(* leave.                                                                    *)

fill ==
    /\ \E b \in Buffers : fb[b] = "empty" /\ fb' = [fb EXCEPT ![b] = "filled"]
    /\ UNCHANGED <<server, client_fd, backlog, peer, open, stream, orphans>>

\* A connection that is over may be followed by another one in its place.
connect(c) ==
    /\ server \in {"accept", "create"}
    /\ peer[c] \in {"away", "left"} /\ c \notin open
    /\ \A k \in DOMAIN backlog : backlog[k] # c
    /\ backlog_has_room
    /\ backlog' = Append(backlog, c)
    /\ peer' = [peer EXCEPT ![c] = "reading"]
    /\ UNCHANGED <<server, client_fd, open, stream, fb, orphans>>

behave(c) ==
    /\ \/ peer[c] = "reading" /\ peer' = [peer EXCEPT ![c] = "stalled"]
       \/ peer[c] = "stalled" /\ peer' = [peer EXCEPT ![c] = "reading"]
       \/ peer[c] \in {"reading", "stalled"} /\ peer' = [peer EXCEPT ![c] = "left"]
    /\ UNCHANGED <<server, client_fd, backlog, open, stream, fb, orphans>>

Next ==
    \/ mjpeg_socket_server_task
    \/ \E c \in Clients : stream_socket_task(c)
    \/ fill
    \/ \E c \in Clients : connect(c) \/ behave(c)

\* The tasks and the driver run when they can.  Nothing makes a client read.
Fairness ==
    /\ WF_vars(mjpeg_socket_server_task)
    /\ WF_vars(fill)
    /\ \A c \in Clients : WF_vars(stream_socket_task(c))

Spec == Init /\ [][Next]_vars /\ Fairness

-----------------------------------------------------------------------------
TypeOK ==
    /\ server \in {"start", "accept", "create", "ended"}
    /\ client_fd \in Clients \union {"nobody"}
    /\ backlog \in Seq(Clients) /\ Len(backlog) <= BACKLOG
    /\ peer \in [Clients -> {"away", "reading", "stalled", "left"}]
    /\ open \subseteq Clients /\ orphans \subseteq Clients
    /\ stream \in [Clients -> {"none", "capture", "send", "delay", "close"}]
    /\ fb \in [Buffers -> Clients \union {"empty", "filled"}]

\* Whatever ends a stream, its frame buffer and its socket are given back: a buffer
\* is away only while a task sends it, each sending task has one, and an open
\* socket belongs to a task, to the server, or to a client whose task could not be
\* created, which is the one leak the code has.
NothingLeaks ==
    /\ \A c \in Clients : stream[c] = "send" <=> \E b \in Buffers : fb[b] = c
    /\ \A a, b \in Buffers : fb[a] = fb[b] /\ fb[a] \in Clients => a = b
    /\ \A c \in open : stream[c] # "none" \/ c = client_fd \/ c \in orphans
    /\ \A c \in Clients : stream[c] # "none" => c \in open

\* A client that leaves is noticed, and what its stream held is given back, even
\* if other clients stall with every buffer in their hands.
LeavingEndsStream ==
    \A c \in Clients :
        peer[c] = "left" /\ stream[c] # "none" ~> stream[c] = "none"

\* No connection waits for ever, whatever the streams that run do: each is accepted or
\* turned away, also while every socket is taken or every other client stalls.
ConnectingIsAnswered ==
    \A c \in Clients :
        (\E k \in DOMAIN backlog : backlog[k] = c)
            ~> (\A k \in DOMAIN backlog : backlog[k] # c)
=============================================================================
