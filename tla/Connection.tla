----------------------------- MODULE Connection -----------------------------
(***************************************************************************)
(* One connection between a client (a node or a command) and a server loop  *)
(* (protocol.rs, server.rs, node.rs).  The client writes a frame and reads  *)
(* the answer; the server reads frames, handles each and writes its answer. *)
(* Reads return any part of what has arrived.  Either process may die, and  *)
(* one cell may be damaged on the way.                                      *)
(*                                                                          *)
(* A frame is six header cells and the bytes of the body.                   *)
(***************************************************************************)
EXTENDS Messages

CONSTANTS
  Script,       \* the requests the client makes, in order
  Unread,       \* the requests whose answer the client does not wait for
  Handle,       \* the answer to each request
  Refusal,      \* the Error answer to anything else
  MaxFrame,     \* MAX_FRAME
  Faults        \* processes may die and cells may be damaged

VARIABLES
  client,       \* "idle", "waiting", "done", or "dead"
  server,       \* "reading", "answering", "refusing", "closed", or "dead"
  next,         \* the number of requests written
  up, down,     \* cells on the way to the server and to the client
  sin, cin,     \* what each side has read of the current frame
  answer,       \* the answer to be written
  handled,      \* history: the requests the server handled
  answers,      \* history: the answers the client read
  clean,        \* the server saw the end of the stream at a frame boundary
  damaged       \* the header or body cell that was damaged, 0 for none

vars == <<client, server, next, up, down, sin, cin, answer, handled, answers, clean, damaged>>

Magic == 7
Version == 1
HeaderLen == 6

\* CRC-32C stands for any checksum that notices one changed cell.
Checksum(cells) == FoldLeft(LAMBDA n, i : (n + i * cells[i]) % 251, 0, [i \in DOMAIN cells |-> i])

\* encode_frame: the checksum covers the header before it and the body.
Prefix(m) == <<Magic, Version, Tag(m.type), Len(Encode(m))>>

Covered(m) == Prefix(m) \o Encode(m)

EncodeFrame(m) == Prefix(m) \o <<Checksum(Covered(m)), 0>> \o Encode(m)

\* read_frame: the checks on a header before the body is read.
HeaderGood(b) ==
  /\ b[1] = Magic /\ b[2] = Version
  /\ FromTag(b[3]) # None
  /\ b[4] <= MaxFrame

Missing(b) == IF Len(b) < HeaderLen THEN HeaderLen - Len(b) ELSE HeaderLen + b[4] - Len(b)

Body(b) == SubSeq(b, HeaderLen + 1, Len(b))

Incomplete(b) == IF Len(b) < HeaderLen THEN TRUE ELSE HeaderGood(b) /\ Missing(b) > 0

\* Mutant of Intact: the checksum is not compared.
IntactUnchecked(b) == HeaderGood(b)

Intact(b) == HeaderGood(b) /\ b[5] = Checksum(SubSeq(b, 1, 4) \o Body(b))

\* The message of a complete frame, None when it cannot be decoded.
Message(b) == Decode(FromTag(b[3]), Body(b))

\* The answer to what was decoded.
Response(m) == IF m \in DOMAIN Handle THEN Handle[m] ELSE Refusal

\* The requests of the client and their answers.
Sent == {Script[i] : i \in DOMAIN Script} \cup {Handle[Script[i]] : i \in DOMAIN Script}

ASSUME ExchangeAssumption ==
  /\ MaxFrame \in Nat
  /\ Script \in Seq(Sent) /\ Script # <<>>
  /\ {Script[i] : i \in DOMAIN Script} \subseteq DOMAIN Handle

\* Every message of the exchange has a tag, fits into a frame, and is decoded to
\* what was encoded.
ASSUME CodecAssumption ==
  \A m \in Sent :
    /\ m # None /\ m.type # None
    /\ m.type \in {MsgType[t] : t \in DOMAIN MsgType}
    /\ Encode(m) \in Seq(Nat) /\ Len(Encode(m)) <= MaxFrame
    /\ Decode(m.type, Encode(m)) = m

\* The checksum notices one changed cell, also when the changed cell is the length
\* and the reader stops before the end of the frame.
ASSUME ChecksumAssumption ==
  \A m \in Sent :
    /\ Checksum(Covered(m)) \in Nat
    /\ \A i \in DOMAIN Covered(m) : \A v \in (0..(MaxFrame + 1)) \ {Covered(m)[i]} :
         LET c == [Covered(m) EXCEPT ![i] = v]
         IN  4 + c[4] <= Len(c) => Checksum(SubSeq(c, 1, 4 + c[4])) # Checksum(Covered(m))

Ended == client \in {"done", "dead"}
Closed == server \in {"closed", "dead"}

-----------------------------------------------------------------------------
(* The client: coordinator_roundtrip, fetch_from, store_to, migrate *)

\* write_frame, then the answer is read or the connection is dropped.
ClientWrite ==
  /\ client = "idle"
  /\ next' = next + 1
  /\ up' = up \o EncodeFrame(Script[next + 1])
  /\ client' = IF next + 1 \in Unread THEN "done" ELSE "waiting"
  /\ UNCHANGED <<server, down, sin, cin, answer, handled, answers, clean, damaged>>

ClientRead ==
  /\ client = "waiting" /\ Incomplete(cin)
  /\ \E n \in 1..Missing(cin) :
       /\ n <= Len(down)
       /\ cin' = cin \o SubSeq(down, 1, n)
       /\ down' = SubSeq(down, n + 1, Len(down))
  /\ UNCHANGED <<client, server, next, up, sin, answer, handled, answers, clean, damaged>>

\* A message ends the exchange; anything else is an error that ends the call.
ClientFinish ==
  /\ client = "waiting"
  /\ \/ /\ ~Incomplete(cin) /\ Intact(cin) /\ Message(cin) # None
        /\ answers' = Append(answers, Message(cin))
        /\ cin' = <<>>
        /\ client' = IF next = Len(Script) THEN "done" ELSE "idle"
     \/ /\ \/ ~Incomplete(cin) /\ ~(Intact(cin) /\ Message(cin) # None)
           \/ Incomplete(cin) /\ down = <<>> /\ Closed
        /\ client' = "done"
        /\ UNCHANGED <<answers, cin>>
  /\ UNCHANGED <<server, next, up, down, sin, answer, handled, clean, damaged>>

-----------------------------------------------------------------------------
(* The server: serve_coordinator_connection, serve_node_connection *)

ServerRead ==
  /\ server = "reading" /\ Incomplete(sin)
  /\ \E n \in 1..Missing(sin) :
       /\ n <= Len(up)
       /\ sin' = sin \o SubSeq(up, 1, n)
       /\ up' = SubSeq(up, n + 1, Len(up))
  /\ UNCHANGED <<client, server, next, down, cin, answer, handled, answers, clean, damaged>>

\* Mutant of ServerEnd: every end of the stream is a clean one.
ServerEndAlways ==
  /\ server = "reading" /\ Incomplete(sin) /\ up = <<>> /\ Ended
  /\ server' = "closed"
  /\ clean' = TRUE
  /\ UNCHANGED <<client, next, up, down, sin, cin, answer, handled, answers, damaged>>

\* The client closed the connection: between frames, or in the middle of one.
ServerEnd ==
  /\ server = "reading" /\ Incomplete(sin) /\ up = <<>> /\ Ended
  /\ server' = "closed"
  /\ clean' = (sin = <<>>)
  /\ UNCHANGED <<client, next, up, down, sin, cin, answer, handled, answers, damaged>>

\* Mutant of ServerReject: the frame is skipped and the loop goes on.
ServerSkips ==
  /\ server = "reading" /\ ~Incomplete(sin) /\ ~Intact(sin)
  /\ sin' = <<>>
  /\ UNCHANGED <<client, server, next, up, down, cin, answer, handled, answers, clean, damaged>>

\* A frame that is not intact ends the loop without an answer.
ServerReject ==
  /\ server = "reading" /\ ~Incomplete(sin) /\ ~Intact(sin)
  /\ server' = "closed"
  /\ UNCHANGED <<client, next, up, down, sin, cin, answer, handled, answers, clean, damaged>>

\* A body that cannot be decoded is answered with an Error and ends the loop.
ServerHandle ==
  /\ server = "reading" /\ ~Incomplete(sin) /\ Intact(sin)
  /\ handled' = IF Message(sin) = None THEN handled ELSE Append(handled, Message(sin))
  /\ answer' = Response(Message(sin))
  /\ server' = IF Message(sin) = None THEN "refusing" ELSE "answering"
  /\ sin' = <<>>
  /\ UNCHANGED <<client, next, up, down, cin, answers, clean, damaged>>

\* write_frame; it may fail once the client is gone.
ServerAnswer ==
  /\ server \in {"answering", "refusing"}
  /\ \/ /\ server' = IF server = "answering" THEN "reading" ELSE "closed"
        /\ down' = down \o EncodeFrame(answer)
     \/ Ended /\ server' = "closed" /\ UNCHANGED down
  /\ UNCHANGED <<client, next, up, sin, cin, answer, handled, answers, clean, damaged>>

-----------------------------------------------------------------------------
(* Faults *)

\* A process dies; a part of what it wrote last may never leave it.
ClientDies ==
  /\ Faults /\ ~Ended
  /\ client' = "dead"
  /\ \E n \in 0..Len(up) : up' = SubSeq(up, 1, n)
  /\ UNCHANGED <<server, next, down, sin, cin, answer, handled, answers, clean, damaged>>

ServerDies ==
  /\ Faults /\ ~Closed
  /\ server' = "dead"
  /\ \E n \in 0..Len(down) : down' = SubSeq(down, 1, n)
  /\ UNCHANGED <<client, next, up, sin, cin, answer, handled, answers, clean, damaged>>

\* One cell arrives changed.
Damage ==
  /\ Faults /\ damaged = 0
  /\ \E v \in 0..(MaxFrame + 1) :
       \/ \E i \in DOMAIN up :
            /\ up[i] # v
            /\ up' = [up EXCEPT ![i] = v]
            /\ damaged' = Len(EncodeFrame(Script[next])) - Len(up) + i
            /\ UNCHANGED down
       \/ \E i \in DOMAIN down :
            /\ client = "waiting"
            /\ down[i] # v
            /\ down' = [down EXCEPT ![i] = v]
            /\ damaged' = Len(EncodeFrame(answer)) - Len(down) + i
            /\ UNCHANGED up
  /\ UNCHANGED <<client, server, next, sin, cin, answer, handled, answers, clean>>

-----------------------------------------------------------------------------
(* Specification *)

Init ==
  /\ client = "idle" /\ server = "reading"
  /\ next = 0
  /\ up = <<>> /\ down = <<>> /\ sin = <<>> /\ cin = <<>>
  /\ answer = None
  /\ handled = <<>> /\ answers = <<>>
  /\ clean = FALSE
  /\ damaged = 0

ClientStep == ClientWrite \/ ClientRead \/ ClientFinish

ServerStep ==
  ServerRead \/ ServerEnd \/ ServerReject \/ ServerHandle \/ ServerAnswer

Next == ClientStep \/ ServerStep \/ ClientDies \/ ServerDies \/ Damage

\* A side can go on: it is not reading, or a cell or the end of the stream is there.
ClientReady ==
  client = "idle" \/ (client = "waiting" /\ (~Incomplete(cin) \/ down # <<>> \/ Closed))

ServerReady ==
  \/ server \in {"answering", "refusing"}
  \/ server = "reading" /\ (~Incomplete(sin) \/ up # <<>> \/ Ended)

\* Weak fairness with its condition written out: a side that stays ready takes a
\* step, so both processes are scheduled and what was written arrives.
Fairness ==
  /\ []<>~ClientReady \/ []<><<ClientStep>>_vars
  /\ []<>~ServerReady \/ []<><<ServerStep>>_vars

Spec == Init /\ [][Next]_vars /\ Fairness

-----------------------------------------------------------------------------
(* Properties *)

\* The server handles exactly the requests that were written, in order and once
\* each, and the client takes nothing but their answers for answers, whatever is
\* lost or damaged: a part of a frame is never a message.
ExchangeFaithful ==
  /\ Len(handled) <= next /\ \A i \in DOMAIN handled : handled[i] = Script[i]
  /\ \A i \in DOMAIN answers : answers[i] = Handle[Script[i]]

\* A stream that ends between two frames ends after the last request: a client
\* that wrote its last frame and closed without reading (MigrateAck) was heard.
CleanEndHidesNothing == clean /\ client # "dead" => Len(handled) = next

\* Neither side waits for ever: the exchange ends in an answer or in an error,
\* unless the length of a frame was damaged.  There are no read timeouts, and a
\* length that grew leaves both sides waiting for each other.
ExchangeEnds == <>((Ended /\ Closed) \/ damaged = 4)
=============================================================================
