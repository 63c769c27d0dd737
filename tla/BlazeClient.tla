---------------------------- MODULE BlazeClient ----------------------------
(***************************************************************************)
(* The Blaze connections of the server: how Blaze/Client.cpp makes         *)
(* requests of what it reads, and who waits for whom.                      *)
(*                                                                         *)
(* A request is a header, in two pieces that matter here (its component    *)
(* and command, its message id), and the pieces of a body.                 *)
(* The peer writes its requests one after the other into records, cut      *)
(* anywhere.  handle_read takes what it gets for whole requests: where a   *)
(* read begins inside a body, that part of the body is read as a header    *)
(* and may run a command that nobody sent, under any number.  It parses    *)
(* the body up to the end of what it got, whatever the length says, and    *)
(* reads a header that is cut short on into what earlier reads left in the *)
(* buffer.  What a handler does to its user or a game is not kept here:    *)
(* whether it finds them, and so answers, is open.                         *)
(*                                                                         *)
(* One thread runs the handlers of every connection, and handle_read       *)
(* writes its answers with calls that block while the peer does not read.  *)
(***************************************************************************)
EXTENDS Naturals, Sequences, FiniteSets

CONSTANTS Clients,    \* connections
          Stream,     \* client |-> the pieces its peer sends, <<request, number>>
          Prompt,     \* requests that a handler always answers: Ping, PreAuth, Login
          Silent,     \* requests that none answers: Logout, FetchClientConfig,
                      \* unknown ones; the others only with a user or a game
          Stray,      \* a command that nobody sent
          BodyIds,    \* message ids that a body's bytes may make
          Capacity,   \* of the read buffer
          MaxRecords  \* bound: records on the wire of a connection

Header == 2

\* A piece of no request.
Nothing == <<0, 0>>

Length(c) == Len(Stream[c])
Requests(c) == {Stream[c][k][1] : k \in 1..Length(c)}
Size(c, r) == Cardinality({k \in 1..Length(c) : Stream[c][k][1] = r})

ASSUME BlazeAssumption ==
    /\ Capacity \in Nat /\ Capacity >= Header
    /\ "none" \notin Clients
    /\ BodyIds \subseteq Nat
    /\ Stray \in Nat \ {0} /\ \A c \in Clients : Stray \notin Requests(c)
    /\ \A c \in Clients :
         /\ Stream[c] \in Seq((Nat \ {0}) \X (Nat \ {0}))
         \* a request has its header, and comes after those with smaller numbers
         /\ \A k \in 1..Length(c) : Stream[c][k][2] = 1 =>
               /\ k < Length(c) /\ Stream[c][k + 1] = <<Stream[c][k][1], 2>>
               /\ \A j \in 1..k - 1 : Stream[c][j][1] < Stream[c][k][1]

VARIABLES
    running,        \* the io thread has not left Application::Run
    accepting,      \* a client object waits in Server::mAcceptor
    pc,             \* client |-> what it waits for
    io,             \* the client whose handle_read the io thread is in, or None
    issued,         \* client |-> how many pieces its peer has written
    wire,           \* client |-> the ends of the records not read yet, as
                    \* numbers of pieces
    got,            \* client |-> how many pieces were read
    mReadBuffer,    \* client |-> its pieces
    mWriteBuffers,  \* client |-> the answers of one handle_read
    written,        \* client |-> how many of these the peer has
    stalled,        \* clients whose peers do not read
    hungUp,         \* clients whose peers have closed the connection
    ran,            \* history: client |-> the requests of its peer that ran
    answered,       \* history: client |-> <<request that ran, id>> it was sent
    short,          \* history: clients of which a read ended in a header
    strayed,        \* history: clients for which a command nobody sent ran
    disturbed       \* history: client |-> requests that a read did not hold
                    \* whole, or not alone

netVars == <<issued, wire, got, stalled, hungUp>>
bufferVars == <<mReadBuffer, mWriteBuffers, written>>
historyVars == <<ran, answered, short, strayed, disturbed>>
vars == <<running, accepting, pc, io, netVars, bufferVars, historyVars>>

None == "none"

TypeOK ==
    /\ running \in BOOLEAN /\ accepting \in BOOLEAN
    /\ pc \in [Clients -> {"none", "handshake", "reading", "writing", "deleted"}]
    /\ io \in Clients \cup {None}
    /\ issued \in [Clients -> Nat] /\ got \in [Clients -> Nat]
    /\ wire \in [Clients -> Seq(Nat)]
    /\ stalled \subseteq Clients /\ hungUp \subseteq Clients
    /\ mReadBuffer \in [Clients -> [1..Capacity -> Nat \X Nat]]
    /\ mWriteBuffers \in [Clients -> Seq(Nat \X Nat)]
    /\ written \in [Clients -> Nat]
    /\ ran \in [Clients -> Seq(Nat)]
    /\ answered \in [Clients -> Seq(Nat \X Nat)]
    /\ short \subseteq Clients /\ strayed \subseteq Clients
    /\ disturbed \in [Clients -> SUBSET Nat]

Init ==
    /\ running = TRUE /\ accepting = TRUE
    /\ pc = [c \in Clients |-> "none"]
    /\ io = None
    /\ issued = [c \in Clients |-> 0]
    /\ wire = [c \in Clients |-> <<>>]
    /\ got = [c \in Clients |-> 0]
    /\ mReadBuffer = [c \in Clients |-> [k \in 1..Capacity |-> Nothing]]
    /\ mWriteBuffers = [c \in Clients |-> <<>>]
    /\ written = [c \in Clients |-> 0]
    /\ stalled = {} /\ hungUp = {}
    /\ ran = [c \in Clients |-> <<>>]
    /\ answered = [c \in Clients |-> <<>>]
    /\ short = {} /\ strayed = {}
    /\ disturbed = [c \in Clients |-> {}]

----------------------------------------------------------------------------
(* The peers.                                                              *)

Connected(c) == pc[c] \in {"handshake", "reading", "writing"}

\* The peer writes a record of its next n pieces.
Send(c, n) ==
    /\ Connected(c) /\ c \notin hungUp
    /\ issued[c] + n <= Length(c)
    /\ Len(wire[c]) < MaxRecords
    /\ issued' = [issued EXCEPT ![c] = @ + n]
    /\ wire' = [wire EXCEPT ![c] = Append(@, issued[c] + n)]
    /\ UNCHANGED <<running, accepting, pc, io, got, stalled, hungUp, bufferVars,
                   historyVars>>

\* The peer stops reading, or reads again.
Stall(c) ==
    /\ Connected(c) /\ c \notin stalled
    /\ stalled' = stalled \cup {c}
    /\ UNCHANGED <<running, accepting, pc, io, issued, wire, got, hungUp,
                   bufferVars, historyVars>>

Resume(c) ==
    /\ c \in stalled
    /\ stalled' = stalled \ {c}
    /\ UNCHANGED <<running, accepting, pc, io, issued, wire, got, hungUp,
                   bufferVars, historyVars>>

HangUp(c) ==
    /\ Connected(c) /\ c \notin hungUp
    /\ hungUp' = hungUp \cup {c}
    /\ UNCHANGED <<running, accepting, pc, io, issued, wire, got, stalled,
                   bufferVars, historyVars>>

----------------------------------------------------------------------------
(* Connections come and go.                                                *)

Idle == running /\ io = None

\* handle_accept: the client starts, and the next one waits.
Accept(c) ==
    /\ Idle /\ accepting
    /\ pc[c] = "none"
    /\ pc' = [pc EXCEPT ![c] = "handshake"]
    /\ UNCHANGED <<running, accepting, io, netVars, bufferVars, historyVars>>

\* handle_accept with an error does not wait for another client (while one is
\* still to come: it changes nothing for the others).
AcceptFails ==
    /\ Idle /\ accepting
    /\ \E c \in Clients : pc[c] = "none"
    /\ accepting' = FALSE
    /\ UNCHANGED <<running, pc, io, netVars, bufferVars, historyVars>>

\* handle_handshake.
Handshake(c) ==
    /\ Idle
    /\ pc[c] = "handshake" /\ c \notin hungUp
    /\ pc' = [pc EXCEPT ![c] = "reading"]
    /\ UNCHANGED <<running, accepting, io, netVars, bufferVars, historyVars>>

\* An error of the handshake, or of a read after the last record.
Drop(c) ==
    /\ Idle
    /\ c \in hungUp
    /\ \/ pc[c] = "handshake"
       \/ pc[c] = "reading" /\ wire[c] = <<>>
    /\ pc' = [pc EXCEPT ![c] = "deleted"]
    /\ UNCHANGED <<running, accepting, io, netVars, bufferVars, historyVars>>

----------------------------------------------------------------------------
(* handle_read.                                                            *)

\* async_read_some gives at most one record, and what the buffer holds.
ReadSize(c) == LET left == Head(wire[c]) - got[c]
               IN  IF left < Capacity THEN left ELSE Capacity

\* The buffer after a read of n pieces: behind them is what was there before.
Filled(c, n) ==
    [k \in 1..Capacity |-> IF k <= n THEN Stream[c][got[c] + k] ELSE mReadBuffer[c][k]]

\* What a header's piece k is taken for: that of the request it is of, or if
\* there is a piece of something else, one of others.
PieceAt(b, k, others) == IF b[k][2] = k \/ b[k] = Nothing THEN {b[k][1]} ELSE others

\* The command: of a request, none that is known (0), or one nobody sent.
Commands(b) == PieceAt(b, 1, {0, Stray})

\* Its message id.
MessageIds(b) == PieceAt(b, 2, BodyIds)

\* The read was one request, all of it and nothing else.
Whole(c, b, n) == \E r \in Requests(c) : n = Size(c, r) /\ \A k \in 1..n : b[k] = <<r, k>>

\* Mutant: the answers go when the requests are parsed, before they are sent.
Answers_Cleared(c, b, n, r) == {<<>>}

\* parse_packets, what the handler of command r may answer.  Most handlers
\* return before when there is no user, or no game, to answer for; and one
\* that always answers may still return before from a body that is not its own.
Answers(c, b, n, r) ==
    LET replies == {<<<<r, i>>>> : i \in MessageIds(b)} IN
        IF r = 0 \/ r \in Silent THEN {<<>>}
        ELSE IF Whole(c, b, n) /\ r \in Prompt THEN replies
        ELSE {<<>>} \cup replies

\* Mutant: what the last handle_read wrote is still there.
Cleared_Never(c) == mWriteBuffers[c]

\* mWriteBuffers.clear().
Cleared(c) == <<>>

\* The pieces of a read are of these requests.
Touched(c, n) == {Stream[c][k][1] : k \in got[c] + 1 .. got[c] + n}

Readable(c) == Idle /\ pc[c] = "reading" /\ wire[c] # <<>>

\* The Parser takes the rest of what was read, so that one read is one request.
ReadRequest(c, n, b, r) ==
    /\ got' = [got EXCEPT ![c] = @ + n]
    /\ wire' = [wire EXCEPT ![c] = IF got[c] + n = Head(@) THEN Tail(@) ELSE @]
    /\ mReadBuffer' = [mReadBuffer EXCEPT ![c] = b]
    /\ ran' = [ran EXCEPT ![c] = IF r \in {0, Stray} THEN @ ELSE Append(@, r)]
    /\ short' = IF n < Header THEN short \cup {c} ELSE short
    /\ strayed' = IF r = Stray THEN strayed \cup {c} ELSE strayed
    /\ disturbed' = [disturbed EXCEPT ![c] = IF Whole(c, b, n) THEN @ ELSE @ \cup Touched(c, n)]
    /\ UNCHANGED <<accepting, issued, stalled, hungUp, answered>>

\* handle_read up to its writes.
HandleRead(c) ==
    /\ Readable(c)
    /\ LET n == ReadSize(c)
           b == Filled(c, n) IN
        \E r \in Commands(b) : \E answers \in Answers(c, b, n, r) :
          /\ ReadRequest(c, n, b, r)
          /\ mWriteBuffers' = [mWriteBuffers EXCEPT ![c] = Cleared(c) \o answers]
          /\ written' = [written EXCEPT ![c] = 0]
          /\ pc' = [pc EXCEPT ![c] = "writing"]
          /\ io' = c
          /\ UNCHANGED running

\* A body that is not the request's own makes the handler throw, which nothing
\* catches before Application::Run; or its parse does not end (a value that
\* is cut at the end of the buffer), which ends the io thread's work as well.
HandlerThrows(c) ==
    /\ Readable(c)
    /\ LET n == ReadSize(c)
           b == Filled(c, n) IN
        /\ ~Whole(c, b, n)
        /\ \E r \in Commands(b) : ReadRequest(c, n, b, r)
        /\ running' = FALSE
        /\ UNCHANGED <<pc, io, mWriteBuffers, written>>

\* One blocking write.
Write(c) ==
    /\ running /\ io = c
    /\ written[c] < Len(mWriteBuffers[c])
    /\ c \notin stalled /\ c \notin hungUp
    /\ written' = [written EXCEPT ![c] = @ + 1]
    /\ answered' = [answered EXCEPT ![c] = Append(@, mWriteBuffers[c][written[c] + 1])]
    /\ UNCHANGED <<running, accepting, pc, io, netVars, mReadBuffer, mWriteBuffers,
                   ran, short, strayed, disturbed>>

\* A write fails: the connection is dropped.
WriteFails(c) ==
    /\ running /\ io = c
    /\ written[c] < Len(mWriteBuffers[c])
    /\ c \in hungUp
    /\ pc' = [pc EXCEPT ![c] = "deleted"]
    /\ io' = None
    /\ UNCHANGED <<running, accepting, netVars, bufferVars, historyVars>>

\* Mutant: the next read is not asked for.
AfterWrites_Forgotten == "writing"

\* async_read_some again.
AfterWrites == "reading"

FinishRead(c) ==
    /\ running /\ io = c
    /\ written[c] = Len(mWriteBuffers[c])
    /\ pc' = [pc EXCEPT ![c] = AfterWrites]
    /\ io' = None
    /\ UNCHANGED <<running, accepting, netVars, bufferVars, historyVars>>

----------------------------------------------------------------------------

PeerStep(c) ==
    \/ \E n \in 1..Length(c) : Send(c, n)
    \/ Stall(c) \/ Resume(c) \/ HangUp(c)

\* The io thread takes up the handler that is due for c.
TakeUp(c) == Handshake(c) \/ Drop(c) \/ HandleRead(c)

\* It goes on with the handle_read it is in.
GoOn(c) == Write(c) \/ WriteFails(c) \/ FinishRead(c)

Next ==
    \/ AcceptFails
    \/ \E c \in Clients :
         PeerStep(c) \/ Accept(c) \/ TakeUp(c) \/ HandlerThrows(c) \/ GoOn(c)

Spec == Init /\ [][Next]_vars

(* The io thread takes up every handler that is due, first come first      *)
(* served, and a blocked write goes on whenever its peer reads.            *)
Fairness == \A c \in Clients : SF_vars(TakeUp(c)) /\ SF_vars(GoOn(c))

FairSpec == Spec /\ Fairness

----------------------------------------------------------------------------
(* Properties.                                                             *)

\* While no read ended inside a header, a peer's requests run in the order they
\* were sent, none twice, and the answer to each carries its id and goes out in
\* that order.  A command nobody sent runs, and is answered under any id, only
\* on a connection where some read was not one whole request.
SoundUnlessShort ==
    \A c \in Clients \ short :
        /\ \A j, k \in 1..Len(ran[c]) : j < k => ran[c][j] < ran[c][k]
        /\ \A k \in 1..Len(answered[c]) :
              answered[c][k][1] \in {answered[c][k][2], Stray}
        /\ \A j, k \in 1..Len(answered[c]) :
              j < k /\ Stray \notin {answered[c][j][1], answered[c][k][1]}
                 => answered[c][j][1] < answered[c][k][1]
        /\ c \in strayed => disturbed[c] # {}

Ran(c, r) == \E k \in 1..Len(ran[c]) : ran[c][k] = r
Answered(c, r) == \E k \in 1..Len(answered[c]) : answered[c][k] = <<r, r>>

\* The last piece of r has been read, and what it asked for was written.
Handled(c, r) ==
    /\ \E k \in 1..got[c] : Stream[c][k] = <<r, Size(c, r)>>
    /\ pc[c] = "reading"

\* A request that was read in one read of its own has run, whatever the reads
\* before held, and if its handler needs nothing that they might have done it
\* is answered before the next read: only requests that were split, or that
\* shared a read with others, may be lost.
LostOnlyIfDisturbed ==
    \A c \in Clients : \A r \in Requests(c) :
        Handled(c, r) /\ r \notin disturbed[c]
            => Ran(c, r) /\ (r \in Prompt \ Silent => Answered(c, r))

\* What was written is read in the end, by a connection that lasts, if no peer
\* lets the io thread wait in a write forever.
Lasts(c) == running /\ Connected(c) /\ c \notin hungUp

EverythingIsRead ==
    (\A d \in Clients : []<>(d \notin stalled \/ d \in hungUp)) =>
        \A c \in Clients : []<>(wire[c] = <<>> \/ ~Lasts(c))

----------------------------------------------------------------------------
(* The calls, for the connections without a short read or a stray command: *)
(* those that ran, the numbers under which answers were sent, and the one  *)
(* that is written.                                                        *)
Trusted == Clients \ (short \cup strayed)
Served(c) == IF c \in Trusted THEN {ran[c][k] : k \in 1..Len(ran[c])} ELSE {}
Replied(c) == IF c \in Trusted THEN {answered[c][k][2] : k \in 1..Len(answered[c])} ELSE {}
Due == IF io \in Trusted
       THEN {<<io, mWriteBuffers[io][k][2]>> : k \in written[io] + 1 .. Len(mWriteBuffers[io])}
       ELSE {}

Calls == INSTANCE SerialCalls WITH
    Connections <- Clients,
    Numbers <- UNION {Requests(c) : c \in Clients},
    trusted <- Trusted,
    served <- [c \in Clients |-> Served(c)],
    replied <- [c \in Clients |-> Replied(c)],
    due <- Due

\* The io thread serves the requests of all connections one at a time and in
\* order, and answers each before the next one runs, under its own id.
ServesSerially == Calls!CSpec

============================================================================
