---------------------------- MODULE BlazeProofs ----------------------------
(***************************************************************************)
(* A Blaze connection, and the accounts that its session logs in to: the   *)
(* safety of BlazeClient, for any connections and requests, and any cut of *)
(* these into records and reads, and that of Accounts, for every set of    *)
(* accounts, sessions and User objects and every price list.               *)
(*                                                                         *)
(* BlazeClient: a read that is not short brings a header as it was sent,   *)
(* or a piece of a body; so what runs is a request that begins behind all  *)
(* that ran, or a stray command (InOrder).  A request that was read by     *)
(* itself has run, and is answered or its answer is still to be written    *)
(* (Kept).  Both need that the records lie one after the other behind what *)
(* was read (Ends), and that a stray command comes of a read that was not  *)
(* one request (Strays).                                                   *)
(*                                                                         *)
(* Accounts: AccountsSound is not inductive: an account that was left bare *)
(* must have no rewards either (Funded), and a User that is saved must     *)
(* have a name (Linked).  LoggedInSeesDisk needs that the map holds a User *)
(* under its own name, and that a User that does not exist is not behind.  *)
(***************************************************************************)
EXTENDS BlazeClient, Accounts, FiniteSetTheorems, TLAPS

\* Records end one behind the other, between what was read and what was sent.
Ends(c) ==
    /\ got[c] <= issued[c] /\ issued[c] <= Length(c)
    /\ \A k \in 1..Len(wire[c]) : got[c] < wire[c][k] /\ wire[c][k] <= issued[c]
    /\ \A j, k \in 1..Len(wire[c]) : j < k => wire[c][j] < wire[c][k]

\* The header of request r has been read.
Begun(c, r) == \E p \in 1..got[c] : Stream[c][p] = <<r, 1>>

\* An answer goes out under the number of the request it is for, which was
\* read, or is that of a stray command.
Fits(c, a) == a[1] = Stray \/ (a[1] = a[2] /\ Begun(c, a[1]))

\* Of two answers to requests the first is for the earlier one.
Before(a, b) == Stray \in {a[1], b[1]} \/ a[1] < b[1]

\* What ran, what was answered and what will be, for a client without a short
\* read.
InOrder(c) ==
    /\ \A k \in 1..Len(ran[c]) : Begun(c, ran[c][k])
    /\ \A j, k \in 1..Len(ran[c]) : j < k => ran[c][j] < ran[c][k]
    /\ \A k \in 1..Len(answered[c]) : Fits(c, answered[c][k])
    /\ \A j, k \in 1..Len(answered[c]) :
          j < k => Before(answered[c][j], answered[c][k])
    /\ Len(mWriteBuffers[c]) <= 1
    /\ \A k \in 1..Len(mWriteBuffers[c]) :
          /\ Fits(c, mWriteBuffers[c][k])
          /\ written[c] < k =>
                \A j \in 1..Len(answered[c]) : Before(answered[c][j], mWriteBuffers[c][k])

\* A stray command runs after a read that was not one request, and only where
\* one ran is it answered.
Strays(c) ==
    /\ c \in strayed => disturbed[c] # {}
    /\ c \notin strayed => \A k \in 1..Len(mWriteBuffers[c]) : mWriteBuffers[c][k][1] # Stray

\* The last piece of request r has been read.
AllRead(c, r) == \E k \in 1..got[c] : Stream[c][k] = <<r, Size(c, r)>>

\* Its answer is among those that handle_read has still to write.
Pending(c, r) ==
    io = c /\ \E k \in written[c] + 1 .. Len(mWriteBuffers[c]) :
                  mWriteBuffers[c][k] = <<r, r>>

\* It has run, and is answered if its handler always answers.
Settled(c, r) ==
    /\ Ran(c, r)
    /\ r \in Prompt \ Silent => Answered(c, r) \/ Pending(c, r) \/ pc[c] = "deleted"

Kept(c) ==
    \A r \in Requests(c) : AllRead(c, r) /\ r \notin disturbed[c] => Settled(c, r)

\* The client whose handle_read the io thread is in waits for that.
Sound(c) ==
    /\ Ends(c)
    /\ io = c => pc[c] = "writing"
    /\ c \notin short => InOrder(c)
    /\ Strays(c)
    /\ Kept(c)

IInv == TypeOK /\ \A c \in Clients : Sound(c)

----------------------------------------------------------------------------
(* The stream, and what a read brings of it.                               *)

\* The buffer holds a header.
LEMMA Buffer == Capacity \in Nat /\ Capacity >= 2 /\ Header = 2 /\ None \notin Clients
<1> QED BY BlazeAssumption DEF Header, None

\* Pieces and requests are numbers from 1.
LEMMA Pieces ==
    ASSUME NEW c \in Clients
    PROVE  /\ Length(c) \in Nat /\ Requests(c) \subseteq Nat \ {0}
           /\ \A k \in 1..Length(c) :
                /\ Stream[c][k] \in (Nat \ {0}) \X (Nat \ {0})
                /\ Stream[c][k] = <<Stream[c][k][1], Stream[c][k][2]>>
                /\ Stream[c][k][1] \in Requests(c)
<1>1. Stream[c] \in Seq((Nat \ {0}) \X (Nat \ {0}))
  BY BlazeAssumption
<1>2. Length(c) \in Nat /\ \A k \in 1..Length(c) : Stream[c][k] \in (Nat \ {0}) \X (Nat \ {0})
  BY <1>1 DEF Length
<1> QED BY <1>2 DEF Requests

\* A stray command is a number, and no request's.
LEMMA StrayFacts ==
    /\ Stray \in Nat /\ Stray # 0 /\ BodyIds \subseteq Nat
    /\ \A c \in Clients : Stray \notin Requests(c)
<1> QED BY BlazeAssumption

\* A request's first piece is followed by its second, and comes after those of
\* the requests with smaller numbers.
LEMMA Headers ==
    ASSUME NEW c \in Clients, NEW k \in 1..Length(c), Stream[c][k][2] = 1
    PROVE  /\ k + 1 \in 1..Length(c) /\ Stream[c][k + 1] = <<Stream[c][k][1], 2>>
           /\ \A j \in 1..k - 1 : Stream[c][j][1] < Stream[c][k][1]
<1>1. \A i \in 1..Length(c) : Stream[c][i][2] = 1 =>
         /\ i < Length(c) /\ Stream[c][i + 1] = <<Stream[c][i][1], 2>>
         /\ \A j \in 1..i - 1 : Stream[c][j][1] < Stream[c][i][1]
  BY BlazeAssumption
<1>2. /\ k < Length(c) /\ Stream[c][k + 1] = <<Stream[c][k][1], 2>>
      /\ \A j \in 1..k - 1 : Stream[c][j][1] < Stream[c][k][1]
  BY <1>1
<1>3. Length(c) \in Nat
  BY Pieces
<1> QED BY <1>2, <1>3

\* A header that is read now is that of a later request than those before.
LEMMA Later ==
    ASSUME NEW c \in Clients, NEW k \in 1..Length(c), NEW q, NEW r,
           got[c] \in Nat, got[c] < k,
           Stream[c][k] = <<r, 1>>, Begun(c, q)
    PROVE  q < r
<1>1. PICK p \in 1..got[c] : Stream[c][p] = <<q, 1>>
  BY DEF Begun
<1>2. p \in 1..k - 1
  BY Pieces
<1>3. Stream[c][k][2] = 1 /\ Stream[c][k][1] = r
  OBVIOUS
<1>4. Stream[c][p][1] < Stream[c][k][1]
  BY <1>2, <1>3, Headers
<1> QED BY <1>1, <1>3, <1>4

\* A request has two pieces at least.
LEMMA TwoPieces ==
    ASSUME NEW c \in Clients, NEW k \in 1..Length(c), NEW r,
           Stream[c][k] = <<r, 1>>
    PROVE  Size(c, r) # 1
<1> DEFINE S == {j \in 1..Length(c) : Stream[c][j][1] = r}
<1>1. k + 1 \in 1..Length(c) /\ Stream[c][k + 1] = <<r, 2>>
  <2>1. Stream[c][k][2] = 1 /\ Stream[c][k][1] = r
    OBVIOUS
  <2> QED BY <2>1, Headers
<1>2. k \in S /\ k + 1 \in S /\ k # k + 1
  BY <1>1
<1>3. IsFiniteSet(S)
  <2>1. IsFiniteSet(1..Length(c))
    BY FS_Interval, Pieces, 1 \in Int, Length(c) \in Int
  <2> QED BY <2>1, FS_Subset, S \subseteq 1..Length(c)
<1>4. ASSUME Cardinality(S) = 1 PROVE FALSE
  <2>1. PICK x : S = {x}
    BY <1>3, <1>4, FS_Singleton
  <2> QED BY <2>1, <1>2
<1> QED BY <1>4 DEF Size

\* What a read is: the next pieces of the stream, up to a record's end.
LEMMA ReadFacts ==
    ASSUME TypeOK, NEW c \in Clients, Ends(c), Readable(c)
    PROVE  LET n == ReadSize(c)
               b == Filled(c, n)
           IN  /\ n \in 1..Capacity /\ got[c] \in Nat
               /\ wire[c] # <<>> /\ Head(wire[c]) = wire[c][1]
               /\ got[c] + n <= Head(wire[c]) /\ got[c] + n <= Length(c)
               /\ b \in [1..Capacity -> Nat \X Nat]
               /\ \A k \in 1..n : b[k] = Stream[c][got[c] + k]
<1> DEFINE n == ReadSize(c)
<1>1. /\ wire[c] \in Seq(Nat) /\ wire[c] # <<>>
      /\ got[c] \in Nat /\ issued[c] \in Nat /\ Length(c) \in Nat
      /\ Capacity \in Nat /\ Capacity >= 2
  BY Buffer, Pieces DEF Readable, TypeOK, Header
<1>2. Len(wire[c]) \in Nat /\ 1 \in 1..Len(wire[c]) /\ Head(wire[c]) = wire[c][1]
      /\ wire[c][1] \in Nat
  BY <1>1
<1>3. got[c] < wire[c][1] /\ wire[c][1] <= issued[c] /\ issued[c] <= Length(c)
  BY <1>2 DEF Ends
<1>4. n \in 1..Capacity /\ got[c] + n <= wire[c][1] /\ got[c] + n <= Length(c)
  <2> DEFINE w == wire[c][1]
             g == got[c]
  <2>1. n = IF w - g < Capacity THEN w - g ELSE Capacity
    BY <1>2 DEF ReadSize
  <2>2. w \in Nat /\ g \in Nat /\ g < w /\ w <= Length(c)
    <3>1. w \in Nat /\ g \in Nat /\ g < w /\ w <= issued[c]
      BY <1>1, <1>2, <1>3
    <3> QED BY <3>1, <1>1, <1>3
  <2> HIDE DEF n, w, g
  <2>3. n \in 1..Capacity /\ g + n <= w /\ g + n <= Length(c)
    BY <2>1, <2>2, <1>1
  <2> QED BY <2>3 DEF w, g
<1> HIDE DEF n
<1>5. ASSUME NEW k \in 1..n
      PROVE  k \in 1..Capacity /\ Stream[c][got[c] + k] \in Nat \X Nat
  <2>1. got[c] + k \in 1..Length(c)
    BY <1>1, <1>4
  <2>2. Stream[c][got[c] + k] \in (Nat \ {0}) \X (Nat \ {0})
    BY <2>1, Pieces
  <2> QED BY <2>2, <1>1, <1>4
<1>6. mReadBuffer[c] \in [1..Capacity -> Nat \X Nat]
  BY DEF TypeOK
<1>7. \A k \in 1..Capacity : k <= n => k \in 1..n
  BY <1>1, <1>4
<1>8. Filled(c, n) \in [1..Capacity -> Nat \X Nat]
  BY <1>5, <1>6, <1>7 DEF Filled
<1>9. \A k \in 1..n : Filled(c, n)[k] = Stream[c][got[c] + k]
  BY <1>4, <1>5 DEF Filled
<1> QED BY <1>1, <1>2, <1>4, <1>8, <1>9 DEF n

\* A command is that of the read's first piece, which is a request's, if it is
\* not a stray one.
LEMMA FirstPiece ==
    ASSUME TypeOK, NEW c \in Clients, Ends(c), Readable(c),
           NEW n, n = ReadSize(c), NEW b, b = Filled(c, n), NEW r \in Commands(b)
    PROVE  /\ got[c] + 1 \in 1..Length(c) /\ b[1] = Stream[c][got[c] + 1]
           /\ r \notin {0, Stray} => r = b[1][1] /\ b[1][2] = 1
           /\ b[1][2] = 1 => r = b[1][1] /\ r \in Requests(c) /\ r # 0 /\ r # Stray
           /\ r \in Nat
<1>1. /\ n \in 1..Capacity /\ got[c] \in Nat /\ got[c] + n <= Length(c)
      /\ \A k \in 1..n : b[k] = Stream[c][got[c] + k]
  BY ReadFacts
<1>2. 1 \in 1..n /\ got[c] + 1 \in 1..Length(c)
  BY <1>1, Buffer, Pieces
<1>3. b[1] = Stream[c][got[c] + 1]
  BY <1>1, <1>2
<1>4. b[1][1] \in Requests(c) /\ b[1][1] \in Nat \ {0} /\ b[1] # Nothing
  BY <1>2, <1>3, Pieces DEF Nothing
<1>5. r \in IF b[1][2] = 1 THEN {b[1][1]} ELSE {0, Stray}
  BY <1>4 DEF Commands, PieceAt
<1> QED BY <1>2, <1>3, <1>4, <1>5, StrayFacts

\* The header of a read that is not short is one that was sent, or a part of a
\* body.
LEMMA HeaderFacts ==
    ASSUME TypeOK, NEW c \in Clients, Ends(c), Readable(c),
           NEW n, n = ReadSize(c), NEW b, b = Filled(c, n),
           n >= Header, NEW r \in Commands(b), r \notin {0, Stray}
    PROVE  /\ Stream[c][got[c] + 1] = <<r, 1>>
           /\ got[c] + 1 \in 1..Length(c) /\ MessageIds(b) = {r}
<1>1. /\ n \in 1..Capacity /\ got[c] \in Nat /\ got[c] + n <= Length(c)
      /\ \A k \in 1..n : b[k] = Stream[c][got[c] + k]
  BY ReadFacts
<1>2. 2 \in 1..n
  BY <1>1, Buffer DEF Header
<1>3. /\ got[c] + 1 \in 1..Length(c) /\ b[1] = Stream[c][got[c] + 1]
      /\ r = b[1][1] /\ b[1][2] = 1
  BY FirstPiece
<1>4. b[2] = Stream[c][got[c] + 2]
  BY <1>1, <1>2
<1>5. Stream[c][got[c] + 1] = <<r, 1>>
  BY <1>3, Pieces
<1>6. Stream[c][(got[c] + 1) + 1] = <<r, 2>>
  BY <1>3, Headers
<1>7. (got[c] + 1) + 1 = got[c] + 2
  BY <1>1
<1>8. b[2] = <<r, 2>>
  BY <1>4, <1>6, <1>7
<1>9. MessageIds(b) = {r}
  BY <1>8 DEF MessageIds, PieceAt
<1> QED BY <1>3, <1>5, <1>9

\* What was read is request q, all of it.
AllOf(c, b, n, q) == n = Size(c, q) /\ \A k \in 1..n : b[k] = <<q, k>>

\* A read of a whole request is that request's.
LEMMA WholeFacts ==
    ASSUME TypeOK, NEW c \in Clients, Ends(c), Readable(c),
           NEW n, n = ReadSize(c), NEW b, b = Filled(c, n),
           NEW q \in Requests(c), AllOf(c, b, n, q)
    PROVE  Commands(b) = {q} /\ MessageIds(b) = {q} /\ q # 0 /\ q # Stray
<1>1. /\ n \in 1..Capacity /\ n \in Nat /\ got[c] \in Nat /\ got[c] + n <= Length(c)
      /\ \A k \in 1..n : b[k] = Stream[c][got[c] + k]
  <2>1. /\ n \in 1..Capacity /\ got[c] \in Nat /\ got[c] + n <= Length(c)
        /\ \A k \in 1..n : b[k] = Stream[c][got[c] + k]
    BY ReadFacts
  <2> QED BY <2>1, Buffer
<1>2. 1 \in 1..n /\ b[1] = <<q, 1>>
  BY <1>1 DEF AllOf
<1>3. n # 1
  <2>1. Stream[c][got[c] + 1] = <<q, 1>> /\ got[c] + 1 \in 1..Length(c)
    BY <1>1, <1>2, Pieces
  <2> QED BY <2>1, TwoPieces DEF AllOf
<1>4. b[2] = <<q, 2>>
  BY <1>1, <1>3 DEF AllOf
<1>5. Commands(b) = {q} /\ MessageIds(b) = {q}
  BY <1>2, <1>4 DEF Commands, MessageIds, PieceAt
<1> QED BY <1>5, Pieces, StrayFacts

----------------------------------------------------------------------------
(* Steps that leave a client alone.                                        *)

\* What was read of d, and what came of it.
SameData(d) ==
    /\ got'[d] = got[d] /\ mWriteBuffers'[d] = mWriteBuffers[d]
    /\ written'[d] = written[d] /\ ran'[d] = ran[d]
    /\ answered'[d] = answered[d] /\ disturbed'[d] = disturbed[d]
    /\ d \in short' <=> d \in short
    /\ d \in strayed' <=> d \in strayed

SameWire(d) == issued'[d] = issued[d] /\ wire'[d] = wire[d]

\* The io thread writes to d if it did, and a deleted client stays one.
SamePlace(d) ==
    /\ io' = d <=> io = d
    /\ io = d => pc'[d] = pc[d]
    /\ pc[d] = "deleted" => pc'[d] = "deleted"

LEMMA InOrderFrame ==
    ASSUME NEW d \in Clients, SameData(d), InOrder(d)
    PROVE  InOrder(d)'
<1>1. \A r : Begun(d, r)' <=> Begun(d, r)
  BY DEF SameData, Begun
<1>2. \A a : Fits(d, a)' <=> Fits(d, a)
  BY <1>1 DEF Fits
<1> QED BY <1>1, <1>2 DEF SameData, InOrder, Before

LEMMA KeptFrame ==
    ASSUME NEW d \in Clients, SameData(d), SamePlace(d), Kept(d)
    PROVE  Kept(d)'
<1> SUFFICES ASSUME NEW r \in Requests(d), AllRead(d, r)', r \notin disturbed'[d]
             PROVE  Settled(d, r)'
  BY DEF Kept, Requests, Length
<1>1. AllRead(d, r) /\ r \notin disturbed[d]
  BY DEF AllRead, SameData, Size, Length
<1>2. Settled(d, r)
  BY <1>1 DEF Kept
<1>3. (Answered(d, r) => Answered(d, r)') /\ (Ran(d, r) => Ran(d, r)')
  BY DEF Answered, Ran, SameData
<1>4. Pending(d, r) => Pending(d, r)'
  BY DEF Pending, SameData, SamePlace
<1> QED BY <1>2, <1>3, <1>4 DEF Settled, SamePlace

LEMMA SoundFrame ==
    ASSUME NEW d \in Clients, SameData(d), SameWire(d), SamePlace(d), Sound(d)
    PROVE  Sound(d)'
<1>1. Ends(d)'
  BY DEF Sound, Ends, SameData, SameWire, Length
<1>2. io' = d => pc'[d] = "writing"
  BY DEF Sound, SamePlace
<1>3. d \notin short' => InOrder(d)'
  BY InOrderFrame DEF Sound, SameData
<1>4. Kept(d)'
  BY KeptFrame DEF Sound
<1>5. Strays(d)'
  BY DEF Sound, Strays, SameData
<1> QED BY <1>1, <1>2, <1>3, <1>4, <1>5 DEF Sound

----------------------------------------------------------------------------
(* The steps.                                                              *)

\* A handle_read runs one command, and has its answers.
LEMMA HandleReadRuns ==
    ASSUME NEW c \in Clients, HandleRead(c),
           NEW n, n = ReadSize(c), NEW b, b = Filled(c, n)
    PROVE  \E r \in Commands(b) : \E answers \in Answers(c, b, n, r) :
              /\ ReadRequest(c, n, b, r)
              /\ mWriteBuffers' = [mWriteBuffers EXCEPT ![c] = Cleared(c) \o answers]
              /\ Readable(c) /\ written' = [written EXCEPT ![c] = 0]
              /\ pc' = [pc EXCEPT ![c] = "writing"]
              /\ io' = c /\ running' = running
<1> HIDE DEF Commands, Answers, ReadRequest, Cleared, Readable, ReadSize, Filled
<1>1. \E r \in Commands(Filled(c, ReadSize(c))) :
         \E answers \in Answers(c, Filled(c, ReadSize(c)), ReadSize(c), r) :
              /\ ReadRequest(c, ReadSize(c), Filled(c, ReadSize(c)), r)
              /\ mWriteBuffers' = [mWriteBuffers EXCEPT ![c] = Cleared(c) \o answers]
              /\ written' = [written EXCEPT ![c] = 0]
              /\ pc' = [pc EXCEPT ![c] = "writing"]
              /\ io' = c /\ running' = running
  BY DEF HandleRead
<1>2. Readable(c)
  BY DEF HandleRead
<1> QED BY <1>1, <1>2

\* What the io thread or the peer does of connection c.
Step(c) == PeerStep(c) \/ Accept(c) \/ TakeUp(c) \/ HandlerThrows(c) \/ GoOn(c)

\* A step of c does nothing to another client.
LEMMA Others ==
    ASSUME TypeOK, NEW c \in Clients, NEW d \in Clients, c # d, Step(c)
    PROVE  SameData(d) /\ SameWire(d) /\ SamePlace(d)
<1> USE Buffer DEF TypeOK, SameData, SameWire, SamePlace, netVars,
        bufferVars, historyVars
<1>1. CASE \E n \in 1..Length(c) : Send(c, n)
  BY <1>1 DEF Send
<1>2. CASE Stall(c)
  BY <1>2 DEF Stall
<1>3. CASE Resume(c)
  BY <1>3 DEF Resume
<1>4. CASE HangUp(c)
  BY <1>4 DEF HangUp
<1>5. CASE Accept(c)
  BY <1>5 DEF Accept
<1>6. CASE Handshake(c)
  BY <1>6 DEF Handshake
<1>7. CASE Drop(c)
  BY <1>7 DEF Drop
<1>8. CASE HandleRead(c)
  <2>1. PICK n, b : n = ReadSize(c) /\ b = Filled(c, n)
    OBVIOUS
  <2>2. PICK r \in Commands(b) : \E answers \in Answers(c, b, n, r) :
           /\ ReadRequest(c, n, b, r)
           /\ mWriteBuffers' = [mWriteBuffers EXCEPT ![c] = Cleared(c) \o answers]
           /\ Readable(c) /\ written' = [written EXCEPT ![c] = 0]
           /\ pc' = [pc EXCEPT ![c] = "writing"]
           /\ io' = c /\ running' = running
    BY <1>8, <2>1, HandleReadRuns
  <2>3. PICK answers : mWriteBuffers' = [mWriteBuffers EXCEPT ![c] = Cleared(c) \o answers]
    BY <2>2
  <2>4. ReadRequest(c, n, b, r)
    BY <2>2
  <2>5. SameWire(d) /\ SamePlace(d)
    BY <2>2, <2>4 DEF ReadRequest, Readable, Idle
  <2>6. SameData(d)
    BY <2>2, <2>3, <2>4 DEF ReadRequest
  <2> QED BY <2>5, <2>6
<1>9. CASE HandlerThrows(c)
  BY <1>9 DEF HandlerThrows, ReadRequest
<1>10. CASE Write(c)
  BY <1>10 DEF Write
<1>11. CASE WriteFails(c)
  BY <1>11 DEF WriteFails
<1>12. CASE FinishRead(c)
  BY <1>12 DEF FinishRead
<1> QED
  BY <1>1, <1>2, <1>3, <1>4, <1>5, <1>6, <1>7, <1>8, <1>9, <1>10, <1>11, <1>12
     DEF Step, PeerStep, TakeUp, GoOn

\* What a request's answer is made of.
LEMMA AnswerTypes ==
    ASSUME NEW c \in Clients, NEW n \in 1..Capacity, NEW b \in [1..Capacity -> Nat \X Nat],
           NEW r \in Commands(b), NEW answers \in Answers(c, b, n, r)
    PROVE  /\ r \in Nat /\ MessageIds(b) \subseteq Nat
           /\ answers \in Seq(Nat \X Nat)
           /\ answers = <<>> \/ (r # 0 /\ \E i \in MessageIds(b) : answers = <<<<r, i>>>>)
<1>1. 1 \in 1..Capacity /\ 2 \in 1..Capacity
  BY Buffer DEF Header
<1>2. b[1] \in Nat \X Nat /\ b[2] \in Nat \X Nat
  BY <1>1
<1>3. r \in Nat /\ MessageIds(b) \subseteq Nat
  <2>1. b[1][1] \in Nat /\ b[2][1] \in Nat
    BY <1>2
  <2>2. Commands(b) \subseteq {b[1][1], 0, Stray}
    BY DEF Commands, PieceAt
  <2>3. MessageIds(b) \subseteq {b[2][1]} \cup BodyIds
    BY DEF MessageIds, PieceAt
  <2>4. Stray \in Nat /\ BodyIds \subseteq Nat
    BY StrayFacts
  <2>5. r \in Nat
    BY <2>1, <2>2, <2>4
  <2>6. MessageIds(b) \subseteq Nat
    BY <2>1, <2>3, <2>4
  <2> QED BY <2>5, <2>6
<1>4. answers = <<>> \/ (r # 0 /\ \E i \in MessageIds(b) : answers = <<<<r, i>>>>)
  BY DEF Answers
<1>5. answers \in Seq(Nat \X Nat)
  <2>1. CASE answers = <<>>
    BY <2>1
  <2>2. ASSUME NEW i \in MessageIds(b), answers = <<<<r, i>>>> PROVE answers \in Seq(Nat \X Nat)
    <3>1. <<r, i>> \in Nat \X Nat
      BY <1>3
    <3> QED BY <2>2, <3>1
  <2> QED BY <2>1, <2>2, <1>4
<1> QED BY <1>3, <1>4, <1>5

\* A read of c brings numbers, of which the rest of TypeOK is made.
LEMMA ReadTypes ==
    ASSUME TypeOK, NEW c \in Clients, Ends(c), Readable(c),
           NEW n, n = ReadSize(c), NEW b, b = Filled(c, n),
           NEW r \in Commands(b), ReadRequest(c, n, b, r)
    PROVE  /\ got' \in [Clients -> Nat] /\ issued' \in [Clients -> Nat]
           /\ wire' \in [Clients -> Seq(Nat)]
           /\ mReadBuffer' \in [Clients -> [1..Capacity -> Nat \X Nat]]
           /\ ran' \in [Clients -> Seq(Nat)]
           /\ answered' \in [Clients -> Seq(Nat \X Nat)]
           /\ short' \subseteq Clients /\ strayed' \subseteq Clients
           /\ disturbed' \in [Clients -> SUBSET Nat]
           /\ stalled' \subseteq Clients /\ hungUp' \subseteq Clients
           /\ accepting' \in BOOLEAN
<1>1. /\ n \in 1..Capacity /\ got[c] \in Nat /\ wire[c] # <<>>
      /\ got[c] + n <= Length(c) /\ b \in [1..Capacity -> Nat \X Nat]
  BY ReadFacts
<1>2. r \in Nat
  BY FirstPiece
<1>3. got' \in [Clients -> Nat]
  <2>1. got[c] + n \in Nat
    BY <1>1, Buffer
  <2> QED BY <2>1 DEF ReadRequest, TypeOK
<1>4. wire' \in [Clients -> Seq(Nat)]
  <2>1. wire[c] \in Seq(Nat) /\ Tail(wire[c]) \in Seq(Nat)
    BY <1>1 DEF TypeOK
  <2> QED BY <2>1 DEF ReadRequest, TypeOK
<1>5. mReadBuffer' \in [Clients -> [1..Capacity -> Nat \X Nat]]
  BY <1>1 DEF ReadRequest, TypeOK
<1>6. ran' \in [Clients -> Seq(Nat)]
  <2>1. ran[c] \in Seq(Nat) /\ Append(ran[c], r) \in Seq(Nat)
    BY <1>2 DEF TypeOK
  <2> QED BY <2>1 DEF ReadRequest, TypeOK
<1>7. disturbed' \in [Clients -> SUBSET Nat]
  <2>1. Touched(c, n) \subseteq Nat
    <3>1. \A k \in got[c] + 1 .. got[c] + n : k \in 1..Length(c)
      BY <1>1, Pieces, Buffer
    <3>2. \A k \in 1..Length(c) : Stream[c][k][1] \in Nat
      BY Pieces
    <3> QED BY <3>1, <3>2 DEF Touched
  <2>2. disturbed[c] \cup Touched(c, n) \in SUBSET Nat
    BY <2>1 DEF TypeOK
  <2> QED BY <2>2 DEF ReadRequest, TypeOK
<1> QED BY <1>3, <1>4, <1>5, <1>6, <1>7 DEF ReadRequest, TypeOK

LEMMA TypeStep ==
    ASSUME TypeOK, NEW c \in Clients, Ends(c), Step(c)
    PROVE  TypeOK'
<1>1. CASE \E n \in 1..Length(c) : Send(c, n)
  <2>1. PICK n \in 1..Length(c) : Send(c, n)
    BY <1>1
  <2>2. n \in Nat /\ issued[c] \in Nat /\ issued[c] + n \in Nat
    BY Pieces DEF TypeOK
  <2>3. wire[c] \in Seq(Nat) /\ Append(wire[c], issued[c] + n) \in Seq(Nat)
    BY <2>2 DEF TypeOK
  <2> QED BY <2>1, <2>2, <2>3 DEF Send, TypeOK, bufferVars, historyVars
<1>2. CASE Stall(c) \/ Resume(c) \/ HangUp(c)
  BY <1>2 DEF Stall, Resume, HangUp, TypeOK, bufferVars, historyVars
<1>3. CASE Accept(c) \/ Handshake(c) \/ Drop(c)
  BY <1>3 DEF Accept, Handshake, Drop, TypeOK, netVars, bufferVars, historyVars
<1>4. CASE HandleRead(c)
  <2>1. PICK n, b : n = ReadSize(c) /\ b = Filled(c, n)
    OBVIOUS
  <2>2. n \in 1..Capacity /\ b \in [1..Capacity -> Nat \X Nat]
    BY <1>4, <2>1, ReadFacts DEF HandleRead
  <2>3. PICK r \in Commands(b) : \E answers \in Answers(c, b, n, r) :
           /\ ReadRequest(c, n, b, r)
           /\ mWriteBuffers' = [mWriteBuffers EXCEPT ![c] = Cleared(c) \o answers]
           /\ Readable(c) /\ written' = [written EXCEPT ![c] = 0]
           /\ pc' = [pc EXCEPT ![c] = "writing"]
           /\ io' = c /\ running' = running
    BY <1>4, <2>1, HandleReadRuns
  <2>4. PICK answers \in Answers(c, b, n, r) :
           /\ ReadRequest(c, n, b, r)
           /\ mWriteBuffers' = [mWriteBuffers EXCEPT ![c] = Cleared(c) \o answers]
    BY <2>3
  <2>5. Cleared(c) \o answers \in Seq(Nat \X Nat)
    BY <2>2, AnswerTypes DEF Cleared
  <2>6. mWriteBuffers' \in [Clients -> Seq(Nat \X Nat)]
    BY <2>4, <2>5 DEF TypeOK
  <2>7. /\ written' \in [Clients -> Nat] /\ io' \in Clients \cup {None}
        /\ pc' \in [Clients -> {"none", "handshake", "reading", "writing", "deleted"}]
        /\ running' \in BOOLEAN
    BY <2>3 DEF TypeOK
  <2> QED BY <2>1, <2>3, <2>4, <2>6, <2>7, ReadTypes DEF TypeOK
<1>5. CASE HandlerThrows(c)
  <2>1. PICK n, b : n = ReadSize(c) /\ b = Filled(c, n)
           /\ \E r \in Commands(b) : ReadRequest(c, n, b, r)
    BY <1>5 DEF HandlerThrows
  <2>2. PICK r \in Commands(b) : ReadRequest(c, n, b, r)
    BY <2>1
  <2> QED BY <1>5, <2>1, <2>2, ReadTypes DEF HandlerThrows, TypeOK
<1>6. CASE Write(c)
  <2>1. written[c] \in Nat /\ mWriteBuffers[c] \in Seq(Nat \X Nat)
        /\ written[c] < Len(mWriteBuffers[c])
    BY <1>6 DEF Write, TypeOK
  <2>2. mWriteBuffers[c][written[c] + 1] \in Nat \X Nat
    BY <2>1
  <2>3. answered[c] \in Seq(Nat \X Nat)
        /\ Append(answered[c], mWriteBuffers[c][written[c] + 1]) \in Seq(Nat \X Nat)
    BY <2>2 DEF TypeOK
  <2>4. written' \in [Clients -> Nat]
    BY <1>6, <2>1 DEF Write, TypeOK
  <2>5. answered' \in [Clients -> Seq(Nat \X Nat)]
    <3>1. answered' = [answered EXCEPT ![c] = Append(answered[c], mWriteBuffers[c][written[c] + 1])]
      BY <1>6 DEF Write
    <3> QED BY <3>1, <2>3 DEF TypeOK
  <2> QED BY <1>6, <2>4, <2>5 DEF Write, TypeOK, netVars
<1>7. CASE WriteFails(c) \/ FinishRead(c)
  BY <1>7 DEF WriteFails, FinishRead, AfterWrites, TypeOK, netVars, bufferVars, historyVars
<1> QED BY <1>1, <1>2, <1>3, <1>4, <1>5, <1>6, <1>7 DEF Step, PeerStep, TakeUp, GoOn

\* Steps of c that read nothing and write nothing.
LEMMA QuietSound ==
    ASSUME TypeOK, NEW c \in Clients, Sound(c),
           \/ Stall(c) \/ Resume(c) \/ HangUp(c)
           \/ Accept(c) \/ Handshake(c) \/ Drop(c)
    PROVE  Sound(c)'
<1>1. SameData(c) /\ SameWire(c)
  BY DEF Stall, Resume, HangUp, Accept, Handshake, Drop, SameData, SameWire,
         netVars, bufferVars, historyVars
<1>2. SamePlace(c)
  BY Buffer
     DEF Stall, Resume, HangUp, Accept, Handshake, Drop, Idle, SamePlace, TypeOK, None
<1> QED BY <1>1, <1>2, SoundFrame

\* A record more, behind the others.
LEMMA SendSound ==
    ASSUME TypeOK, NEW c \in Clients, Sound(c), NEW n \in 1..Length(c), Send(c, n)
    PROVE  Sound(c)'
<1>1. SameData(c) /\ SamePlace(c)
  BY DEF Send, SameData, SamePlace, bufferVars, historyVars
<1>2. InOrder(c) => InOrder(c)'
  BY <1>1, InOrderFrame
<1>3. Kept(c)'
  BY <1>1, KeptFrame DEF Sound
<1>4. Ends(c)'
  <2> DEFINE w == wire[c]
             e == issued[c] + n
  <2>1. n \in Nat /\ n > 0 /\ issued[c] \in Nat /\ got[c] \in Nat /\ Length(c) \in Nat
    BY Pieces DEF TypeOK
  <2>2. w \in Seq(Nat) /\ Len(w) \in Nat
    BY DEF TypeOK
  <2>3. got' = got /\ issued'[c] = e /\ wire'[c] = Append(w, e)
    BY DEF Send, TypeOK
  <2>4. e \in Nat /\ issued[c] < e /\ e <= Length(c)
    BY <2>1 DEF Send
  <2>5. got[c] <= issued[c]
        /\ (\A k \in 1..Len(w) : got[c] < w[k] /\ w[k] <= issued[c])
        /\ (\A j, k \in 1..Len(w) : j < k => w[j] < w[k])
    BY DEF Sound, Ends
  <2>6. \A k \in 1..Len(w) : w[k] \in Nat
    BY <2>2
  <2> HIDE DEF w, e
  <2>7. Len(Append(w, e)) = Len(w) + 1 /\ Append(w, e)[Len(w) + 1] = e
        /\ (\A k \in 1..Len(w) : Append(w, e)[k] = w[k])
    BY <2>2, <2>4
  <2>8. ASSUME NEW k \in 1..Len(w) + 1
        PROVE  got[c] < Append(w, e)[k] /\ Append(w, e)[k] <= e
    BY <2>1, <2>2, <2>4, <2>5, <2>6, <2>7
  <2>9. ASSUME NEW j \in 1..Len(w) + 1, NEW k \in 1..Len(w) + 1, j < k
        PROVE  Append(w, e)[j] < Append(w, e)[k]
    <3>1. j \in 1..Len(w)
      BY <2>2, <2>9
    <3>2. CASE k \in 1..Len(w)
      BY <3>1, <3>2, <2>5, <2>7, <2>9
    <3>3. CASE k = Len(w) + 1
      <4>1. w[j] <= issued[c] /\ w[j] \in Nat
        BY <3>1, <2>5, <2>6
      <4> QED BY <4>1, <3>1, <3>3, <2>1, <2>4, <2>7
    <3> QED BY <3>2, <3>3, <2>2
  <2>10. got[c] <= e
    BY <2>1, <2>4, <2>5
  <2> QED BY <2>3, <2>4, <2>7, <2>8, <2>9, <2>10 DEF Ends, Length
<1>5. Strays(c)'
  BY <1>1 DEF Sound, Strays, SameData
<1> QED BY <1>1, <1>2, <1>3, <1>4, <1>5 DEF Sound, SameData, SamePlace

\* A read takes the first record, or a part of it.
LEMMA ReadEnds ==
    ASSUME TypeOK, NEW c \in Clients, Ends(c), Readable(c),
           NEW n, n = ReadSize(c), NEW b, NEW r, ReadRequest(c, n, b, r)
    PROVE  Ends(c)'
<1> DEFINE w == wire[c]
           g == got[c]
<1>1. /\ n \in Nat /\ n > 0 /\ g \in Nat /\ w # <<>> /\ Head(w) = w[1]
      /\ g + n <= Head(w) /\ g + n <= Length(c)
  BY ReadFacts, Buffer
<1>2. w \in Seq(Nat) /\ Len(w) \in Nat /\ issued[c] \in Nat /\ Length(c) \in Nat
  BY Pieces DEF TypeOK
<1>3. issued' = issued /\ got'[c] = g + n
      /\ wire'[c] = IF g + n = Head(w) THEN Tail(w) ELSE w
  BY DEF ReadRequest, TypeOK
<1>4. /\ issued[c] <= Length(c)
      /\ \A k \in 1..Len(w) : g < w[k] /\ w[k] <= issued[c]
      /\ \A j, k \in 1..Len(w) : j < k => w[j] < w[k]
  BY DEF Ends
<1>5. \A k \in 1..Len(w) : w[k] \in Nat
  BY <1>2
<1> HIDE DEF w, g
<1>6. 1 \in 1..Len(w)
  BY <1>1, <1>2
<1>7. g + n \in Nat /\ g + n <= w[1] /\ w[1] <= issued[c] /\ g + n <= issued[c]
  <2>1. g + n <= w[1] /\ w[1] <= issued[c] /\ w[1] \in Nat
    BY <1>1, <1>4, <1>5, <1>6
  <2> QED BY <2>1, <1>1, <1>2
<1>8. CASE g + n = Head(w)
  <2>1. Len(Tail(w)) = Len(w) - 1 /\ \A k \in 1..Len(w) - 1 : Tail(w)[k] = w[k + 1]
    BY <1>1, <1>2
  <2>2. \A k \in 1..Len(w) - 1 : k + 1 \in 1..Len(w) /\ 1 < k + 1
    BY <1>2
  <2>3. \A k \in 1..Len(w) - 1 : g + n < Tail(w)[k] /\ Tail(w)[k] <= issued[c]
    <3> TAKE k \in 1..Len(w) - 1
    <3>1. k + 1 \in 1..Len(w) /\ 1 < k + 1 /\ Tail(w)[k] = w[k + 1]
      BY <2>1, <2>2
    <3>2. w[1] < w[k + 1] /\ w[k + 1] <= issued[c]
      BY <3>1, <1>4, <1>6
    <3> QED BY <3>1, <3>2, <1>1, <1>8
  <2>4. \A j, k \in 1..Len(w) - 1 : j < k => Tail(w)[j] < Tail(w)[k]
    <3> TAKE j, k \in 1..Len(w) - 1
    <3>1. j + 1 \in 1..Len(w) /\ k + 1 \in 1..Len(w)
          /\ Tail(w)[j] = w[j + 1] /\ Tail(w)[k] = w[k + 1]
      BY <2>1, <2>2
    <3>2. j < k => j + 1 < k + 1
      BY <1>2
    <3> QED BY <3>1, <3>2, <1>4
  <2>5. wire'[c] = Tail(w)
    BY <1>3, <1>8
  <2> QED BY <1>3, <1>4, <1>7, <2>1, <2>3, <2>4, <2>5 DEF Ends, Length
<1>9. CASE g + n # Head(w)
  <2>1. g + n < w[1]
    BY <1>1, <1>5, <1>6, <1>7, <1>9
  <2>2. ASSUME NEW k \in 1..Len(w) PROVE g + n < w[k]
    <3>1. CASE k = 1
      BY <3>1, <2>1
    <3>2. CASE k # 1
      <4>1. 1 < k
        BY <3>2, <1>2
      <4>2. w[1] < w[k] /\ w[1] \in Nat /\ w[k] \in Nat
        BY <4>1, <1>4, <1>5, <1>6
      <4> QED BY <4>2, <2>1, <1>7
    <3> QED BY <3>1, <3>2
  <2>3. wire'[c] = w
    BY <1>3, <1>9
  <2> QED BY <1>3, <1>4, <1>7, <2>2, <2>3 DEF Ends, Length
<1> QED BY <1>8, <1>9

\* What has begun before a read has begun after it; its header begins, if the
\* read is not short, a request behind all of these.
LEMMA ReadBegins ==
    ASSUME TypeOK, NEW c \in Clients, Ends(c), Readable(c),
           NEW n, n = ReadSize(c), NEW b, b = Filled(c, n),
           NEW x \in Commands(b), ReadRequest(c, n, b, x)
    PROVE  /\ \A q : Begun(c, q) => Begun(c, q)'
           /\ n >= Header /\ x \notin {0, Stray} =>
                 /\ MessageIds(b) = {x} /\ Begun(c, x)'
                 /\ \A q : Begun(c, q) => q < x
<1>1. /\ n \in Nat /\ n > 0 /\ got[c] \in Nat /\ got'[c] = got[c] + n
  <2>1. n \in 1..Capacity /\ got[c] \in Nat
    BY ReadFacts
  <2>2. n \in Nat /\ n > 0
    BY <2>1, Buffer
  <2> QED BY <2>1, <2>2 DEF ReadRequest, TypeOK
<1>2. \A q : Begun(c, q) => Begun(c, q)'
  BY <1>1 DEF Begun
<1>3. ASSUME n >= Header, x \notin {0, Stray}
      PROVE  /\ MessageIds(b) = {x} /\ Begun(c, x)'
             /\ \A q : Begun(c, q) => q < x
  <2>1. /\ Stream[c][got[c] + 1] = <<x, 1>>
        /\ got[c] + 1 \in 1..Length(c) /\ MessageIds(b) = {x}
    BY <1>3, HeaderFacts
  <2>2. PICK r : r = x
    OBVIOUS
  <2>3. Begun(c, r)'
    <3>1. got[c] + 1 \in 1..got'[c]
      BY <1>1
    <3> QED BY <3>1, <2>1, <2>2 DEF Begun
  <2>4. \A q : Begun(c, q) => q < r
    BY <2>1, <2>2, <1>1, Later
  <2> QED BY <2>1, <2>2, <2>3, <2>4
<1> QED BY <1>2, <1>3

\* Numbers in order, and a larger one behind them.
LEMMA LargerLast ==
    ASSUME NEW s \in Seq(Nat), NEW x \in Nat, \A k \in 1..Len(s) : s[k] < x,
           \A j, k \in 1..Len(s) : j < k => s[j] < s[k]
    PROVE  \A j, k \in 1..Len(Append(s, x)) : j < k => Append(s, x)[j] < Append(s, x)[k]
<1>1. Len(s) \in Nat /\ Len(Append(s, x)) = Len(s) + 1 /\ Append(s, x)[Len(s) + 1] = x
      /\ \A k \in 1..Len(s) : Append(s, x)[k] = s[k]
  OBVIOUS
<1>2. ASSUME NEW j \in 1..Len(s) + 1, NEW k \in 1..Len(s) + 1, j < k
      PROVE  Append(s, x)[j] < Append(s, x)[k]
  <2>1. j \in 1..Len(s)
    BY <1>1, <1>2
  <2>2. CASE k \in 1..Len(s)
    BY <1>1, <1>2, <2>1, <2>2
  <2>3. CASE k = Len(s) + 1
    BY <1>1, <2>1, <2>3
  <2> QED BY <2>2, <2>3, <1>1
<1> QED BY <1>1, <1>2

\* The requests run in order.
LEMMA ReadRuns ==
    ASSUME TypeOK, NEW c \in Clients, Ends(c), Readable(c),
           NEW n, n = ReadSize(c), NEW b, b = Filled(c, n),
           NEW x \in Commands(b), ReadRequest(c, n, b, x),
           n >= Header, InOrder(c), NEW s, s = ran'[c]
    PROVE  /\ \A k \in 1..Len(s) : Begun(c, s[k])'
           /\ \A j, k \in 1..Len(s) : j < k => s[j] < s[k]
<1>2. PICK t : t = ran[c]
  OBVIOUS
<1>3. s = IF x \in {0, Stray} THEN t ELSE Append(t, x)
  BY <1>2 DEF ReadRequest, TypeOK
<1>4. t \in Seq(Nat) /\ Len(t) \in Nat
  BY <1>2 DEF TypeOK
<1>5. /\ \A k \in 1..Len(t) : Begun(c, t[k])
      /\ \A j, k \in 1..Len(t) : j < k => t[j] < t[k]
  BY <1>2 DEF InOrder
<1>6. /\ \A q : Begun(c, q) => Begun(c, q)'
      /\ x \notin {0, Stray} => Begun(c, x)' /\ \A q : Begun(c, q) => q < x
  BY ReadBegins
<1>7. CASE x \in {0, Stray}
  BY <1>3, <1>5, <1>6, <1>7
<1>8. CASE x \notin {0, Stray}
  <2>1. s = Append(t, x)
    BY <1>3, <1>8
  <2>2. x \in Nat
    BY FirstPiece
  <2>3. \A k \in 1..Len(t) : t[k] < x
    BY <1>5, <1>6, <1>8
  <2>4. \A j, k \in 1..Len(s) : j < k => s[j] < s[k]
    BY <2>1, <2>2, <2>3, <1>4, <1>5, LargerLast
  <2>5. Len(s) = Len(t) + 1 /\ s[Len(t) + 1] = x /\ \A k \in 1..Len(t) : s[k] = t[k]
    BY <2>1, <1>4, <2>2
  <2>6. ASSUME NEW k \in 1..Len(s) PROVE Begun(c, s[k])'
    <3>1. CASE k \in 1..Len(t)
      <4>1. Begun(c, t[k])'
        BY <3>1, <1>5, <1>6
      <4>2. s[k] = t[k]
        BY <3>1, <2>5
      <4> QED BY <4>1, <4>2
    <3>2. CASE k = Len(t) + 1
      BY <3>2, <2>5, <1>6, <1>8
    <3> QED BY <3>1, <3>2, <2>5, <1>4
  <2> QED BY <2>4, <2>6
<1> QED BY <1>7, <1>8

\* What ran has run, and what is read runs.
LEMMA RanStays ==
    ASSUME TypeOK, NEW c \in Clients, NEW n, NEW b, NEW x \in Nat, ReadRequest(c, n, b, x),
           NEW r, Ran(c, r) \/ (x = r /\ r \notin {0, Stray})
    PROVE  Ran(c, r)'
<1>1. PICK t, s : t = ran[c] /\ s = ran'[c]
  OBVIOUS
<1>2. t \in Seq(Nat) /\ s = IF x \in {0, Stray} THEN t ELSE Append(t, x)
  BY <1>1 DEF ReadRequest, TypeOK
<1>3. CASE x \in {0, Stray}
  BY <1>1, <1>2, <1>3 DEF Ran
<1>4. CASE x \notin {0, Stray}
  <2>1. /\ Len(t) \in Nat /\ Len(s) = Len(t) + 1 /\ s[Len(t) + 1] = x
        /\ \A k \in 1..Len(t) : s[k] = t[k]
    BY <1>2, <1>4
  <2>2. CASE x = r
    <3>1. Len(t) + 1 \in 1..Len(s)
      BY <2>1
    <3> QED BY <1>1, <2>1, <2>2, <3>1 DEF Ran
  <2>3. CASE Ran(c, r)
    <3>1. PICK k \in 1..Len(t) : t[k] = r
      BY <1>1, <2>3 DEF Ran
    <3>2. k \in 1..Len(s) /\ s[k] = r
      BY <2>1, <3>1
    <3> QED BY <1>1, <3>2 DEF Ran
  <2> QED BY <2>2, <2>3
<1> QED BY <1>3, <1>4

\* A request that a read held whole and alone runs, and has its answer made;
\* of the others that it touched, nothing is said.
LEMMA ReadKept ==
    ASSUME TypeOK, NEW c \in Clients, Sound(c), Readable(c),
           NEW n, n = ReadSize(c), NEW b, b = Filled(c, n),
           NEW x \in Commands(b), ReadRequest(c, n, b, x),
           NEW r \in Requests(c), AllRead(c, r)', r \notin disturbed'[c]
    PROVE  \/ Ran(c, r) /\ (r \in Prompt \ Silent => Answered(c, r))
           \/ /\ Whole(c, b, n) /\ x = r /\ r \notin {0, Stray}
              /\ r \in Prompt \ Silent => Answers(c, b, n, r) = {<<<<r, r>>>>}
<1>1. /\ n \in 1..Capacity /\ n \in Nat /\ got[c] \in Nat /\ got'[c] = got[c] + n
      /\ got[c] + n <= Length(c) /\ \A k \in 1..n : b[k] = Stream[c][got[c] + k]
  <2>1. /\ n \in 1..Capacity /\ got[c] \in Nat
        /\ got[c] + n <= Length(c) /\ \A k \in 1..n : b[k] = Stream[c][got[c] + k]
    BY ReadFacts DEF Sound
  <2>2. n \in Nat
    BY <2>1, Buffer
  <2>3. got'[c] = got[c] + n
    BY DEF ReadRequest, TypeOK
  <2> QED BY <2>1, <2>2, <2>3
<1>2. r \notin disturbed[c] /\ (r \notin Touched(c, n) \/ Whole(c, b, n))
  BY DEF ReadRequest, TypeOK
<1>3. PICK k \in 1..got'[c] : Stream[c][k] = <<r, Size(c, r)>>
  <2>1. \E k \in 1..got'[c] : Stream[c][k] = <<r, Size(c, r)>>
    BY DEF AllRead, Size, Length
  <2> QED BY <2>1
<1>4. CASE k <= got[c]
  <2>1. AllRead(c, r)
    BY <1>1, <1>3, <1>4 DEF AllRead
  <2>2. Settled(c, r)
    BY <2>1, <1>2 DEF Sound, Kept
  <2>3. ~Pending(c, r) /\ pc[c] # "deleted"
    BY Buffer DEF Readable, Idle, Pending, None
  <2> QED BY <2>2, <2>3 DEF Settled
<1>5. CASE k > got[c]
  <2>1. k \in got[c] + 1 .. got[c] + n /\ k - got[c] \in 1..n
    BY <1>1, <1>5
  <2>2. r \in Touched(c, n)
    <3>1. Stream[c][k][1] = r
      BY <1>3
    <3> QED BY <3>1, <2>1 DEF Touched
  <2>3. PICK q \in Requests(c) : n = Size(c, q) /\ \A i \in 1..n : b[i] = <<q, i>>
    BY <1>2, <2>2 DEF Whole
  <2>4. b[k - got[c]] = <<r, Size(c, r)>>
    <3>1. b[k - got[c]] = Stream[c][got[c] + (k - got[c])]
      BY <2>1, <1>1
    <3>2. got[c] + (k - got[c]) = k
      BY <2>1, <1>1
    <3> QED BY <3>1, <3>2, <1>3
  <2>5. q = r
    BY <2>1, <2>3, <2>4
  <2>6. Commands(b) = {r} /\ MessageIds(b) = {r} /\ r # 0 /\ r # Stray
    <3>1. Ends(c) /\ AllOf(c, b, n, r)
      BY <2>3, <2>5 DEF Sound, AllOf
    <3> QED BY <3>1, WholeFacts
  <2>7. r \in Prompt \ Silent => Answers(c, b, n, r) = {<<<<r, r>>>>}
    <3>1. {<<<<r, i>>>> : i \in MessageIds(b)} = {<<<<r, r>>>>}
      BY <2>6
    <3> QED BY <1>2, <2>2, <2>6, <3>1 DEF Answers
  <2> QED BY <1>2, <2>2, <2>6, <2>7
<1> QED BY <1>1, <1>3, <1>4, <1>5

\* A stray command runs only in a read that was not one request.
LEMMA ReadStrays ==
    ASSUME TypeOK, NEW c \in Clients, Sound(c), Readable(c),
           NEW n, n = ReadSize(c), NEW b, b = Filled(c, n),
           NEW x \in Commands(b), ReadRequest(c, n, b, x)
    PROVE  /\ c \in strayed' => disturbed'[c] # {}
           /\ c \notin strayed' => c \notin strayed /\ x # Stray
<1>1. /\ c \in strayed' <=> (c \in strayed \/ x = Stray)
      /\ disturbed'[c] = IF Whole(c, b, n) THEN disturbed[c] ELSE disturbed[c] \cup Touched(c, n)
  BY DEF ReadRequest, TypeOK
<1>2. c \in strayed => disturbed[c] # {}
  BY DEF Sound, Strays
<1>3. Touched(c, n) # {}
  <2>1. n \in 1..Capacity /\ got[c] \in Nat
    BY ReadFacts DEF Sound
  <2>2. got[c] + 1 \in got[c] + 1 .. got[c] + n
    BY <2>1, Buffer
  <2> QED BY <2>2 DEF Touched
<1>4. x = Stray => ~Whole(c, b, n)
  <2> SUFFICES ASSUME Whole(c, b, n) PROVE x # Stray
    OBVIOUS
  <2>1. PICK q \in Requests(c) : AllOf(c, b, n, q)
    BY DEF Whole, AllOf
  <2>2. Ends(c)
    BY DEF Sound
  <2>3. Commands(b) = {q} /\ q # Stray
    BY <2>1, <2>2, WholeFacts
  <2> QED BY <2>3
<1> QED BY <1>1, <1>2, <1>3, <1>4

\* handle_read, up to its writes: what it writes is in order and no request that
\* it held is forgotten.
LEMMA HandleReadSound ==
    ASSUME TypeOK, NEW c \in Clients, Sound(c), HandleRead(c)
    PROVE  Sound(c)'
<1>1. PICK n, b : n = ReadSize(c) /\ b = Filled(c, n)
  OBVIOUS
<1>2. PICK x \in Commands(b) : \E answers \in Answers(c, b, n, x) :
         /\ ReadRequest(c, n, b, x)
         /\ mWriteBuffers' = [mWriteBuffers EXCEPT ![c] = Cleared(c) \o answers]
         /\ Readable(c) /\ written' = [written EXCEPT ![c] = 0]
         /\ pc' = [pc EXCEPT ![c] = "writing"]
         /\ io' = c /\ running' = running
  BY <1>1, HandleReadRuns
<1>3. PICK a \in Answers(c, b, n, x) :
         /\ ReadRequest(c, n, b, x)
         /\ mWriteBuffers' = [mWriteBuffers EXCEPT ![c] = Cleared(c) \o a]
  BY <1>2
<1>4. Readable(c) /\ written'[c] = 0 /\ pc'[c] = "writing" /\ io' = c
      /\ answered' = answered
  BY <1>2 DEF TypeOK, ReadRequest
<1>5. n \in 1..Capacity /\ b \in [1..Capacity -> Nat \X Nat]
  BY <1>1, <1>4, ReadFacts DEF Sound
<1>6. /\ x \in Nat /\ a \in Seq(Nat \X Nat)
      /\ a = <<>> \/ (x # 0 /\ \E i \in MessageIds(b) : a = <<<<x, i>>>>)
  BY <1>5, AnswerTypes
<1>7. mWriteBuffers'[c] = a
  <2>1. <<>> \o a = a
    BY <1>6
  <2> QED BY <2>1, <1>3 DEF Cleared, TypeOK
<1>8. Ends(c)'
  BY <1>1, <1>3, <1>4, ReadEnds DEF Sound
<1>9. Len(a) <= 1 /\ \A k \in 1..Len(a) : k = 1 /\ x # 0 /\ a[k][1] = x /\ a[k][2] \in MessageIds(b)
  <2>1. CASE a = <<>>
    BY <2>1
  <2>2. ASSUME x # 0, NEW i \in MessageIds(b), a = <<<<x, i>>>>
        PROVE  Len(a) = 1 /\ a[1][1] = x /\ a[1][2] \in MessageIds(b)
    BY <2>2
  <2> QED BY <2>1, <2>2, <1>6
<1>10. ASSUME c \notin short' PROVE InOrder(c)'
  <2>1. c \notin short /\ n >= Header /\ InOrder(c)
    BY <1>1, <1>3, <1>5, <1>10, Buffer DEF ReadRequest, Sound, Header
  <2>2. PICK s : s = ran'[c]
    OBVIOUS
  <2>3. /\ \A k \in 1..Len(s) : Begun(c, s[k])'
        /\ \A j, k \in 1..Len(s) : j < k => s[j] < s[k]
    BY <1>1, <1>3, <1>4, <2>1, <2>2, ReadRuns DEF Sound
  <2>4. PICK t : t = answered[c]
    OBVIOUS
  <2>5. /\ \A k \in 1..Len(t) : Fits(c, t[k])
        /\ \A j, k \in 1..Len(t) : j < k => Before(t[j], t[k])
    BY <2>1, <2>4 DEF InOrder
  <2>6. /\ \A q : Begun(c, q) => Begun(c, q)'
        /\ x \notin {0, Stray} => /\ MessageIds(b) = {x} /\ Begun(c, x)'
                                  /\ \A q : Begun(c, q) => q < x
    BY <1>1, <1>3, <1>4, <2>1, ReadBegins DEF Sound
  <2>7. \A k \in 1..Len(t) : Fits(c, t[k])'
    BY <2>5, <2>6, <2>4, <1>4 DEF Fits
  <2>8. ASSUME NEW k \in 1..Len(a)
        PROVE  Fits(c, a[k])' /\ \A j \in 1..Len(t) : Before(t[j], a[k])
    <3>1. a[k][1] = x /\ a[k][2] \in MessageIds(b) /\ x # 0
      BY <1>9, <2>8
    <3>2. CASE x = Stray
      BY <3>1, <3>2 DEF Fits, Before
    <3>3. CASE x # Stray
      <4>1. a[k][2] = x /\ Begun(c, x)' /\ \A q : Begun(c, q) => q < x
        BY <2>6, <3>1, <3>3
      <4>2. Fits(c, a[k])'
        BY <3>1, <4>1 DEF Fits
      <4>3. ASSUME NEW j \in 1..Len(t) PROVE Before(t[j], a[k])
        <5>1. t[j][1] = Stray \/ Begun(c, t[j][1])
          BY <2>5 DEF Fits
        <5> QED BY <3>1, <4>1, <5>1 DEF Before
      <4> QED BY <4>2, <4>3
    <3> QED BY <3>2, <3>3
  <2>9. answered'[c] = t /\ ran'[c] = s /\ mWriteBuffers'[c] = a /\ written'[c] = 0
    BY <1>4, <1>7, <2>2, <2>4
  <2>10. Len(a) <= 1
    BY <1>9
  <2>11. \A k \in 1..Len(a) : Fits(c, a[k])' /\ \A j \in 1..Len(t) : Before(t[j], a[k])
    BY <2>8
  <2> QED BY <2>3, <2>5, <2>7, <2>9, <2>10, <2>11 DEF InOrder, Before
<1>11. Strays(c)'
  <2>1. /\ c \in strayed' => disturbed'[c] # {}
        /\ c \notin strayed' => x # Stray
    BY <1>1, <1>3, <1>4, ReadStrays
  <2> QED BY <2>1, <1>7, <1>9 DEF Strays
<1>12. Kept(c)'
  <2> SUFFICES ASSUME NEW r \in Requests(c), AllRead(c, r)', r \notin disturbed'[c]
               PROVE  Settled(c, r)'
    BY DEF Kept, Requests, Length
  <2>1. CASE Ran(c, r) /\ (r \in Prompt \ Silent => Answered(c, r))
    <3>1. Answered(c, r) => Answered(c, r)'
      BY <1>4 DEF Answered
    <3>2. Ran(c, r)'
      BY <1>3, <1>6, <2>1, RanStays
    <3> QED BY <2>1, <3>1, <3>2 DEF Settled
  <2>2. CASE x = r /\ r \notin {0, Stray} /\ (r \in Prompt \ Silent => Answers(c, b, n, r) = {<<<<r, r>>>>})
    <3>1. Ran(c, r)'
      BY <1>3, <1>6, <2>2, RanStays
    <3>2. ASSUME r \in Prompt \ Silent PROVE Pending(c, r)'
      <4>1. a = <<<<r, r>>>>
        BY <2>2, <3>2
      <4>2. 1 \in 0 + 1 .. Len(a) /\ a[1] = <<r, r>>
        BY <4>1
      <4> QED BY <4>2, <1>4, <1>7 DEF Pending
    <3> QED BY <3>1, <3>2 DEF Settled
  <2> QED BY <2>1, <2>2, <1>1, <1>3, <1>4, ReadKept
<1> QED BY <1>4, <1>8, <1>10, <1>11, <1>12 DEF Sound

\* A handler that throws leaves its request among the disturbed ones.
LEMMA HandlerThrowsSound ==
    ASSUME TypeOK, NEW c \in Clients, Sound(c), HandlerThrows(c)
    PROVE  Sound(c)'
<1>1. PICK n, b : n = ReadSize(c) /\ b = Filled(c, n) /\ ~Whole(c, b, n)
         /\ \E r \in Commands(b) : ReadRequest(c, n, b, r)
  BY DEF HandlerThrows
<1>2. PICK x \in Commands(b) : ReadRequest(c, n, b, x)
  BY <1>1
<1>3. Readable(c) /\ written' = written /\ pc' = pc /\ io' = io
      /\ mWriteBuffers' = mWriteBuffers /\ answered' = answered
  BY <1>2 DEF HandlerThrows, ReadRequest
<1>4. Ends(c)'
  BY <1>1, <1>2, <1>3, ReadEnds DEF Sound
<1>5. ASSUME c \notin short' PROVE InOrder(c)'
  <2>1. c \notin short /\ n >= Header /\ InOrder(c)
    <3>1. n \in 1..Capacity
      BY <1>1, <1>3, ReadFacts DEF Sound
    <3> QED BY <3>1, <1>2, <1>5, Buffer DEF ReadRequest, Sound, Header
  <2>2. PICK s : s = ran'[c]
    OBVIOUS
  <2>3. /\ \A k \in 1..Len(s) : Begun(c, s[k])'
        /\ \A j, k \in 1..Len(s) : j < k => s[j] < s[k]
    BY <1>1, <1>2, <1>3, <2>1, <2>2, ReadRuns DEF Sound
  <2>4. \A q : Begun(c, q) => Begun(c, q)'
    BY <1>1, <1>2, <1>3, ReadBegins DEF Sound
  <2>5. \A p : Fits(c, p) => (p[1] = Stray \/ (p[1] = p[2] /\ Begun(c, p[1])'))
    BY <2>4 DEF Fits
  <2> QED BY <1>3, <2>1, <2>2, <2>3, <2>5 DEF InOrder, Fits, Before, Begun
<1>6. Strays(c)'
  <2>1. /\ c \in strayed' => disturbed'[c] # {}
        /\ c \notin strayed' => c \notin strayed
    BY <1>1, <1>2, <1>3, ReadStrays
  <2> QED BY <2>1, <1>3 DEF Sound, Strays
<1>7. Kept(c)'
  <2> SUFFICES ASSUME NEW r \in Requests(c), AllRead(c, r)', r \notin disturbed'[c]
               PROVE  Settled(c, r)'
    BY DEF Kept, Requests, Length
  <2>1. Ran(c, r) /\ (r \in Prompt \ Silent => Answered(c, r))
    BY <1>1, <1>2, <1>3, ReadKept
  <2>2. Answered(c, r) => Answered(c, r)'
    BY <1>3 DEF Answered
  <2>3. x \in Nat
    BY <1>1, <1>2, <1>3, FirstPiece DEF Sound
  <2>4. Ran(c, r)'
    BY <1>2, <2>1, <2>3, RanStays
  <2> QED BY <2>1, <2>2, <2>4 DEF Settled
<1> QED BY <1>3, <1>4, <1>5, <1>6, <1>7 DEF Sound

\* The answer that is written is the next one.
LEMMA WriteSound ==
    ASSUME TypeOK, NEW c \in Clients, Sound(c), Write(c)
    PROVE  Sound(c)'
<1>1. PICK t : t = answered[c]
  OBVIOUS
<1>2. PICK a : a = mWriteBuffers[c]
  OBVIOUS
<1>3. PICK w : w = written[c]
  OBVIOUS
<1>4. /\ t \in Seq(Nat \X Nat) /\ a \in Seq(Nat \X Nat) /\ w \in Nat /\ w < Len(a)
      /\ Len(t) \in Nat /\ Len(a) \in Nat
  BY <1>1, <1>2, <1>3 DEF TypeOK, Write
<1>5. /\ answered'[c] = Append(t, a[w + 1]) /\ written'[c] = w + 1
      /\ mWriteBuffers' = mWriteBuffers /\ got' = got /\ issued' = issued
      /\ wire' = wire /\ pc' = pc /\ io' = io /\ ran' = ran
      /\ short' = short /\ strayed' = strayed /\ disturbed' = disturbed
  BY <1>1, <1>2, <1>3 DEF Write, TypeOK, netVars
<1>6. PICK s : s = Append(t, a[w + 1])
  OBVIOUS
<1>7. w + 1 \in 1..Len(a) /\ a[w + 1] \in Nat \X Nat
  BY <1>4
<1>8. /\ Len(s) = Len(t) + 1 /\ s[Len(t) + 1] = a[w + 1]
      /\ \A k \in 1..Len(t) : s[k] = t[k]
  BY <1>4, <1>6, <1>7
<1>9. Ends(c)'
  BY <1>5 DEF Sound, Ends, Length
<1>10. ASSUME c \notin short' PROVE InOrder(c)'
  <2>1. InOrder(c)
    BY <1>5, <1>10 DEF Sound
  <2>2. /\ \A k \in 1..Len(t) : Fits(c, t[k])
        /\ \A j, k \in 1..Len(t) : j < k => Before(t[j], t[k])
        /\ Len(a) <= 1
        /\ \A k \in 1..Len(a) :
              /\ Fits(c, a[k])
              /\ w < k => \A j \in 1..Len(t) : Before(t[j], a[k])
    BY <2>1, <1>1, <1>2, <1>3 DEF InOrder
  <2>3. w < w + 1 /\ w = 0 /\ Len(a) = 1
    <3>1. Len(a) <= 1
      BY <2>2
    <3>2. PICK m \in Nat : m = Len(a)
      BY <1>4
    <3>3. w \in Nat /\ w < m /\ m <= 1
      BY <3>1, <3>2, <1>4
    <3>4. w < w + 1 /\ w = 0 /\ m = 1
      BY <3>3
    <3> QED BY <3>2, <3>4
  <2>4. Fits(c, a[w + 1]) /\ \A j \in 1..Len(t) : Before(t[j], a[w + 1])
    BY <2>2, <2>3, <1>7
  <2>5. \A k \in 1..Len(s) : k \in 1..Len(t) \/ k = Len(t) + 1
    BY <1>4, <1>8
  <2>6. \A k \in 1..Len(s) : Fits(c, s[k])
    BY <2>2, <2>4, <2>5, <1>8
  <2>7. ASSUME NEW j \in 1..Len(s), NEW k \in 1..Len(s), j < k
        PROVE  Before(s[j], s[k])
    <3>1. j \in 1..Len(t)
      BY <2>5, <2>7, <1>4, <1>8
    <3>2. CASE k \in 1..Len(t)
      BY <3>1, <3>2, <2>2, <2>7, <1>8
    <3>3. CASE k = Len(t) + 1
      BY <3>1, <3>3, <2>4, <1>8
    <3> QED BY <3>2, <3>3, <2>5
  <2>8. \A k \in 1..Len(a) : ~(w + 1 < k)
    BY <2>3
  <2>9. \A q : Fits(c, q)' <=> Fits(c, q)
    BY <1>5 DEF Fits, Begun
  <2>10. \A q : Begun(c, q)' <=> Begun(c, q)
    BY <1>5 DEF Begun
  <2>11. answered'[c] = s /\ written'[c] = w + 1 /\ mWriteBuffers'[c] = a /\ ran'[c] = ran[c]
    BY <1>2, <1>5, <1>6
  <2>12. /\ \A k \in 1..Len(ran[c]) : Begun(c, ran[c][k])
         /\ \A j, k \in 1..Len(ran[c]) : j < k => ran[c][j] < ran[c][k]
    BY <2>1 DEF InOrder
  <2> QED BY <2>2, <2>6, <2>7, <2>8, <2>9, <2>10, <2>11, <2>12 DEF InOrder, Before
<1>11. Kept(c)'
  <2> SUFFICES ASSUME NEW r \in Requests(c), AllRead(c, r)', r \notin disturbed'[c]
               PROVE  Settled(c, r)'
    BY DEF Kept, Requests, Length
  <2>1. AllRead(c, r) /\ r \notin disturbed[c] /\ (Ran(c, r)' <=> Ran(c, r))
    BY <1>5 DEF AllRead, Size, Length, Ran
  <2>2. ASSUME Answered(c, r) PROVE Answered(c, r)'
    <3>1. PICK k \in 1..Len(t) : t[k] = <<r, r>>
      BY <2>2, <1>1 DEF Answered
    <3>2. s[k] = <<r, r>>
      BY <3>1, <1>8
    <3>3. k \in 1..Len(t) + 1
      BY <3>1, <1>4
    <3>4. k \in 1..Len(s)
      BY <3>3, <1>8
    <3> QED BY <3>2, <3>4, <1>5, <1>6 DEF Answered
  <2>3. ASSUME Pending(c, r) PROVE Answered(c, r)' \/ Pending(c, r)'
    <3>1. io = c
      BY <2>3 DEF Pending
    <3>2. PICK k \in w + 1 .. Len(a) : a[k] = <<r, r>>
      BY <2>3, <1>2, <1>3 DEF Pending
    <3>3. CASE k = w + 1
      <4>1. Len(t) + 1 \in 1..Len(s) /\ s[Len(t) + 1] = <<r, r>>
        BY <3>2, <3>3, <1>4, <1>8
      <4> QED BY <4>1, <1>5, <1>6 DEF Answered
    <3>4. CASE k # w + 1
      <4>1. k \in (w + 1) + 1 .. Len(a)
        BY <3>2, <3>4, <1>4
      <4> QED BY <3>1, <3>2, <4>1, <1>2, <1>5 DEF Pending
    <3> QED BY <3>3, <3>4
  <2>4. pc[c] = "deleted" => pc'[c] = "deleted"
    BY <1>5
  <2>5. Settled(c, r)
    BY <2>1 DEF Sound, Kept
  <2>6. (Answered(c, r) \/ Pending(c, r) \/ pc[c] = "deleted")
           => (Answered(c, r)' \/ Pending(c, r)' \/ pc'[c] = "deleted")
    BY <2>2, <2>3, <2>4
  <2> QED BY <2>1, <2>5, <2>6 DEF Settled
<1>12. Strays(c)'
  BY <1>5 DEF Sound, Strays
<1> QED BY <1>5, <1>9, <1>10, <1>11, <1>12 DEF Sound

\* The end of a handle_read, by an error or after its last write.
LEMMA EndSound ==
    ASSUME TypeOK, NEW c \in Clients, Sound(c), WriteFails(c) \/ FinishRead(c)
    PROVE  Sound(c)'
<1>1. SameData(c) /\ SameWire(c) /\ io = c /\ io' # c
  BY Buffer
     DEF WriteFails, FinishRead, SameData, SameWire, netVars, bufferVars, historyVars, None
<1>2. Ends(c)'
  BY <1>1 DEF Sound, Ends, SameData, SameWire, Length
<1>3. c \notin short' => InOrder(c)'
  BY <1>1, InOrderFrame DEF Sound, SameData
<1>4. Kept(c)'
  <2> SUFFICES ASSUME NEW r \in Requests(c), AllRead(c, r)', r \notin disturbed'[c]
               PROVE  Settled(c, r)'
    BY DEF Kept, Requests, Length
  <2>1. AllRead(c, r) /\ r \notin disturbed[c]
    BY <1>1 DEF AllRead, SameData, Size, Length
  <2>2. Settled(c, r)
    BY <2>1 DEF Sound, Kept
  <2>3. (Answered(c, r) => Answered(c, r)') /\ (Ran(c, r) => Ran(c, r)')
    BY <1>1 DEF Answered, Ran, SameData
  <2>4. CASE WriteFails(c)
    <3>1. pc'[c] = "deleted"
      BY <2>4 DEF WriteFails, TypeOK
    <3> QED BY <2>2, <2>3, <3>1 DEF Settled
  <2>5. CASE FinishRead(c)
    <3>1. pc[c] = "writing"
      BY <1>1 DEF Sound
    <3>2. ~Pending(c, r)
      <4>1. written[c] = Len(mWriteBuffers[c]) /\ written[c] \in Nat
        BY <2>5 DEF FinishRead, TypeOK
      <4>2. \A k \in written[c] + 1 .. Len(mWriteBuffers[c]) : FALSE
        BY <4>1
      <4> QED BY <4>2 DEF Pending
    <3> QED BY <2>2, <2>3, <3>1, <3>2 DEF Settled
  <2> QED BY <2>4, <2>5
<1>5. Strays(c)'
  BY <1>1 DEF Sound, Strays, SameData
<1> QED BY <1>1, <1>2, <1>3, <1>4, <1>5 DEF Sound

----------------------------------------------------------------------------
(* The invariant, and what follows from it.                                *)

LEMMA InitInv == Init => IInv
<1> SUFFICES ASSUME Init PROVE IInv
  OBVIOUS
<1>1. TypeOK
  <2>1. [k \in 1..Capacity |-> Nothing] \in [1..Capacity -> Nat \X Nat]
    BY DEF Nothing
  <2> QED BY <2>1 DEF Init, TypeOK
<1>2. ASSUME NEW c \in Clients PROVE Sound(c)
  <2>1. /\ got[c] = 0 /\ issued[c] = 0 /\ wire[c] = <<>> /\ ran[c] = <<>>
        /\ answered[c] = <<>> /\ mWriteBuffers[c] = <<>> /\ io = None
        /\ c \notin strayed
    BY DEF Init
  <2>2. Length(c) \in Nat
    BY Pieces
  <2>3. Ends(c)
    BY <2>1, <2>2 DEF Ends
  <2>4. InOrder(c)
    BY <2>1 DEF InOrder
  <2>5. Kept(c)
    BY <2>1 DEF Kept, AllRead
  <2>6. Strays(c)
    BY <2>1 DEF Strays
  <2> QED BY <2>1, <2>3, <2>4, <2>5, <2>6, Buffer DEF Sound, None
<1> QED BY <1>1, <1>2 DEF IInv

LEMMA NextInv == IInv /\ [Next]_vars => IInv'
<1> SUFFICES ASSUME IInv, [Next]_vars PROVE IInv'
  OBVIOUS
<1>1. TypeOK /\ \A d \in Clients : Sound(d)
  BY DEF IInv
<1>2. ASSUME NEW c \in Clients, Step(c) PROVE IInv'
  <2>1. TypeOK'
    BY <1>1, <1>2, TypeStep DEF Sound
  <2>2. Sound(c)'
    <3>1. CASE \E n \in 1..Length(c) : Send(c, n)
      BY <1>1, <3>1, SendSound
    <3>2. CASE Stall(c) \/ Resume(c) \/ HangUp(c) \/ Accept(c) \/ Handshake(c) \/ Drop(c)
      BY <1>1, <3>2, QuietSound
    <3>3. CASE HandleRead(c)
      BY <1>1, <3>3, HandleReadSound
    <3>4. CASE HandlerThrows(c)
      BY <1>1, <3>4, HandlerThrowsSound
    <3>5. CASE Write(c)
      BY <1>1, <3>5, WriteSound
    <3>6. CASE WriteFails(c) \/ FinishRead(c)
      BY <1>1, <3>6, EndSound
    <3> QED BY <1>2, <3>1, <3>2, <3>3, <3>4, <3>5, <3>6 DEF Step, PeerStep, TakeUp, GoOn
  <2>3. ASSUME NEW d \in Clients, d # c PROVE Sound(d)'
    <3>1. SameData(d) /\ SameWire(d) /\ SamePlace(d)
      BY <1>1, <1>2, <2>3, Others
    <3> QED BY <3>1, <1>1, SoundFrame
  <2> QED BY <2>1, <2>2, <2>3 DEF IInv
<1>3. CASE AcceptFails \/ UNCHANGED vars
  <2>1. TypeOK'
    BY <1>1, <1>3 DEF AcceptFails, TypeOK, vars, netVars, bufferVars, historyVars
  <2>2. ASSUME NEW d \in Clients PROVE Sound(d)'
    <3>1. SameData(d) /\ SameWire(d) /\ SamePlace(d)
      BY <1>3 DEF AcceptFails, vars, netVars, bufferVars, historyVars,
                  SameData, SameWire, SamePlace
    <3> QED BY <3>1, <1>1, SoundFrame
  <2> QED BY <2>1, <2>2 DEF IInv
<1> QED BY <1>2, <1>3 DEF Next, Step

LEMMA Invariant == Spec => []IInv
<1> QED BY InitInv, NextInv, PTL DEF Spec

\* The variables have their types: an answer is always a pair of numbers, and a
\* read never leaves more than the buffer holds.
THEOREM TypeCorrect == Spec => []TypeOK
<1>1. IInv => TypeOK
  BY DEF IInv
<1> QED BY <1>1, Invariant, PTL

\* parse_packets and its answers keep the order of the requests, for any cut of
\* these into records and reads, while no read is shorter than a header; and a
\* part of a body runs as a command only where a read was not one request.
THEOREM RequestsAreOrdered == Spec => []SoundUnlessShort
<1>1. IInv => SoundUnlessShort
  <2> SUFFICES ASSUME IInv, NEW c \in Clients \ short
               PROVE  /\ \A j, k \in 1..Len(ran[c]) : j < k => ran[c][j] < ran[c][k]
                      /\ \A k \in 1..Len(answered[c]) :
                            answered[c][k][1] \in {answered[c][k][2], Stray}
                      /\ \A j, k \in 1..Len(answered[c]) :
                            j < k /\ Stray \notin {answered[c][j][1], answered[c][k][1]}
                               => answered[c][j][1] < answered[c][k][1]
                      /\ c \in strayed => disturbed[c] # {}
    BY DEF SoundUnlessShort
  <2>1. InOrder(c) /\ Strays(c)
    BY DEF IInv, Sound
  <2>2. \A k \in 1..Len(answered[c]) : answered[c][k][1] \in {answered[c][k][2], Stray}
    BY <2>1 DEF InOrder, Fits
  <2>3. \A j, k \in 1..Len(answered[c]) : j < k => Before(answered[c][j], answered[c][k])
    BY <2>1 DEF InOrder
  <2> QED BY <2>1, <2>2, <2>3 DEF InOrder, Strays, Before
<1> QED BY <1>1, Invariant, PTL

\* Only a request that handle_read split, or read together with another, can
\* fail to run, or go without an answer that its handler always makes: one read
\* by itself has run, and is answered before the next read.
THEOREM AnsweredIfUndisturbed == Spec => []LostOnlyIfDisturbed
<1>1. IInv => LostOnlyIfDisturbed
  <2> SUFFICES ASSUME IInv, NEW c \in Clients, NEW r \in Requests(c),
                      Handled(c, r), r \notin disturbed[c]
               PROVE  Ran(c, r) /\ (r \in Prompt \ Silent => Answered(c, r))
    BY DEF LostOnlyIfDisturbed
  <2>1. Sound(c)
    BY DEF IInv
  <2>2. AllRead(c, r) /\ pc[c] = "reading"
    BY DEF Handled, AllRead
  <2>3. Settled(c, r)
    BY <2>1, <2>2 DEF Sound, Kept
  <2>4. ~Pending(c, r)
    BY <2>1, <2>2 DEF Sound, Pending
  <2> QED BY <2>2, <2>3, <2>4 DEF Settled
<1> QED BY <1>1, Invariant, PTL

----------------------------------------------------------------------------
(* What the peers see: calls, served one at a time.                        *)

CallState == <<Trusted, [c \in Clients |-> Served(c)],
               [c \in Clients |-> Replied(c)], Due>>

\* The calls of a connection that a step leaves alone are what they were.
LEMMA OneConnection ==
    ASSUME NEW c \in Clients, \A d \in Clients \ {c} : SameData(d),
           NEW s, Served(c)' = s, NEW t, Replied(c)' = t
    PROVE  /\ [d \in Clients |-> Served(d)]' = [[d \in Clients |-> Served(d)] EXCEPT ![c] = s]
           /\ [d \in Clients |-> Replied(d)]' = [[d \in Clients |-> Replied(d)] EXCEPT ![c] = t]
           /\ Trusted' = IF c \in Trusted' THEN Trusted \cup {c} ELSE Trusted \ {c}
<1>1. ASSUME NEW d \in Clients \ {c}
      PROVE  /\ Served(d)' = Served(d) /\ Replied(d)' = Replied(d)
             /\ d \in Trusted' <=> d \in Trusted
  <2>1. /\ ran'[d] = ran[d] /\ answered'[d] = answered[d]
        /\ d \in Trusted' <=> d \in Trusted
    BY DEF SameData, Trusted
  <2>2. Served(d)' = Served(d)
    BY <2>1 DEF Served
  <2>3. Replied(d)' = Replied(d)
    BY <2>1 DEF Replied
  <2> QED BY <2>1, <2>2, <2>3
<1>2. Trusted \subseteq Clients /\ Trusted' \subseteq Clients
  BY DEF Trusted
<1>3. Trusted' = IF c \in Trusted' THEN Trusted \cup {c} ELSE Trusted \ {c}
  BY <1>1, <1>2
<1> QED BY <1>1, <1>3

\* Nothing the peers see changes with what the calls are not made of.
LEMMA CallsFrame ==
    ASSUME UNCHANGED <<io, ran, answered, short, strayed, mWriteBuffers, written>>
    PROVE  UNCHANGED CallState
BY DEF CallState, Served, Replied, Due, Trusted

\* A read that runs no request shows only if it cuts a header, or runs a stray
\* command.
LEMMA ReadUnseen ==
    ASSUME NEW c \in Clients, \A d \in Clients \ {c} : SameData(d),
           Due = {}, Due' = {}, Replied(c)' = IF c \in Trusted' THEN Replied(c) ELSE {},
           c \in Trusted' => Served(c)' = Served(c) /\ c \in Trusted
    PROVE  Calls!CNext \/ UNCHANGED CallState
<1>1. CASE c \in Trusted'
  <2>1. PICK s, t : s = Served(c) /\ t = Replied(c)
    OBVIOUS
  <2>2. Served(c)' = s /\ Replied(c)' = t
    BY <1>1, <2>1
  <2> QED BY <1>1, <2>1, <2>2, OneConnection DEF CallState
<1>2. CASE c \notin Trusted'
  <2>1. Served(c)' = {} /\ Replied(c)' = {}
    BY <1>2 DEF Served
  <2>2. /\ [d \in Clients |-> Served(d)]' = [[d \in Clients |-> Served(d)] EXCEPT ![c] = {}]
        /\ [d \in Clients |-> Replied(d)]' = [[d \in Clients |-> Replied(d)] EXCEPT ![c] = {}]
        /\ Trusted' = Trusted \ {c}
    BY <1>2, <2>1, OneConnection
  <2>3. CASE c \notin Trusted
    <3>1. Served(c) = {} /\ Replied(c) = {}
      BY <2>3 DEF Served, Replied
    <3> QED BY <2>2, <2>3, <3>1 DEF CallState
  <2>4. CASE c \in Trusted
    <3>1. Calls!Distrust(c)
      BY <2>2 DEF Calls!Distrust
    <3> QED BY <2>4, <3>1 DEF Calls!CNext
  <2> QED BY <2>3, <2>4
<1> QED BY <1>1, <1>2

\* A request runs after those before it, and nothing is due when it does.
LEMMA ReadServes ==
    ASSUME IInv, NEW c \in Clients, Readable(c),
           NEW n, n = ReadSize(c), NEW b, b = Filled(c, n),
           NEW x \in Commands(b), ReadRequest(c, n, b, x),
           \A d \in Clients \ {c} : SameData(d),
           NEW a, a = <<>> \/ \E i \in MessageIds(b) : a = <<<<x, i>>>>,
           x = 0 => a = <<>>,
           \/ io' = c /\ mWriteBuffers'[c] = a /\ written'[c] = 0
           \/ io' = io
    PROVE  Calls!CNext \/ UNCHANGED CallState
<1>1. TypeOK /\ Sound(c) /\ io = None /\ Due = {}
  BY Buffer DEF IInv, Readable, Idle, Due, Trusted
<1>2. PICK s : s = ran[c]
  OBVIOUS
<1>3. /\ s \in Seq(Nat) /\ ran'[c] = IF x \in {0, Stray} THEN s ELSE Append(s, x)
      /\ answered' = answered
      /\ c \in short' <=> (c \in short \/ n < Header)
      /\ c \in strayed' <=> (c \in strayed \/ x = Stray)
  BY <1>1, <1>2 DEF ReadRequest, TypeOK
<1>4. /\ c \in Trusted' <=> c \in Trusted /\ ~(n < Header) /\ x # Stray
      /\ c \in Trusted => c \notin short
      /\ None \notin Trusted /\ None \notin Trusted'
  BY <1>3, Buffer DEF Trusted
<1>5. Replied(c)' = IF c \in Trusted' THEN Replied(c) ELSE {}
  <2>1. Replied(c)' = IF c \in Trusted' THEN {answered[c][k][2] : k \in 1..Len(answered[c])} ELSE {}
    BY <1>3 DEF Replied
  <2> QED BY <2>1, <1>4 DEF Replied
<1>6. CASE c \notin Trusted'
  <2>1. Due' = {}
    BY <1>1, <1>4, <1>6 DEF Due
  <2> QED BY <1>1, <1>5, <1>6, <2>1, ReadUnseen
<1>7. CASE c \in Trusted' /\ x = 0
  <2>1. a = <<>> /\ Len(a) = 0
    BY <1>7
  <2>2. Due' = {}
    BY <1>1, <1>4, <2>1 DEF Due
  <2>3. Served(c)' = Served(c) /\ c \in Trusted
    BY <1>2, <1>3, <1>4, <1>7 DEF Served
  <2> QED BY <1>1, <1>5, <2>2, <2>3, ReadUnseen
<1>8. CASE c \in Trusted' /\ x # 0
  <2>1. c \in Trusted /\ n >= Header /\ InOrder(c) /\ Ends(c) /\ x \notin {0, Stray}
    <3>1. n \in Nat
      BY <1>1, ReadFacts, Buffer DEF Sound
    <3> QED BY <1>1, <1>4, <1>8, <3>1, Buffer DEF Sound
  <2>2. /\ Stream[c][got[c] + 1] = <<x, 1>> /\ got[c] + 1 \in 1..Length(c)
        /\ MessageIds(b) = {x}
    BY <1>1, <2>1, HeaderFacts
  <2>3. x \in Requests(c) /\ x \in Nat
    <3>1. Stream[c][got[c] + 1][1] = x
      BY <2>2
    <3> QED BY <3>1, <2>2, Pieces
  <2>4. \A q : Begun(c, q) => q < x
    BY <1>1, <2>1, ReadBegins
  <2>5. \A k \in 1..Len(s) : s[k] < x
    BY <1>2, <2>1, <2>4 DEF InOrder
  <2>6. PICK u : u = Append(s, x)
    OBVIOUS
  <2>7. /\ Len(s) \in Nat /\ Len(u) = Len(s) + 1 /\ u[Len(s) + 1] = x
        /\ \A k \in 1..Len(s) : u[k] = s[k]
    BY <1>3, <2>3, <2>6
  <2>8. {u[k] : k \in 1..Len(u)} = {s[k] : k \in 1..Len(s)} \cup {x}
    <3>1. \A k \in 1..Len(u) : k \in 1..Len(s) \/ k = Len(s) + 1
      BY <2>7
    <3>2. Len(s) + 1 \in 1..Len(u) /\ \A k \in 1..Len(s) : k \in 1..Len(u)
      BY <2>7
    <3> QED BY <2>7, <3>1, <3>2
  <2>9. PICK S : S = Served(c)
    OBVIOUS
  <2>10. S = {s[k] : k \in 1..Len(s)} /\ Served(c)' = S \cup {x}
    BY <1>2, <1>3, <1>8, <2>1, <2>6, <2>8, <2>9 DEF Served
  <2>11. PICK R : R = Replied(c)
    OBVIOUS
  <2>12. Replied(c)' = R
    BY <1>5, <1>8, <2>11
  <2>13. /\ [d \in Clients |-> Served(d)]' = [[d \in Clients |-> Served(d)] EXCEPT ![c] = S \cup {x}]
         /\ [d \in Clients |-> Replied(d)]' = [d \in Clients |-> Replied(d)]
         /\ Trusted' = Trusted
    <3>1. /\ [d \in Clients |-> Served(d)]' = [[d \in Clients |-> Served(d)] EXCEPT ![c] = S \cup {x}]
          /\ [d \in Clients |-> Replied(d)]' = [[d \in Clients |-> Replied(d)] EXCEPT ![c] = R]
          /\ Trusted' = Trusted \cup {c}
      BY <1>8, <2>10, <2>12, OneConnection
    <3> QED BY <2>1, <2>11, <3>1
  <2>14. Due' \in {{}, {<<c, x>>}}
    <3>1. CASE io' = io
      BY <1>1, <1>4, <3>1 DEF Due
    <3>2. CASE io' = c /\ mWriteBuffers'[c] = a /\ written'[c] = 0
      <4>1. Due' = {<<c, a[k][2]>> : k \in 1..Len(a)}
        BY <1>8, <3>2 DEF Due
      <4>2. CASE a = <<>>
        BY <4>1, <4>2
      <4>3. CASE a = <<<<x, x>>>>
        <5>1. Len(a) = 1 /\ a[1][2] = x
          BY <4>3
        <5> QED BY <4>1, <5>1
      <4> QED BY <2>2, <4>2, <4>3
    <3> QED BY <3>1, <3>2
  <2>15. Calls!Serve(c, x)
    <3>1. \A m \in S : m < x
      BY <2>5, <2>10
    <3>2. [d \in Clients |-> Served(d)][c] = S /\ c \in Trusted
      BY <2>1, <2>9
    <3> QED BY <1>1, <2>13, <2>14, <3>1, <3>2 DEF Calls!Serve
  <2> QED BY <2>3, <2>15 DEF Calls!CNext
<1> QED BY <1>6, <1>7, <1>8

\* The answer that is written is the one that is due.
LEMMA WriteReplies ==
    ASSUME IInv, NEW c \in Clients, Write(c)
    PROVE  Calls!CNext \/ UNCHANGED CallState
<1>1. TypeOK /\ Sound(c)
  BY DEF IInv
<1>2. PICK t, a, w : t = answered[c] /\ a = mWriteBuffers[c] /\ w = written[c]
  OBVIOUS
<1>3. /\ io = c /\ io' = c /\ Trusted' = Trusted /\ ran' = ran /\ w < Len(a)
      /\ mWriteBuffers' = mWriteBuffers
      /\ written'[c] = w + 1 /\ answered'[c] = Append(t, a[w + 1])
      /\ \A d \in Clients \ {c} : SameData(d)
  BY <1>1, <1>2 DEF Write, TypeOK, netVars, SameData, Trusted
<1>4. /\ t \in Seq(Nat \X Nat) /\ a \in Seq(Nat \X Nat) /\ w \in Nat /\ Len(a) \in Nat
  BY <1>1, <1>2 DEF TypeOK
<1>5. Served(c)' = Served(c)
  BY <1>3 DEF Served
<1>6. CASE c \notin Trusted
  <2>1. Due = {} /\ Due' = {}
    BY <1>3, <1>6 DEF Due
  <2>2. c \notin Trusted' /\ Replied(c)' = {}
    BY <1>3, <1>6 DEF Replied
  <2> QED BY <1>3, <2>1, <2>2, ReadUnseen
<1>7. CASE c \in Trusted
  <2>1. Len(a) <= 1 /\ \A k \in 1..Len(a) : a[k][1] = a[k][2] /\ Begun(c, a[k][1])
    BY <1>1, <1>2, <1>7 DEF Sound, InOrder, Fits, Strays, Trusted
  <2>2. w = 0 /\ Len(a) = 1
    <3>1. PICK m \in Nat : m = Len(a)
      BY <1>4
    <3>2. w < m /\ m <= 1
      BY <1>3, <2>1, <3>1
    <3>3. w = 0 /\ m = 1
      BY <1>4, <3>2
    <3> QED BY <3>1, <3>3
  <2>3. PICK r : r = a[1][2]
    OBVIOUS
  <2>4. r \in UNION {Requests(d) : d \in Clients}
    <3>1. Begun(c, r)
      BY <2>1, <2>2, <2>3
    <3>2. PICK p \in 1..got[c] : Stream[c][p] = <<r, 1>>
      BY <3>1 DEF Begun
    <3>3. p \in 1..Length(c)
      <4>1. got[c] \in Nat /\ issued[c] \in Nat /\ got[c] <= issued[c] /\ issued[c] <= Length(c)
        BY <1>1 DEF TypeOK, Sound, Ends
      <4> QED BY <3>2, <4>1, Pieces
    <3>4. Stream[c][p][1] = r
      BY <3>2
    <3> QED BY <3>3, <3>4, Pieces
  <2>5. Due = {<<c, r>>} /\ Due' = {}
    <3>1. Due = {<<c, a[k][2]>> : k \in 0 + 1 .. 1}
      BY <1>2, <1>3, <1>7, <2>2 DEF Due
    <3>2. Due' = {<<c, a[k][2]>> : k \in 1 + 1 .. 1}
      BY <1>2, <1>3, <1>7, <2>2 DEF Due
    <3> QED BY <2>3, <3>1, <3>2
  <2>6. PICK u : u = Append(t, a[1])
    OBVIOUS
  <2>7. /\ Len(t) \in Nat /\ Len(u) = Len(t) + 1 /\ u[Len(t) + 1] = a[1]
        /\ \A k \in 1..Len(t) : u[k] = t[k]
    <3>1. a[1] \in Nat \X Nat
      BY <1>4, <2>2
    <3> QED BY <1>4, <2>6, <3>1
  <2>8. {u[k][2] : k \in 1..Len(u)} = {t[k][2] : k \in 1..Len(t)} \cup {r}
    <3>1. \A k \in 1..Len(u) : k \in 1..Len(t) \/ k = Len(t) + 1
      BY <2>7
    <3>2. Len(t) + 1 \in 1..Len(u) /\ \A k \in 1..Len(t) : k \in 1..Len(u)
      BY <2>7
    <3> QED BY <2>3, <2>7, <3>1, <3>2
  <2>9. PICK S, R : S = Served(c) /\ R = Replied(c)
    OBVIOUS
  <2>10. Served(c)' = S /\ Replied(c)' = R \cup {r}
    <3>1. R = {t[k][2] : k \in 1..Len(t)}
      BY <1>2, <1>7, <2>9 DEF Replied
    <3>2. Replied(c)' = {u[k][2] : k \in 1..Len(u)}
      BY <1>3, <1>7, <2>2, <2>6 DEF Replied
    <3> QED BY <1>5, <2>8, <2>9, <3>1, <3>2
  <2>11. /\ [d \in Clients |-> Served(d)]' = [d \in Clients |-> Served(d)]
         /\ [d \in Clients |-> Replied(d)]' = [[d \in Clients |-> Replied(d)] EXCEPT ![c] = R \cup {r}]
         /\ Trusted' = Trusted
    BY <1>3, <1>7, <2>9, <2>10, OneConnection
  <2>12. Calls!Reply(c, r)
    BY <2>5, <2>9, <2>11 DEF Calls!Reply
  <2> QED BY <2>4, <2>12 DEF Calls!CNext
<1> QED BY <1>6, <1>7

\* handle_read and its writes, on whatever connections, are calls that one
\* server serves in turn: each in order and once, answered before the next one
\* under its own number, or not answered; as long as no read of a connection
\* ended inside a header, or ran a part of a body as a command.
THEOREM CallsAreSerial == Spec => ServesSerially
<1>1. Init => Calls!CInit
  <2> SUFFICES ASSUME Init PROVE Calls!CInit
    OBVIOUS
  <2>1. \A c \in Clients : Served(c) = {} /\ Replied(c) = {}
    BY DEF Init, Served, Replied
  <2>2. Due = {} /\ Trusted = Clients
    BY Buffer DEF Init, Due, Trusted
  <2> QED BY <2>1, <2>2 DEF Calls!CInit
<1>2. IInv /\ [Next]_vars => [Calls!CNext]_(Calls!cvars)
  <2> SUFFICES ASSUME IInv, [Next]_vars PROVE Calls!CNext \/ UNCHANGED CallState
    BY DEF Calls!cvars, CallState
  <2>1. TypeOK
    BY DEF IInv
  <2>2. ASSUME NEW c \in Clients, Step(c) PROVE Calls!CNext \/ UNCHANGED CallState
    <3>1. \A d \in Clients \ {c} : SameData(d)
      BY <2>1, <2>2, Others
    <3>2. CASE (\E n \in 1..Length(c) : Send(c, n)) \/ Stall(c) \/ Resume(c) \/ HangUp(c)
      BY <3>2, CallsFrame DEF Send, Stall, Resume, HangUp, bufferVars, historyVars
    <3>3. CASE Accept(c) \/ Handshake(c) \/ Drop(c)
      BY <3>3, CallsFrame DEF Accept, Handshake, Drop, bufferVars, historyVars
    <3>4. CASE HandleRead(c)
      <4>1. PICK n, b : n = ReadSize(c) /\ b = Filled(c, n)
        OBVIOUS
      <4>2. PICK x \in Commands(b) : \E answers \in Answers(c, b, n, x) :
               /\ ReadRequest(c, n, b, x)
               /\ mWriteBuffers' = [mWriteBuffers EXCEPT ![c] = Cleared(c) \o answers]
               /\ Readable(c) /\ written' = [written EXCEPT ![c] = 0]
               /\ pc' = [pc EXCEPT ![c] = "writing"]
               /\ io' = c /\ running' = running
        BY <3>4, <4>1, HandleReadRuns
      <4>3. PICK a \in Answers(c, b, n, x) :
               /\ ReadRequest(c, n, b, x)
               /\ mWriteBuffers' = [mWriteBuffers EXCEPT ![c] = Cleared(c) \o a]
        BY <4>2
      <4>4. Readable(c) /\ io' = c /\ written'[c] = 0
        BY <2>1, <4>2 DEF TypeOK
      <4>5. /\ a \in Seq(Nat \X Nat)
            /\ a = <<>> \/ (x # 0 /\ \E i \in MessageIds(b) : a = <<<<x, i>>>>)
        <5>1. n \in 1..Capacity /\ b \in [1..Capacity -> Nat \X Nat]
          BY <2>1, <4>1, <4>4, ReadFacts DEF IInv, Sound
        <5> QED BY <5>1, AnswerTypes
      <4>6. mWriteBuffers'[c] = a
        <5>1. <<>> \o a = a
          BY <4>5
        <5> QED BY <5>1, <2>1, <4>3 DEF Cleared, TypeOK
      <4>7. (a = <<>> \/ \E i \in MessageIds(b) : a = <<<<x, i>>>>) /\ (x = 0 => a = <<>>)
        BY <4>5
      <4>8. ReadRequest(c, n, b, x)
        BY <4>3
      <4> QED BY <3>1, <4>1, <4>4, <4>6, <4>7, <4>8, ReadServes
    <3>5. CASE HandlerThrows(c)
      <4>1. PICK n, b : n = ReadSize(c) /\ b = Filled(c, n)
               /\ \E r \in Commands(b) : ReadRequest(c, n, b, r)
        BY <3>5 DEF HandlerThrows
      <4>2. PICK x \in Commands(b) : ReadRequest(c, n, b, x)
        BY <4>1
      <4>3. Readable(c) /\ io' = io
        BY <3>5 DEF HandlerThrows
      <4>4. PICK a : a = <<>>
        OBVIOUS
      <4> QED BY <3>1, <4>1, <4>2, <4>3, <4>4, ReadServes
    <3>6. CASE Write(c)
      BY <3>6, WriteReplies
    <3>7. CASE WriteFails(c) \/ FinishRead(c)
      <4>1. UNCHANGED <<ran, answered, short, strayed>> /\ io' = None
        BY <3>7 DEF WriteFails, FinishRead, historyVars
      <4>2. Due' = {}
        BY <4>1, Buffer DEF Due, Trusted
      <4>3. Calls!GiveUp
        BY <4>1, <4>2 DEF Calls!GiveUp, Served, Replied, Trusted
      <4> QED BY <4>3 DEF Calls!CNext
    <3> QED BY <2>2, <3>2, <3>3, <3>4, <3>5, <3>6, <3>7 DEF Step, PeerStep, TakeUp, GoOn
  <2>3. CASE AcceptFails \/ UNCHANGED vars
    BY <2>3, CallsFrame DEF AcceptFails, vars, bufferVars, historyVars
  <2> QED BY <2>2, <2>3 DEF Next, Step
<1> QED BY <1>1, <1>2, Invariant, PTL DEF Spec, ServesSerially, Calls!CSpec

----------------------------------------------------------------------------
(* The accounts.                                                           *)

\* An account whose registration stopped has nothing to spend.
Funded(a) == ~a.squads => a.dna = 0 /\ a.creatures = 0 /\ a.rewards = 0

Solvent(a) == Consistent(a) /\ Funded(a)

\* The map, the sessions and the history name Users that exist.
Linked ==
    /\ \A e \in Emails : users[e] # NoUser => email[users[e]] = e
    /\ \A s \in Sessions : session[s] # NoUser => email[session[s]] # NoUser
    /\ \A o \in behind : email[o] # NoUser

Funds ==
    /\ \A e \in Emails : Solvent(disk[e])
    /\ \A o \in Objects : Solvent(data[o])

AccountsInv == AccountsTypeOK /\ Linked /\ LoggedInSeesDisk /\ Funds

----------------------------------------------------------------------------
(* Records.                                                                *)

\* A bare account is an account, with nothing in it.
LEMMA BareIsAccount == BareAccount \in Accounts /\ Solvent(BareAccount)
<1>1. /\ 0 \in 0..(Wrap - 1) /\ 0 \in Nat
      /\ 0 \in 0..Rewards /\ 0 \in 0..(Templates + Rewards)
  BY AccountsAssumption
<1>2. BareAccount \in Accounts
  BY <1>1 DEF Accounts, BareAccount
<1> QED BY <1>2 DEF Solvent, Consistent, Funded, BareAccount

\* What registration writes is an account and adds up.
LEMMA NewIsAccount == NewAccount \in Accounts /\ Solvent(NewAccount)
BY AccountsAssumption DEF NewAccount, NoAccount, Accounts, Solvent, Consistent, Funded

\* There is nothing wrong with a file that does not exist.
LEMMA NoneIsSolvent == Solvent(NoAccount)
BY DEF NoAccount, Solvent, Consistent, Funded

\* A file that exists is read into an account that adds up.
LEMMA LoadedIsAccount ==
    ASSUME AccountsInv, NEW e \in Emails, Registered(e)
    PROVE  Loaded(e) \in Accounts /\ Solvent(Loaded(e))
<1> DEFINE a == disk[e]
<1>1. a \in Accounts /\ Solvent(a) /\ a # NoAccount
  BY DEF AccountsInv, AccountsTypeOK, Funds, Registered
<1>2. SavedAndRead(a) \in Accounts
  BY <1>1 DEF SavedAndRead, Accounts
<1>3. Consistent(SavedAndRead(a)) /\ Funded(SavedAndRead(a))
  BY <1>1 DEF SavedAndRead, Accounts, Solvent, Consistent, Funded
<1> QED BY <1>2, <1>3 DEF Loaded, Solvent

\* A price that can be paid is taken without a wrap.
LEMMA NoWrap ==
    ASSUME NEW dna \in 0..(Wrap - 1), NEW price \in Nat, price <= dna
    PROVE  (dna - price) % Wrap = dna - price
BY AccountsAssumption, SMT

----------------------------------------------------------------------------
(* Initially, and in a step that changes nothing.                          *)

\* No file, no User: the invariant holds when the server first starts.
LEMMA InitIInv == AccountsInit => AccountsInv
<1> SUFFICES ASSUME AccountsInit PROVE AccountsInv
  OBVIOUS
<1>1. AccountsTypeOK
  BY BareIsAccount DEF AccountsInit, AccountsTypeOK
<1>2. Linked /\ LoggedInSeesDisk
  BY DEF AccountsInit, Linked, LoggedInSeesDisk
<1>3. Funds
  BY BareIsAccount, NoneIsSolvent DEF AccountsInit, Funds
<1> QED BY <1>1, <1>2, <1>3 DEF AccountsInv

\* A step that changes nothing keeps the invariant.
LEMMA StutterIInv == AccountsInv /\ UNCHANGED accountVars => AccountsInv'
BY DEF AccountsInv, AccountsTypeOK, Linked, LoggedInSeesDisk, Funds, accountVars

\* Steps that only change files: Linked and the Users stay.
LEMMA DiskIInv ==
    ASSUME AccountsInv, NEW e \in Emails, NEW a \in Accounts, Solvent(a),
           disk' = [disk EXCEPT ![e] = a],
           UNCHANGED <<users, session, email, data, behind>>
    PROVE  AccountsInv'
BY DEF AccountsInv, AccountsTypeOK, Linked, LoggedInSeesDisk, Funds

\* Steps that only change the account of one User.
LEMMA DataIInv ==
    ASSUME AccountsInv, NEW o \in Objects, NEW a \in Accounts, Solvent(a),
           data' = [data EXCEPT ![o] = a],
           UNCHANGED <<disk, users, session, email, behind>>
    PROVE  AccountsInv'
BY DEF AccountsInv, AccountsTypeOK, Linked, LoggedInSeesDisk, Funds

\* Users that are let go: what the map and the sessions still hold was held
\* before, and Users that nobody holds are destroyed.
LEMMA DestroyIInv ==
    ASSUME AccountsInv,
           users' \in [Emails -> Objects \cup {NoUser}],
           session' \in [Sessions -> Objects \cup {NoUser}],
           \A e \in Emails : users'[e] \in {users[e], NoUser},
           \A s \in Sessions :
              session'[s] # NoUser => email[session'[s]] # NoUser,
           disk' \in [Emails -> Accounts \cup {NoAccount}],
           \A e \in Emails : Solvent(disk'[e]),
           DestroyUnheld
    PROVE  AccountsInv'
<1>1. AccountsTypeOK'
  BY BareIsAccount DEF AccountsInv, AccountsTypeOK, DestroyUnheld
<1>2. Linked'
  <2>1. ASSUME NEW e \in Emails, users'[e] # NoUser PROVE email'[users'[e]] = e
    BY <2>1 DEF AccountsInv, AccountsTypeOK, Linked, DestroyUnheld, Held
  <2>2. ASSUME NEW s \in Sessions, session'[s] # NoUser
        PROVE  email'[session'[s]] # NoUser
    BY <2>2 DEF AccountsInv, AccountsTypeOK, DestroyUnheld, Held
  <2>3. ASSUME NEW o \in behind' PROVE email'[o] # NoUser
    BY DEF AccountsInv, AccountsTypeOK, Linked, DestroyUnheld
  <2> QED BY <2>1, <2>2, <2>3 DEF Linked
<1>3. LoggedInSeesDisk'
  BY DEF AccountsInv, LoggedInSeesDisk, DestroyUnheld
<1>4. Funds'
  BY BareIsAccount DEF AccountsInv, AccountsTypeOK, Funds, DestroyUnheld
<1> QED BY <1>1, <1>2, <1>3, <1>4 DEF AccountsInv

----------------------------------------------------------------------------
(* Each action.                                                            *)

\* Logout saves a User that exists under its name, and marks the others.
LEMMA LogoutIInv ==
    ASSUME AccountsInv, NEW s \in Sessions, Logout(s)
    PROVE  AccountsInv'
<1> DEFINE o == session[s]
           e == email[o]
<1>1. /\ o \in Objects /\ e \in Emails
      /\ users' = [users EXCEPT ![e] = NoUser]
      /\ disk' = [disk EXCEPT ![e] = data[o]]
      /\ behind' = (behind \cup {q \in Objects : email[q] = e}) \ {o}
      /\ UNCHANGED <<session, email, data>>
  BY DEF AccountsInv, AccountsTypeOK, Linked, Logout, Removed, Saved
<1>2. AccountsTypeOK'
  BY <1>1 DEF AccountsInv, AccountsTypeOK
<1>3. Linked'
  BY <1>1, AccountsAssumption DEF AccountsInv, AccountsTypeOK, Linked
<1>4. LoggedInSeesDisk'
  <2>1. SUFFICES ASSUME NEW f \in Emails, users'[f] # NoUser
                 PROVE  users'[f] \notin behind'
    BY DEF LoggedInSeesDisk
  <2>2. f # e /\ users'[f] = users[f]
    BY <1>1, <2>1 DEF AccountsInv, AccountsTypeOK
  <2>3. users[f] \notin behind /\ email[users[f]] = f
    BY <2>1, <2>2 DEF AccountsInv, Linked, LoggedInSeesDisk
  <2> QED BY <1>1, <2>2, <2>3
<1>5. Funds'
  BY <1>1 DEF AccountsInv, AccountsTypeOK, Funds
<1> QED BY <1>2, <1>3, <1>4, <1>5 DEF AccountsInv

\* Login reads a file into a User that nobody held.
LEMMA LoginIInv ==
    ASSUME AccountsInv, NEW s \in Sessions, NEW e \in Emails, Login(s, e)
    PROVE  AccountsInv'
<1>1. PICK o \in Free :
          /\ users' = [users EXCEPT ![e] = o]
          /\ session' = [session EXCEPT ![s] = o]
          /\ email' = [q \in Objects |->
                IF q = o THEN e ELSE IF Held(q) THEN email[q] ELSE NoUser]
          /\ data' = [q \in Objects |->
                IF q = o THEN Loaded(e)
                ELSE IF Held(q) THEN data[q] ELSE BareAccount]
          /\ behind' = {q \in behind : Held(q)}
  BY DEF Login
<1>2. o \in Objects /\ email[o] = NoUser /\ o \notin behind /\ disk' = disk
  BY DEF Login, Free, AccountsInv, Linked
<1>3. Loaded(e) \in Accounts /\ Solvent(Loaded(e))
  BY LoadedIsAccount DEF Login
<1>4. AccountsTypeOK'
  BY <1>1, <1>2, <1>3, BareIsAccount DEF AccountsInv, AccountsTypeOK
<1>5. Linked'
  <2>1. ASSUME NEW f \in Emails, users'[f] # NoUser PROVE email'[users'[f]] = f
    <3>1. CASE f = e
      BY <1>1, <1>2, <3>1 DEF AccountsInv, AccountsTypeOK
    <3>2. CASE f # e
      <4>1. users'[f] = users[f] /\ users[f] \in Objects /\ email[users[f]] = f
        BY <1>1, <2>1, <3>2 DEF AccountsInv, AccountsTypeOK, Linked
      <4>2. users[f] # o
        BY <1>2, <4>1, AccountsAssumption
      <4>3. Held(users[f])
        BY <4>1 DEF Held
      <4> QED BY <1>1, <4>1, <4>2, <4>3
    <3> QED BY <3>1, <3>2
  <2>2. ASSUME NEW t \in Sessions, session'[t] # NoUser
        PROVE  email'[session'[t]] # NoUser
    <3>1. CASE t = s
      BY <1>1, <1>2, <3>1, AccountsAssumption DEF AccountsInv, AccountsTypeOK
    <3>2. CASE t # s
      <4>1. /\ session'[t] = session[t] /\ session[t] \in Objects
            /\ email[session[t]] # NoUser
        BY <1>1, <2>2, <3>2 DEF AccountsInv, AccountsTypeOK, Linked
      <4>2. Held(session[t])
        BY <4>1 DEF Held
      <4> QED BY <1>1, <1>2, <4>1, <4>2, AccountsAssumption
    <3> QED BY <3>1, <3>2
  <2>3. ASSUME NEW q \in behind' PROVE email'[q] # NoUser
    BY <1>1, <1>2 DEF AccountsInv, AccountsTypeOK, Linked
  <2> QED BY <2>1, <2>2, <2>3 DEF Linked
<1>6. LoggedInSeesDisk'
  BY <1>1, <1>2 DEF AccountsInv, AccountsTypeOK, LoggedInSeesDisk
<1>7. Funds'
  BY <1>1, <1>2, <1>3, BareIsAccount DEF AccountsInv, AccountsTypeOK, Funds
<1> QED BY <1>4, <1>5, <1>6, <1>7 DEF AccountsInv

\* When the server stops only the files are left.
LEMMA StoppedIInv ==
    ASSUME AccountsInv, Stopped,
           disk' \in [Emails -> Accounts \cup {NoAccount}],
           \A e \in Emails : Solvent(disk'[e])
    PROVE  AccountsInv'
<1>1. /\ users' \in [Emails -> Objects \cup {NoUser}]
      /\ session' \in [Sessions -> Objects \cup {NoUser}]
      /\ \A e \in Emails : users'[e] = NoUser
      /\ \A s \in Sessions : session'[s] = NoUser
  BY DEF Stopped
<1> QED BY <1>1, DestroyIInv DEF Stopped

\* A login that finds its User in the map.
LEMMA AttachIInv ==
    ASSUME AccountsInv, NEW s \in Sessions, NEW e \in Emails, Attach(s, e)
    PROVE  AccountsInv'
<1>1. /\ users' \in [Emails -> Objects \cup {NoUser}]
      /\ session' \in [Sessions -> Objects \cup {NoUser}]
      /\ \A f \in Emails : users'[f] \in {users[f], NoUser}
  BY DEF Attach, AccountsInv, AccountsTypeOK
<1>2. \A t \in Sessions : session'[t] # NoUser => email[session'[t]] # NoUser
  BY AccountsAssumption DEF Attach, AccountsInv, AccountsTypeOK, Linked
<1>3. /\ disk' \in [Emails -> Accounts \cup {NoAccount}]
      /\ \A f \in Emails : Solvent(disk'[f])
  BY DEF Attach, AccountsInv, AccountsTypeOK, Funds
<1> QED BY <1>1, <1>2, <1>3, DestroyIInv DEF Attach

\* A session that ends.
LEMMA DisconnectIInv ==
    ASSUME AccountsInv, NEW s \in Sessions, Disconnect(s)
    PROVE  AccountsInv'
<1>1. /\ users' \in [Emails -> Objects \cup {NoUser}]
      /\ session' \in [Sessions -> Objects \cup {NoUser}]
      /\ \A f \in Emails : users'[f] \in {users[f], NoUser}
  BY DEF Disconnect, AccountsInv, AccountsTypeOK
<1>2. \A t \in Sessions : session'[t] # NoUser => email[session'[t]] # NoUser
  BY DEF Disconnect, AccountsInv, AccountsTypeOK, Linked
<1>3. /\ disk' \in [Emails -> Accounts \cup {NoAccount}]
      /\ \A f \in Emails : Solvent(disk'[f])
  BY DEF Disconnect, AccountsInv, AccountsTypeOK, Funds
<1> QED BY <1>1, <1>2, <1>3, DestroyIInv DEF Disconnect

\* What is bought is paid for.
LEMMA UnlockUpgradeIInv ==
    ASSUME AccountsInv, NEW s \in Sessions, NEW k \in Upgrades, UnlockUpgrade(s, k)
    PROVE  AccountsInv'
<1> DEFINE o == session[s]
           a == data[o]
           b == [a EXCEPT !.dna = (@ - Cost[k]) % Wrap,
                          !.paid = @ + Cost[k], !.inventory = TRUE]
<1>1. o \in Objects /\ a \in Accounts /\ Solvent(a) /\ Cost[k] \in Nat
  BY AccountsAssumption DEF UnlockUpgrade, AccountsInv, AccountsTypeOK, Funds
<1>2. /\ Cost[k] <= a.dna
      /\ data' = [data EXCEPT ![o] = b]
      /\ UNCHANGED <<disk, users, session, email, behind>>
  BY <1>1 DEF UnlockUpgrade, Affordable
<1>3. (a.dna - Cost[k]) % Wrap = a.dna - Cost[k]
  BY <1>1, <1>2, NoWrap DEF Accounts
<1>4. a.dna - Cost[k] \in 0..(Wrap - 1)
  BY <1>1, <1>2, AccountsAssumption DEF Accounts
<1>5. b = [a EXCEPT !.dna = a.dna - Cost[k], !.paid = a.paid + Cost[k],
                    !.inventory = TRUE]
  BY <1>3
<1>. HIDE DEF b
<1>6. b \in Accounts
  <2>1. a.paid + Cost[k] \in Nat
    BY <1>1 DEF Accounts
  <2> QED BY <1>1, <1>4, <1>5, <2>1 DEF Accounts
<1>7. Solvent(b)
  <2>1. CASE a.squads
    <3>1. a.dna + a.paid = Granted /\ a.hero <= a.creatures
          /\ a.creatures + a.rewards <= Templates + Rewards
      BY <1>1, <2>1 DEF Solvent, Consistent, NoAccount
    <3>2. /\ b.squads /\ b.dna = a.dna - Cost[k] /\ b.paid = a.paid + Cost[k]
          /\ b.hero = a.hero /\ b.creatures = a.creatures
          /\ b.rewards = a.rewards
      BY <1>1, <1>5, <2>1 DEF Accounts
    <3>3. b.dna + b.paid = Granted
      BY <1>1, <3>1, <3>2, AccountsAssumption DEF Accounts
    <3> QED BY <3>1, <3>2, <3>3 DEF Solvent, Consistent, Funded
  <2>2. CASE ~a.squads
    <3>1. a.dna = 0 /\ a.creatures = 0 /\ a.rewards = 0
      BY <1>1, <2>2 DEF Solvent, Funded
    <3>2. Cost[k] = 0
      BY <1>1, <1>2, <3>1
    <3>3. ~b.squads /\ b.dna = 0 /\ b.creatures = 0 /\ b.rewards = 0
      <4>1. a.dna - Cost[k] = 0
        BY <3>1, <3>2
      <4> QED BY <1>1, <1>5, <2>2, <3>1, <4>1 DEF Accounts
    <3> QED BY <3>3 DEF Solvent, Consistent, Funded
  <2> QED BY <2>1, <2>2
<1> QED BY <1>1, <1>2, <1>6, <1>7, DataIInv

\* A reward that is taken is worth one creature at most.
LEMMA UnlockCreatureIInv ==
    ASSUME AccountsInv, NEW s \in Sessions, NEW known \in BOOLEAN,
           UnlockCreature(s, known)
    PROVE  AccountsInv'
<1> DEFINE o == session[s]
           a == data[o]
           b == [a EXCEPT !.rewards = @ - 1, !.creatures = Added(@, known)]
<1>1. o \in Objects /\ a \in Accounts /\ Solvent(a) /\ a.rewards > 0
  BY DEF UnlockCreature, HasReward, AccountsInv, AccountsTypeOK, Funds
<1>2. /\ data' = [data EXCEPT ![o] = b]
      /\ UNCHANGED <<disk, users, session, email, behind>>
  BY <1>1 DEF UnlockCreature
<1>3. a.squads
  BY <1>1 DEF Solvent, Funded
<1>4. /\ a.dna + a.paid = Granted /\ a.hero <= a.creatures
      /\ a.creatures + a.rewards <= Templates + Rewards
  BY <1>1, <1>3 DEF Solvent, Consistent, NoAccount
<1>5. /\ a.rewards \in 1..Rewards
      /\ Added(a.creatures, known) \in {a.creatures, a.creatures + 1}
      /\ a.creatures \in 0..(Templates + Rewards)
      /\ a.hero \in 0..(Templates + Rewards)
  BY <1>1 DEF Added, Accounts
<1>6. b \in Accounts
  <2>1. /\ a.rewards - 1 \in 0..Rewards
        /\ Added(a.creatures, known) \in 0..(Templates + Rewards)
    BY <1>4, <1>5, AccountsAssumption
  <2> QED BY <1>1, <2>1 DEF Accounts
<1>7. /\ b.squads /\ b.dna = a.dna /\ b.paid = a.paid /\ b.hero = a.hero
      /\ b.rewards = a.rewards - 1
      /\ b.creatures = Added(a.creatures, known)
  BY <1>1, <1>3 DEF Accounts
<1>8. b.creatures + b.rewards <= Templates + Rewards /\ b.hero <= b.creatures
  BY <1>4, <1>5, <1>7, AccountsAssumption
<1> QED BY <1>1, <1>2, <1>4, <1>6, <1>7, <1>8, DataIInv DEF Solvent, Consistent, Funded

\* A squad takes a creature that the account has.
LEMMA UpdateSquadIInv ==
    ASSUME AccountsInv, NEW s \in Sessions, NEW c \in 1..(Templates + Rewards),
           UpdateSquad(s, c)
    PROVE  AccountsInv'
<1> DEFINE o == session[s]
           a == data[o]
           b == [a EXCEPT !.hero = c]
<1>1. /\ o \in Objects /\ a \in Accounts /\ Solvent(a)
      /\ a.squads /\ c <= a.creatures
  BY DEF UpdateSquad, AccountsInv, AccountsTypeOK, Funds, Accounts
<1>2. /\ data' = [data EXCEPT ![o] = b]
      /\ UNCHANGED <<disk, users, session, email, behind>>
  BY DEF UpdateSquad
<1>3. b \in Accounts
  BY <1>1 DEF Accounts
<1>4. Solvent(b)
  BY <1>1 DEF Accounts, Solvent, Consistent, Funded, NoAccount
<1> QED BY <1>1, <1>2, <1>3, <1>4, DataIInv

----------------------------------------------------------------------------
(* The theorems.                                                           *)

\* Every step of Accounts keeps the invariant.
LEMMA NextIInv == AccountsInv /\ [AccountsNext]_accountVars => AccountsInv'
<1> SUFFICES ASSUME AccountsInv, [AccountsNext]_accountVars PROVE AccountsInv'
  OBVIOUS
<1>1. ASSUME NEW e \in Emails, Register(e) PROVE AccountsInv'
  BY <1>1, NewIsAccount, DiskIInv DEF Register
<1>2. ASSUME NEW e \in Emails, RegisterFails(e) PROVE AccountsInv'
  <2>1. /\ disk' \in [Emails -> Accounts \cup {NoAccount}]
        /\ \A f \in Emails : Solvent(disk'[f])
    BY <1>2, BareIsAccount DEF RegisterFails, AccountsInv, AccountsTypeOK, Funds
  <2> QED BY <1>2, <2>1, StoppedIInv DEF RegisterFails
<1>3. ASSUME Restart PROVE AccountsInv'
  <2>1. /\ disk' \in [Emails -> Accounts \cup {NoAccount}]
        /\ \A f \in Emails : Solvent(disk'[f])
    BY <1>3 DEF Restart, AccountsInv, AccountsTypeOK, Funds
  <2> QED BY <1>3, <2>1, StoppedIInv DEF Restart
<1>4. CASE \E s \in Sessions, e \in Emails : Attach(s, e) \/ Login(s, e)
  BY <1>4, AttachIInv, LoginIInv
<1>5. CASE \E s \in Sessions : Disconnect(s) \/ Logout(s)
  BY <1>5, DisconnectIInv, LogoutIInv
<1>6. CASE \E s \in Sessions, k \in Upgrades : UnlockUpgrade(s, k)
  BY <1>6, UnlockUpgradeIInv
<1>7. CASE \E s \in Sessions, known \in BOOLEAN : UnlockCreature(s, known)
  BY <1>7, UnlockCreatureIInv
<1>8. CASE \E s \in Sessions, c \in 1..(Templates + Rewards) : UpdateSquad(s, c)
  BY <1>8, UpdateSquadIInv
<1>9. CASE UNCHANGED accountVars
  BY <1>9, StutterIInv
<1> QED BY <1>1, <1>2, <1>3, <1>4, <1>5, <1>6, <1>7, <1>8, <1>9 DEF AccountsNext

\* The inductive invariant.
LEMMA InvariantIInv == AccountsSpec => []AccountsInv
BY InitIInv, NextIInv, PTL DEF AccountsSpec

\* Files, Users, sessions and the map have their types: money does not wrap
\* and a file is always a whole account.
THEOREM AccountsTypeCorrect == AccountsSpec => []AccountsTypeOK
BY InvariantIInv, PTL DEF AccountsInv

\* The User that UserManager::Login finds in its map has seen its file
\* as it is, whoever else holds a User of the same account.
THEOREM MapIsCurrent == AccountsSpec => []LoggedInSeesDisk
BY InvariantIInv, PTL DEF AccountsInv

\* No order of logins, logouts, purchases, failed registrations and restarts
\* makes money, creatures or squads.
THEOREM AccountsAddUp == AccountsSpec => []AccountsSound
<1>1. AccountsInv => AccountsSound
  BY DEF AccountsInv, Funds, Solvent, AccountsSound
<1> QED BY <1>1, InvariantIInv, PTL

=============================================================================
