-------------------------------- MODULE Wire --------------------------------
(***************************************************************************)
(* One direction of one connection (src/transport/tcp.hpp).  sendFrame     *)
(* writes a length and then a frame, in two calls and under no lock of the *)
(* socket's own: on a worker's socket the thread that answers the worker   *)
(* and the thread that hands a plan off to it may both be inside it.       *)
(* recvFrame reads a length, that many bytes, and decodes them; the loops  *)
(* of handleConnection and of the worker close the connection when it      *)
(* fails, and skip a frame whose payload decodeMessage refuses.            *)
(***************************************************************************)
EXTENDS Protocol

CONSTANTS Writer,    \* the threads that send on this socket
          Programs,  \* what they send: a set of functions from Writer to sequences
          Noise      \* the values a token may take on a bad line

ASSUME WireAssumption == \A prog \in Programs : DOMAIN prog = Writer

VARIABLES program,   \* what each writer has to send, in order
          count,     \* how many of its messages each writer has begun
          writing,   \* the frame whose length a writer has written, or <<>>
          stream,    \* written and not yet read
          cut,       \* whether the sending end is gone
          expected,  \* the length recvFrame has read, or -1
          open,      \* whether the receiver still reads
          received,  \* the messages handed on, in order
          clash,     \* whether two frames were ever under way at once
          damaged    \* whether a token was ever changed on the way

wireVars ==
    <<program, count, writing, stream, cut, expected, open, received, clash, damaged>>

Sendable == UNION {ToSet(prog[w]) : prog \in Programs, w \in Writer}
Encoded == [m \in Sendable |-> EncodeFrame(m)]

(* What the caller of recvFrame does with the bytes of a frame: it closes  *)
(* the connection on a frame that does not decode, skips one whose payload *)
(* does not, and hands on the rest.                                        *)
Decoded(b) ==
    LET frame == DecodeFrame(b)
        m == DecodeMessage(frame.val.type, frame.val.payload)
    IN  [ok |-> frame.ok,
         messages |-> IF frame.ok /\ m.ok
                      THEN <<[type |-> frame.val.type, body |-> m.val]>>
                      ELSE <<>>]

(* The same, tabulated for whole frames. *)
DecodedFrame == [b \in {Encoded[m] : m \in Sendable} \ {<<>>} |-> Decoded(b)]
Outcome(b) == IF b \in DOMAIN DecodedFrame THEN DecodedFrame[b] ELSE Decoded(b)

WireInit ==
    /\ program \in Programs
    /\ count = [w \in Writer |-> 0]
    /\ writing = [w \in Writer |-> <<>>]
    /\ stream = <<>>
    /\ cut = FALSE
    /\ expected = -1
    /\ open = TRUE
    /\ received = <<>>
    /\ clash = FALSE
    /\ damaged = FALSE

(* sendFrame, first half: the length.  A message encodeFrame refuses is    *)
(* dropped.                                                                *)
SendLength(w) ==
    /\ ~cut
    /\ writing[w] = <<>>
    /\ count[w] < Len(program[w])
    /\ count' = [count EXCEPT ![w] = @ + 1]
    /\ LET frame == Encoded[program[w][count[w] + 1]]
       IN  \/ /\ frame = <<>>
              /\ UNCHANGED <<writing, stream, clash>>
           \/ /\ frame # <<>>
              /\ writing' = [writing EXCEPT ![w] = frame]
              /\ stream' = Append(stream, Len(frame))
              /\ clash' = (clash \/ \E v \in Writer : writing[v] # <<>>)
    /\ UNCHANGED <<program, cut, expected, open, received, damaged>>

(* sendFrame, second half: the frame. *)
SendBody(w) ==
    /\ ~cut
    /\ writing[w] # <<>>
    /\ stream' = stream \o writing[w]
    /\ writing' = [writing EXCEPT ![w] = <<>>]
    /\ UNCHANGED <<program, count, cut, expected, open, received, clash, damaged>>

(* The fault the frame's checksum is there for: one token of a frame       *)
(* arrives as another one.                                                 *)
SendBodyDamaged(w) ==
    /\ ~cut /\ ~damaged
    /\ writing[w] # <<>>
    /\ \E p \in 1..Len(writing[w]), t \in Noise :
          /\ writing[w][p] # t
          /\ stream' = stream \o [writing[w] EXCEPT ![p] = t]
    /\ damaged' = TRUE
    /\ writing' = [writing EXCEPT ![w] = <<>>]
    /\ UNCHANGED <<program, count, cut, expected, open, received, clash>>

(* The sending process dies, between two calls of send. *)
CutOff ==
    /\ ~cut
    /\ cut' = TRUE
    /\ UNCHANGED <<program, count, writing, stream, expected, open, received, clash, damaged>>

(* recvFrame, first half.  At the end of the stream there is nothing left  *)
(* to read and it fails.                                                   *)
ReadLength ==
    /\ open /\ expected = -1
    /\ \/ /\ stream # <<>>
          /\ stream' = Tail(stream)
          /\ IF Head(stream) \in 1..MaxFrame
             THEN expected' = Head(stream) /\ open' = open
             ELSE open' = FALSE /\ expected' = expected
       \/ /\ stream = <<>> /\ cut
          /\ open' = FALSE
          /\ UNCHANGED <<stream, expected>>
    /\ UNCHANGED <<program, count, writing, cut, received, clash, damaged>>

(* A plausible slip: a frame that does not decode is skipped, like a       *)
(* payload that does not.                                                  *)
ReadBodySkips ==
    /\ open /\ expected # -1
    /\ \/ /\ Len(stream) >= expected
          /\ received' = received \o Outcome(SubSeq(stream, 1, expected)).messages
          /\ open' = open
          /\ stream' = SubSeq(stream, expected + 1, Len(stream))
       \/ /\ Len(stream) < expected /\ cut
          /\ open' = FALSE
          /\ UNCHANGED <<stream, received>>
    /\ expected' = -1
    /\ UNCHANGED <<program, count, writing, cut, clash, damaged>>

(* recvFrame, second half, and what its caller does with the outcome. *)
ReadBody ==
    /\ open /\ expected # -1
    /\ \/ /\ Len(stream) >= expected
          /\ LET result == Outcome(SubSeq(stream, 1, expected))
             IN  open' = result.ok /\ received' = received \o result.messages
          /\ stream' = SubSeq(stream, expected + 1, Len(stream))
       \/ /\ Len(stream) < expected /\ cut
          /\ open' = FALSE
          /\ UNCHANGED <<stream, received>>
    /\ expected' = -1
    /\ UNCHANGED <<program, count, writing, cut, clash, damaged>>

WireNext ==
    \/ \E w \in Writer : SendLength(w) \/ SendBody(w) \/ SendBodyDamaged(w)
    \/ CutOff
    \/ ReadLength
    \/ ReadBody

(* A thread inside sendFrame or recvFrame goes on as soon as it can. *)
WireFairness ==
    /\ \A w \in Writer : WF_wireVars(SendLength(w) \/ SendBody(w))
    /\ WF_wireVars(ReadLength \/ ReadBody)

WireSpec == WireInit /\ [][WireNext]_wireVars /\ WireFairness

---------------------------------------------------------------------------
(* A message within the limits of the receiver.  They are not those of the *)
(* sender: encodeFrame limits the payload and recvFrame the whole frame,   *)
(* and nothing limits a text that is sent.                                 *)
Fitting == {m \in Sendable : /\ Len(Encoded[m]) \in 1..MaxFrame
                             /\ WellFormed(EncFields(m.type), m.body)}
AllFit == \A w \in Writer : ToSet(program[w]) \subseteq Fitting

(* Some merge of the writers' messages begins with r. *)
RECURSIVE Explains(_, _)
Explains(r, left) ==
    \/ r = <<>>
    \/ \E w \in Writer :
          /\ left[w] # <<>>
          /\ r[1] = Arrived(left[w][1])
          /\ Explains(Tail(r), [left EXCEPT ![w] = Tail(@)])

(* Whatever the two threads' writes look like on the socket, wherever the  *)
(* stream is cut and whichever token of a frame is damaged, the receiver   *)
(* hands on only messages that were sent, unaltered, each at most once and *)
(* in the order their writer sent them.  It leaves out none before the     *)
(* last but those beyond its limits: a payload with an enumerator it does  *)
(* not know, or too long a text.                                           *)
ReceivedAsSent ==
    LET sent == [w \in Writer |-> SelectSeq(SubSeq(program[w], 1, count[w]),
                                           LAMBDA m : m \in Fitting)]
    IN  Explains(received, sent)

(* When the sends of two threads meet on the socket, no frame of the       *)
(* muddle is mistaken for another one for long: the receiver gives the     *)
(* connection up.                                                          *)
ClashCloses == clash ~> ~open

(* On a connection that lasts, where every message is within the           *)
(* receiver's limits and no two sends met, everything that was sent        *)
(* arrives: encodeFrame and decodeFrame, sendFrame and recvFrame agree on  *)
(* every length.                                                           *)
EverythingArrives ==
    AllFit ~> \/ cut \/ clash \/ damaged
              \/ \A w \in Writer : \A i \in 1..Len(program[w]) :
                    Arrived(program[w][i]) \in ToSet(received)
============================================================================
