-------------------------------- MODULE Gui ---------------------------------
(***************************************************************************)
(* The peer and the process that serves the web page, joined by two pipes  *)
(* (handle_gui and callback_chat of websocket.c, print_on_screen of        *)
(* util.c, the reading of lines in main.c and what chat.js shows).         *)
(*                                                                         *)
(* Bytes are opaque: byte i of line k is <<k, i>>.  Pipes keep the order   *)
(* and hold a bounded number of bytes; a write of the sizes used here is   *)
(* atomic and waits until there is room; a read takes what there is.  To   *)
(* write to a pipe whose reader is gone is the end of the peer (SIGPIPE),  *)
(* while the server has the signal ignored by libwebsockets.  One page is  *)
(* opened, and libwebsockets hands over what the page sends in order.  The *)
(* lines of an input field hold no end of line.  The peer has a symmetric  *)
(* neighbour all the time, so that every datum is given to send_data(),    *)
(* and fewer than NBDATA data wait for it.                                 *)
(***************************************************************************)
EXTENDS Integers, FiniteSets, Sequences, SequencesExt

CONSTANTS
  Typed,     \* lines the user of the page may submit
  Received,  \* lines that may come from other peers
  Size,      \* line -> its length
  Byte,      \* values of an unsigned byte (256)
  Header,    \* bytes of a data TLV before its text, without type and length (13)
  PIPE_SIZE, \* bytes a pipe holds
  Opens,     \* a page is opened
  Mortal     \* the processes that may crash or be interrupted

ASSUME GuiAssumption ==
  /\ Typed \cap Received = {} /\ 0 \notin Typed \cup Received
  /\ Size \in [Typed \cup Received -> Nat] /\ \A k \in Typed : Size[k] > 0
  /\ Header \in Nat \ {0} /\ Byte \in Nat /\ Byte > Header + 2
  /\ PIPE_SIZE \in Nat \ {0}
  /\ Opens \in BOOLEAN /\ Mortal \subseteq {"peer", "server"}

VARIABLES
  peer,      \* where the peer is: at select(), before one of two writes, or dead
  server,    \* the server: serving, before its write to the peer, or dead
  toPeer,    \* the pipe from server to peer
  toPage,    \* the pipe from peer to server
  text,      \* what the peer is printing
  frame,     \* what the server is writing
  adopted,   \* the server listens to toPage: a page is connected
  DATAF,     \* texts of the peer's own data that were not transmitted yet
  handed,    \* history: texts of its own data of which a message was made
  sent,      \* history: what left of each of them
  typed,     \* history: bytes submitted so far
  frames,    \* what the page was sent; it shows each without its first byte
  new        \* lines not submitted and not received yet

vars == <<peer, server, toPeer, toPage, text, frame, adopted, DATAF, handed,
          sent, typed, frames, new>>

history == <<handed, sent, typed>>

Z == <<0, 0>>

Bytes(k) == [i \in 1..Size[k] |-> <<k, i>>]

Room(pipe, s) == Len(pipe) + Len(s) <= PIPE_SIZE
-----------------------------------------------------------------------------
Init ==
  /\ peer = "select" /\ server = "idle"
  /\ toPeer = <<>> /\ toPage = <<>>
  /\ text = <<>> /\ frame = <<>>
  /\ adopted = FALSE
  /\ DATAF = <<>>
  /\ handed = <<>> /\ sent = <<>> /\ typed = <<>> /\ frames = <<>>
  /\ new = Typed \cup Received

\* What main() takes for the line when it has read s: a zero at the end is cut
\* off.  When nothing is left the byte before the array is looked at, and the
\* length may come out as 255, that is -1, of an array of zeros.
Cleaned(s) ==
  LET line == IF s # <<>> /\ Last(s) = Z THEN Front(s) ELSE s
  IN  IF line = <<>> THEN {<<>>, [i \in 1..(Byte - 1) |-> Z]} ELSE {line}

\* tlv_data(): the length field is a byte, and says where the text ends.
Datum(line) == SubSeq(line, 1, ((Len(line) + Header) % Byte) - Header)

\* The longest text of a data TLV: 242 bytes, as many as are read.
MaxText == Byte - 1 - Header

Chunk(pipe) ==
  SubSeq(pipe, 1, IF Len(pipe) < MaxText THEN Len(pipe) ELSE MaxText)

\* Mutant: the end of the other process is not noticed.
ReadLine_waits ==
  /\ peer = "select"
  /\ toPeer # <<>>
  /\ \E line \in Cleaned(Chunk(toPeer)) :
       /\ DATAF' = Append(DATAF, Datum(line))
       /\ text' = line
  /\ toPeer' = SubSeq(toPeer, Len(Chunk(toPeer)) + 1, Len(toPeer))
  /\ peer' = "zero"
  /\ UNCHANGED <<server, toPage, frame, adopted, history, frames, new>>

\* Mutant: 255 bytes are read.
ReadLine_long ==
  /\ peer = "select"
  /\ toPeer # <<>> \/ server = "dead"
  /\ LET s == SubSeq(toPeer, 1, IF Len(toPeer) < Byte - 1 THEN Len(toPeer) ELSE Byte - 1)
     IN  /\ \E line \in Cleaned(s) :
              /\ DATAF' = Append(DATAF, Datum(line))
              /\ text' = line
         /\ toPeer' = SubSeq(toPeer, Len(s) + 1, Len(toPeer))
  /\ peer' = "zero"
  /\ UNCHANGED <<server, toPage, frame, adopted, history, frames, new>>

\* The pipe is readable, also when its writer is gone: what is read, be it several
\* lines or a part of one, is flooded as one datum and printed.  tlv_data() copies the
\* array of zeros beyond the end of msg_to_send, which may end the process.
ReadLine ==
  /\ peer = "select"
  /\ toPeer # <<>> \/ server = "dead"
  /\ \E line \in Cleaned(Chunk(toPeer)) :
       /\ DATAF' = Append(DATAF, Datum(line))
       /\ text' = line
       /\ peer' = "zero" \/ (Len(line) > MaxText /\ peer' = "dead")
  /\ toPeer' = SubSeq(toPeer, Len(Chunk(toPeer)) + 1, Len(toPeer))
  /\ UNCHANGED <<server, toPage, frame, adopted, history, frames, new>>

\* A datum arrives and is printed.  Of a length field of 13 or less nothing is: write()
\* refuses a size that is negative.
RecvData(k) ==
  /\ peer = "select"
  /\ k \in new \cap Received
  /\ new' = new \ {k}
  /\ text' = Bytes(k)
  /\ peer' = "zero"
  /\ UNCHANGED <<server, toPeer, toPage, frame, adopted, DATAF, history, frames>>

\* Mutant: SIGPIPE is ignored.
PrintZero_ignored ==
  /\ peer = "zero"
  /\ peer' = "text"
  /\ toPage' = IF server = "dead" THEN toPage ELSE Append(toPage, Z)
  /\ server # "dead" => Room(toPage, <<Z>>)
  /\ UNCHANGED <<server, toPeer, text, frame, adopted, DATAF, history, frames, new>>

\* Mutant: no zero is written.
PrintZero_none ==
  /\ peer = "zero"
  /\ peer' = IF server = "dead" THEN "dead" ELSE "text"
  /\ UNCHANGED <<server, toPeer, toPage, text, frame, adopted, DATAF, history, frames, new>>

\* print_on_screen(): the zero ...
PrintZero ==
  /\ peer = "zero"
  /\ \/ /\ server = "dead"
        /\ peer' = "dead"
        /\ UNCHANGED toPage
     \/ /\ server # "dead"
        /\ Room(toPage, <<Z>>)
        /\ toPage' = Append(toPage, Z)
        /\ peer' = "text"
  /\ UNCHANGED <<server, toPeer, text, frame, adopted, DATAF, history, frames, new>>

\* ... and the text, after which the loop goes on.  To write nothing harms nobody.
PrintText ==
  /\ peer = "text"
  /\ \/ /\ server = "dead" /\ text # <<>>
        /\ peer' = "dead"
        /\ UNCHANGED <<toPage, text>>
     \/ /\ server # "dead" \/ text = <<>>
        /\ Room(toPage, text)
        /\ toPage' = toPage \o text
        /\ text' = <<>>
        /\ peer' = "select"
  /\ UNCHANGED <<server, toPeer, frame, adopted, DATAF, history, frames, new>>

\* send_data() reads the length byte through a char pointer, that is, signed.
Signed(n) == IF 2 * n < Byte THEN n ELSE n - Byte

BodyLength(line) == Signed(Header + Len(line)) + 2

\* The text in the message that is made of a datum: an empty message and one of a
\* single byte hold nothing of it.
Body(line) == IF BodyLength(line) < 2 THEN <<>> ELSE line

\* A second later at the earliest: a pass transmits the data that are due, oldest
\* first.  memcpy() with a negative size ends the process before the buffers leave.
Transmit ==
  /\ peer = "select"
  /\ \E n \in 1..Len(DATAF) :
       LET due == SubSeq(DATAF, 1, n)
       IN  IF \E i \in 1..n : BodyLength(due[i]) < 0
           THEN peer' = "dead" /\ UNCHANGED <<DATAF, handed, sent>>
           ELSE /\ handed' = handed \o due
                /\ sent' = sent \o [i \in 1..n |-> Body(due[i])]
                /\ DATAF' = SubSeq(DATAF, n + 1, Len(DATAF))
                /\ UNCHANGED peer
  /\ UNCHANGED <<server, toPeer, toPage, text, frame, adopted, typed, frames, new>>
-----------------------------------------------------------------------------
\* LWS_CALLBACK_ESTABLISHED
Establish ==
  /\ Opens
  /\ server = "idle"
  /\ ~adopted
  /\ adopted' = TRUE
  /\ UNCHANGED <<peer, server, toPeer, toPage, text, frame, DATAF, history, frames, new>>

\* LWS_CALLBACK_RECEIVE: the page submits a line, which is written to the peer.
Receive(k) ==
  /\ adopted
  /\ server = "idle"
  /\ k \in new \cap Typed
  /\ new' = new \ {k}
  /\ typed' = typed \o Bytes(k)
  /\ frame' = Bytes(k)
  /\ server' = "writing"
  /\ UNCHANGED <<peer, toPeer, toPage, text, adopted, DATAF, handed, sent, frames>>

\* Its write to the peer.  When that is dead the write fails, which is not looked at.
ServerWrite ==
  /\ server = "writing"
  /\ \/ peer = "dead" /\ UNCHANGED toPeer
     \/ /\ peer # "dead"
        /\ Room(toPeer, frame)
        /\ toPeer' = toPeer \o frame
  /\ frame' = <<>>
  /\ server' = "idle"
  /\ UNCHANGED <<peer, toPage, text, adopted, DATAF, history, frames, new>>

\* Mutant: only what begins with a zero is taken.
RawRxFile_strict ==
  /\ adopted
  /\ server = "idle"
  /\ toPage # <<>>
  /\ Head(toPage) = Z
  /\ toPage' = <<>>
  /\ frames' = Append(frames, toPage)
  /\ UNCHANGED <<peer, server, toPeer, text, frame, adopted, DATAF, history, new>>

\* LWS_CALLBACK_RAW_RX_FILE: all that is in the pipe goes to the page in one frame.
RawRxFile ==
  /\ adopted
  /\ server = "idle"
  /\ toPage # <<>>
  /\ toPage' = <<>>
  /\ frames' = Append(frames, toPage)
  /\ UNCHANGED <<peer, server, toPeer, text, frame, adopted, DATAF, history, new>>

Dies ==
  \/ /\ "peer" \in Mortal /\ peer # "dead" /\ peer' = "dead"
     /\ UNCHANGED <<server, toPeer, toPage, text, frame, adopted, DATAF, history, frames, new>>
  \/ /\ "server" \in Mortal /\ server # "dead" /\ server' = "dead"
     /\ UNCHANGED <<peer, toPeer, toPage, text, frame, adopted, DATAF, history, frames, new>>

PeerStep == ReadLine \/ PrintZero \/ PrintText \/ Transmit

ServerStep == ServerWrite \/ RawRxFile

Next ==
  \/ PeerStep \/ ServerStep \/ Establish \/ Dies
  \/ \E k \in Received : RecvData(k)
  \/ \E k \in Typed : Receive(k)

\* Two processes that are scheduled; nothing is assumed of the user, of the other
\* peers, or of when a page is opened.
Spec == Init /\ [][Next]_vars /\ WF_vars(PeerStep) /\ WF_vars(ServerStep)
-----------------------------------------------------------------------------
IsByteSeq(s) == \A i \in 1..Len(s) : s[i] = Z \/ s[i][1] \in Typed \cup Received

\* The two processes are at one of their steps and the pipes hold what fits.
GuiTypeOK ==
  /\ peer \in {"select", "zero", "text", "dead"}
  /\ server \in {"idle", "writing", "dead"}
  /\ \A s \in {toPeer, toPage, text, frame, typed} : IsByteSeq(s)
  /\ Len(toPeer) <= PIPE_SIZE /\ Len(toPage) <= PIPE_SIZE
  /\ \A i \in DOMAIN frames : IsByteSeq(frames[i]) /\ frames[i] # <<>>
  /\ \A s \in ToSet(DATAF \o handed \o sent) : IsByteSeq(s)
  /\ adopted \in BOOLEAN
  /\ new \subseteq Typed \cup Received

\* However reads join and cut the lines, the peer makes messages of what was typed, byte
\* for byte and in order, and what leaves of each is the whole of it, except that a
\* read of 241 or 242 bytes leaves nothing; one of 115 to 240 bytes is never handed on.
\* The line made up of nothing when the server is gone never leaves.
SentIsTyped ==
  /\ IsPrefix(FlattenSeq(handed), typed)
  /\ Len(sent) = Len(handed)
  /\ \A i \in 1..Len(handed) :
       \/ /\ Len(handed[i]) > 0 /\ 2 * (Header + Len(handed[i])) < Byte
          /\ sent[i] = handed[i]
       \/ /\ Len(handed[i]) \in {MaxText - 1, MaxText}
          /\ sent[i] = <<>>

\* A frame begins with the zero of a message, unless the frame before ended with
\* it: the page, which leaves out the first byte, loses a character only when the
\* server reads between the two writes of print_on_screen().
LostOnlyBetweenWrites ==
  \A i \in DOMAIN frames :
    Head(frames[i]) = Z \/ (i > 1 /\ Last(frames[i - 1]) = Z)

\* The peer waits in print_on_screen() until the server reads, ...
PeerWaits ==
  \/ peer = "zero" /\ ~Room(toPage, <<Z>>)
  \/ peer = "text" /\ ~Room(toPage, text)

\* ... and the server waits in callback_chat() until the peer reads.
ServerWaits == server = "writing" /\ ~Room(toPeer, frame)

\* A message is made in the end of all that is typed (SentIsTyped says what leaves), unless
\* a process dies, as the peer does of a read of 115 to 240 bytes, or both wait for each
\* other.
TypedIsSent ==
  []<>(FlattenSeq(handed) = typed \/ "dead" \in {peer, server}
         \/ (PeerWaits /\ ServerWaits))

\* The peer comes back from its writes to the pipe to select(), from which it sends its
\* hellos, unless the pipe is full and nobody reads it: no page is open, or the server
\* waits for the peer in turn.  These are the two cases in which the peer does not do
\* what main.c:129 asks, "envoyer toutes les 30s des hellos long".
PeerReturns ==
  []<>(peer \in {"select", "dead"} \/ (PeerWaits /\ (~adopted \/ ServerWaits)))

\* When the server is gone the peer ends: it is not left alone with a pipe that is
\* readable for ever.
ServerGone == (server = "dead") ~> (peer = "dead")
=============================================================================
