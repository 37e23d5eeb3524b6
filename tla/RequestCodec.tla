---------------------------- MODULE RequestCodec ----------------------------
(***************************************************************************)
(* The framed request codec of the worker (src/PyExec.cpp, template        *)
(* Request, driven by Session::FirstRead and Session::HandleRead).         *)
(*                                                                         *)
(* The master writes one frame per connection: the ASCII decimal length   *)
(* of the payload, a line feed, then the payload.  TCP hands the worker    *)
(* the frame in reads of 1..BufSize bytes, cut anywhere.  The first read  *)
(* goes through Request::OnFirstRead (header parsing and CheckHeader),     *)
(* then every read through Request::OnRead and IsReadCompleted; a         *)
(* completed request is handed to the action, the Request is Reset and    *)
(* the Session starts over with a new FirstRead on the same socket.       *)
(*                                                                         *)
(* Bytes are modelled as their values (line feed 10, digits 48..57,       *)
(* payload bytes 97..), so that the conversions the code does (finding    *)
(* the line feed, lexical_cast of the length) are modelled by what they    *)
(* compute.                                                                *)
(***************************************************************************)
EXTENDS Integers, Sequences, SequencesExt

CONSTANTS
    MaxLen,         \* longest payload the master sends in a run
    BufSize,        \* Session::BufferType size (1024 in the code)
    MaxScriptSize   \* maxScriptSize, the bound CheckHeader compares with

ASSUME CodecAssumption ==
    /\ MaxLen \in Nat
    /\ BufSize \in Nat \ {0}
    /\ MaxScriptSize \in Nat

NL == 10
Digit(d) == 48 + d
IsDigit(b) == b \in 48..57

(* The decimal digits of n, most significant first.                       *)
DigitsOf[n \in 0..MaxLen] ==
    IF n < 10 THEN << Digit(n) >>
              ELSE DigitsOf[n \div 10] \o << Digit(n % 10) >>

(* The payload of length n: n distinct bytes that are not line feeds.     *)
Payload(n) == [i \in 1..n |-> 96 + i]

(* The master's encoding of a payload (the sender is not under src/).      *)
Encode(s) == DigitsOf[Len(s)] \o << NL >> \o s

(* boost::lexical_cast<unsigned int>: the value of a nonempty string of   *)
(* digits; any other string throws bad_lexical_cast.                       *)
CastOK(str) == str # << >> /\ \A i \in DOMAIN str : IsDigit(str[i])
CastValue(str) == FoldLeft(LAMBDA acc, b : 10 * acc + (b - 48), 0, str)

(* How boost::property_tree::read_json sees a request string: leading     *)
(* whitespace (line feeds here) is skipped.                                *)
Parsed(r) ==
    LET lead == {k \in 0..Len(r) : \A i \in 1..k : r[i] = NL}
    IN  SubSeq(r, Max(lead) + 1, Len(r))

VARIABLES
    frame,          \* the bytes the master wrote on this connection
    sent,           \* how many of them the worker has read so far
    phase,          \* "first": FirstRead pending, "more": HandleRead pending,
                    \* "closed": the session answered an error and stopped
    request_, requestLength_, bytesRead_, headerOffset_,  \* Request members
    reads,          \* reads that went into the current request (history)
    handled         \* the requests handed to action_.HandleRequest, with the
                    \* reads they took and the bytes read by then (history)

vars == << frame, sent, phase, request_, requestLength_, bytesRead_,
           headerOffset_, reads, handled >>

(* The next read of k bytes off the socket (no more than there are).       *)
Chunk(k) == SubSeq(frame, sent + 1, Min({sent + k, Len(frame)}))
ReadSizesWholeBuffer == {BufSize}
ReadSizes == 1..Min({BufSize, Len(frame) - sent})

(* std::find of '\n' in [begin, begin + bytes): the offset of the first    *)
(* line feed, or bytes when there is none.                                 *)
FindNL(buf) ==
    LET nl == {i \in DOMAIN buf : buf[i] = NL}
    IN  IF nl = {} THEN Len(buf) ELSE Min(nl) - 1

(* ParseRequestHeader: the iterator find returns is compared with          *)
(* buf.end(), the end of the whole 1024-byte buffer, so "not found"        *)
(* is only recognised when the read filled the buffer.                     *)
HeaderFound(buf) == FindNL(buf) # BufSize
HeaderOffsetZero(buf) == 0
HeaderOffset(buf) == IF HeaderFound(buf) THEN FindNL(buf) ELSE 0
HeaderLength(buf) ==
    LET str == SubSeq(buf, 1, FindNL(buf))
    IN  IF HeaderFound(buf) /\ CastOK(str) THEN CastValue(str)
                                            ELSE requestLength_

(* Request::OnRead then the completion test of Session::HandleRead, with   *)
(* the header offset off and the request length len in force; on          *)
(* completion HandleRequest hands the request over, Resets the Request     *)
(* and Starts a new FirstRead.                                             *)
ReadBody(buf, off, len) ==
    LET req  == request_ \o SubSeq(buf, off + 1, Len(buf))
        got  == bytesRead_ + (Len(buf) - off)
    IN  IF got >= len
        THEN /\ handled' = Append(handled, [req |-> req, reads |-> reads + 1,
                                               at |-> sent'])
             /\ request_' = << >>
             /\ requestLength_' = 0 /\ bytesRead_' = 0 /\ headerOffset_' = 0
             /\ reads' = 0
             /\ phase' = "first"
        ELSE /\ request_' = req /\ bytesRead_' = got
             /\ requestLength_' = len /\ headerOffset_' = off
             /\ reads' = reads + 1
             /\ phase' = "more"
             /\ UNCHANGED handled

(* Session::FirstRead when CheckHeader rejects the header offset: the     *)
(* error is answered and the session reads no more.                        *)
FirstReadBadHeader ==
    /\ phase = "first"
    /\ \E k \in ReadSizes :
         /\ HeaderOffset(Chunk(k)) > MaxScriptSize
         /\ sent' = sent + k
    /\ phase' = "closed"
    /\ UNCHANGED << frame, request_, requestLength_, bytesRead_,
                    headerOffset_, reads, handled >>

(* Session::FirstRead: OnFirstRead parses the header, then the same       *)
(* buffer goes through HandleRead.                                         *)
FirstRead ==
    /\ phase = "first"
    /\ \E k \in ReadSizes :
         LET buf == Chunk(k) IN
         /\ HeaderOffset(buf) <= MaxScriptSize
         /\ sent' = sent + k
         /\ ReadBody(buf, HeaderOffset(buf), HeaderLength(buf))
    /\ UNCHANGED frame

(* Session::HandleRead for every later read: OnRead skips headerOffset_   *)
(* bytes of this buffer too, since nothing resets it between reads.        *)
HandleRead ==
    /\ phase = "more"
    /\ \E k \in ReadSizes :
         /\ sent' = sent + k
         /\ ReadBody(Chunk(k), headerOffset_, requestLength_)
    /\ UNCHANGED frame

Init ==
    /\ frame \in {Encode(Payload(n)) : n \in 0..MaxLen}
    /\ sent = 0
    /\ phase = "first"
    /\ request_ = << >>
    /\ requestLength_ = 0 /\ bytesRead_ = 0 /\ headerOffset_ = 0
    /\ reads = 0
    /\ handled = << >>

Next == FirstReadBadHeader \/ FirstRead \/ HandleRead

Spec == Init /\ [][Next]_vars

(* The payload the master meant to send on this connection.               *)
Sent == LET nl == {i \in DOMAIN frame : frame[i] = NL}
        IN  SubSeq(frame, Min(nl) + 1, Len(frame))

-----------------------------------------------------------------------------
(* Every variable holds a value of its intended type.                      *)
TypeOK ==
    /\ sent \in 0..Len(frame)
    /\ phase \in {"first", "more", "closed"}
    /\ request_ \in Seq(Nat)
    /\ requestLength_ \in Nat
    /\ bytesRead_ \in Int
    /\ headerOffset_ \in 0..BufSize
    /\ reads \in Nat
    /\ handled \in Seq([req : Seq(Nat), reads : Nat, at : Nat])

(* When the whole frame came in one read, the request FirstRead hands to  *)
(* the action parses (leading whitespace skipped, as read_json does) to    *)
(* exactly the payload the master sent: OnRead copies from the header      *)
(* offset and IsReadCompleted fires on that same read.                     *)
SingleReadRoundTrip ==
    (Len(handled) >= 1 /\ handled[1].reads = 1 /\ handled[1].at = Len(frame))
        => Parsed(handled[1].req) = Sent

(* Spec invariant 7, decode(encode(s)) = s: the first request handed to   *)
(* the action on a connection parses to the payload the master sent,      *)
(* however TCP cut the frame into reads.                                   *)
RoundTrip ==
    Len(handled) >= 1 => Parsed(handled[1].req) = Sent

=============================================================================
