------------------------------- MODULE Endpoint -------------------------------
(***************************************************************************)
(* cbom_compass/scanners/ssh.py and tls.py: one endpoint, probed.          *)
(*                                                                         *)
(* What an SSH server sends is a sequence of tokens, its greeting (lines   *)
(* before the identification string, and that) and its KEXINIT packet, and *)
(* a call of recv() returns some of those that have arrived.  `cut' tokens *)
(* come through before the server closes, resets or falls silent.  An      *)
(* eager server sends its packet behind its greeting; the others wait for  *)
(* the scanner's.                                                          *)
(***************************************************************************)
EXTENDS FiniteSets, SequencesExt, SSHNames

CONSTANTS
  MaxLines,       \* lines read before the banner is given up
  MaxPacket,      \* MAX_PACKET, of the banner and of the packet
  RecvSize,       \* what one recv() of the banner returns at most
  UsedLists       \* the positions of the name-lists that are inventoried

ASSUME EndpointAssumption == {MaxLines, MaxPacket, RecvSize} \subseteq Nat

(* body[: len(body) - padding_length]: an end below zero counts from the   *)
(* back.                                                                   *)
Unpadded(tokens, padding) ==
  SubSeq(tokens, 1, IF padding <= Len(tokens) THEN Len(tokens) - padding
                    ELSE 2 * Len(tokens) - padding)

NewLine == [is |-> "newline"]

-----------------------------------------------------------------------------
(* What there may be at a target.                                          *)

(* A packet: its length, that of its padding, and the message they leave.  *)
Message(packet) == Unpadded(SubSeq(packet, 3, Len(packet)), packet[2].n)

(* `lists' are the name-lists up to the first that is not whole.           *)
HasLists(tokens, lists) ==
  /\ lists \in Seq(Range(lists)) /\ Len(lists) <= Len(tokens)
  /\ \A i \in DOMAIN lists : tokens[i] = [is |-> "names", list |-> lists[i]]
  /\ Len(lists) < Len(tokens) => tokens[Len(lists) + 1].is # "names"

(* Lines, of which the one from token i on is the first that identifies    *)
(* the server, and the last.                                               *)
Identifies(hello, i) ==
  /\ i \in DOMAIN hello /\ hello[i].is = "ssh"
  /\ i > 1 => hello[i - 1] = NewLine
  /\ \A j \in 1..(i - 1) : hello[j].is # "ssh"
  /\ \A j \in i..(Len(hello) - 1) : hello[j] # NewLine
  /\ hello[Len(hello)] = NewLine

LinesBefore(hello, i) == {j \in 1..(i - 1) : hello[j] = NewLine}

(* A server that keeps to the protocol and the limits.                     *)
Proper(h) ==
  /\ Len(h.hello) <= MaxPacket
  /\ \E i \in DOMAIN h.hello :
       Identifies(h.hello, i) /\ Cardinality(LinesBefore(h.hello, i)) < MaxLines
  /\ h.packet[1].is = "length" /\ h.packet[1].n <= MaxPacket
  /\ Message(h.packet) # <<>> /\ Message(h.packet)[1] = [is |-> "kexinit"]

(* Only a packet begins with a length, which is its own; and what follows  *)
(* in a KEXINIT are name-lists.                                            *)
IsHost(h) ==
  /\ h.kind \in {"ssh", "tls"}
  /\ h.kind = "ssh" =>
       /\ h.hello \in Seq(Range(h.hello)) /\ h.packet \in Seq(Range(h.packet)) /\ h.cut \in Nat
       /\ \A i \in DOMAIN h.hello : h.hello[i].is # "length"
       /\ \A i \in DOMAIN h.packet : h.packet[i].is = "length" => i = 1
       /\ h.packet # <<>> /\ h.packet[1].is = "length" =>
            /\ h.packet[1].n = Len(h.packet) - 1 /\ Len(h.packet) >= 2
            /\ h.packet[2].is = "padding" /\ h.packet[2].n \in Nat
            /\ Message(h.packet) # <<>> /\ Message(h.packet)[1] = [is |-> "kexinit"] =>
                 HasLists(Tail(Message(h.packet)), h.lists)
       /\ h.proper => Proper(h)

VARIABLES
  estep,          \* where the probe is
  host,           \* the target and what is there
  taken,          \* how many of the server's tokens recv() has returned
  buffer,         \* those that are not handled
  lines,          \* lines read before the banner
  frame,          \* of the packet: what is to come, and how much is padding
  found,          \* the algorithms reported
  failed,         \* the target is named by an error
  probed          \* it was connected to

evars == <<estep, host, taken, buffer, lines, frame, found, failed, probed>>

NoHost == [kind |-> "none"]
NoFrame == [body |-> 0, padding |-> 0]

EndpointInit ==
  /\ estep = "idle" /\ host = NoHost
  /\ taken = 0 /\ buffer = <<>> /\ lines = 0 /\ frame = NoFrame
  /\ found = {} /\ failed = FALSE /\ probed = FALSE

StartHost(at_step, h) ==
  /\ estep' = at_step /\ host' = h
  /\ taken' = 0 /\ buffer' = <<>> /\ lines' = 0 /\ frame' = NoFrame
  /\ found' = {} /\ failed' = FALSE /\ probed' = FALSE

BeginHost(h) == StartHost("port", h)
EndpointReset == StartHost("idle", NoHost)

Wire == host.hello \o host.packet

SmallerOf(a, b) == IF a < b THEN a ELSE b

(* What has been sent, given what the server has heard.                    *)
Arrived ==
  SmallerOf(host.cut,
            IF host.eager \/ estep \in {"header", "body"} THEN Len(Wire) ELSE Len(host.hello))

FailHost ==
  /\ estep' = "done" /\ failed' = TRUE
  /\ UNCHANGED <<host, taken, buffer, lines, frame, found, probed>>

-----------------------------------------------------------------------------
(* int() of the port: ssh.py names it, tls.py does not catch it.           *)
BadPort ==
  /\ estep = "port" /\ ~host.wellNamed
  /\ IF host.kind = "ssh" THEN FailHost
     ELSE /\ estep' = "crashed"
          /\ UNCHANGED <<host, taken, buffer, lines, frame, found, failed, probed>>

RefuseHost ==
  /\ estep = "port" /\ host.wellNamed /\ ~host.allowed
  /\ FailHost

ConnectHost ==
  /\ estep = "port" /\ host.wellNamed /\ host.allowed
  /\ probed' = TRUE
  /\ IF host.up
     THEN /\ estep' = IF host.kind = "ssh" THEN "banner" ELSE "handshake"
          /\ failed' = FALSE
     ELSE estep' = "done" /\ failed' = TRUE
  /\ UNCHANGED <<host, taken, buffer, lines, frame, found>>

(* recv(): some of what has arrived, at most n.                            *)
Receive(n) ==
  \E k \in 1..SmallerOf(n, Arrived - taken) :
    /\ buffer' = buffer \o SubSeq(Wire, taken + 1, taken + k)
    /\ taken' = taken + k

HasLine == NewLine \in Range(buffer)

(* Not the code: an empty read is not noticed, and the loop reads again.   *)
ReadAgain ==
  /\ \/ estep = "banner" /\ ~HasLine
     \/ estep = "header" /\ Len(buffer) < 2
     \/ estep = "body" /\ Len(buffer) < frame.body
  /\ taken = Arrived
  /\ UNCHANGED <<host, estep, taken, buffer, lines, frame, found, failed, probed>>

(* It returns nothing, or the ten seconds are over.                        *)
PeerSilent ==
  /\ \/ estep = "banner" /\ ~HasLine
     \/ estep = "header" /\ Len(buffer) < 2
     \/ estep = "body" /\ Len(buffer) < frame.body
  /\ taken = Arrived
  /\ FailHost

RecvBanner ==
  /\ estep = "banner" /\ ~HasLine /\ taken < Arrived
  /\ Receive(RecvSize)
  /\ IF Len(buffer') > MaxPacket
     THEN estep' = "done" /\ failed' = TRUE
     ELSE UNCHANGED <<estep, failed>>
  /\ UNCHANGED <<host, lines, frame, found, probed>>

(* The first line in the buffer.  At the identification string the banner  *)
(* is answered, and what was received behind it goes with the buffer.      *)
TakeLine ==
  /\ estep = "banner" /\ HasLine
  /\ LET end == CHOOSE i \in DOMAIN buffer :
                  buffer[i] = NewLine /\ \A j \in 1..(i - 1) : buffer[j] # NewLine
     IN
     CASE buffer[1].is = "ssh" ->
            /\ estep' = "header" /\ buffer' = <<>>
            /\ UNCHANGED <<lines, failed>>
       [] buffer[1].is # "ssh" /\ lines + 1 < MaxLines ->
            /\ lines' = lines + 1
            /\ buffer' = SubSeq(buffer, end + 1, Len(buffer))
            /\ UNCHANGED <<estep, failed>>
       [] OTHER ->
            /\ estep' = "done" /\ failed' = TRUE
            /\ UNCHANGED <<lines, buffer>>
  /\ UNCHANGED <<host, taken, frame, found, probed>>

(* Not the code: one recv() is taken to return the header.                 *)
RecvHeaderOnce ==
  /\ estep = "header" /\ Len(buffer) < 2 /\ taken < Arrived
  /\ IF buffer = <<>> THEN Receive(2) /\ UNCHANGED <<estep, failed>>
     ELSE estep' = "done" /\ failed' = TRUE /\ UNCHANGED <<taken, buffer>>
  /\ UNCHANGED <<host, lines, frame, found, probed>>

(* The length of the packet and of its padding: two tokens.                *)
RecvHeader ==
  /\ estep = "header" /\ Len(buffer) < 2 /\ taken < Arrived
  /\ Receive(2 - Len(buffer))
  /\ UNCHANGED <<estep, failed, host, lines, frame, found, probed>>

(* Where the stream is not at a packet, the length is that of other bytes. *)
ReadLength ==
  /\ estep = "header" /\ Len(buffer) = 2
  /\ IF /\ buffer[1].is = "length" /\ buffer[1].n \in 1..MaxPacket
        /\ buffer[2].is = "padding"
     THEN /\ estep' = "body"
          /\ frame' = [body |-> buffer[1].n - 1, padding |-> buffer[2].n]
          /\ buffer' = <<>>
          /\ UNCHANGED <<host, taken, lines, found, failed, probed>>
     ELSE FailHost

RecvBody ==
  /\ estep = "body" /\ Len(buffer) < frame.body /\ taken < Arrived
  /\ Receive(frame.body - Len(buffer))
  /\ UNCHANGED <<estep, failed, host, lines, frame, found, probed>>

(* parse_kexinit(): the message type, and the name-lists up to the first   *)
(* that is not whole.                                                      *)
Payload == Unpadded(buffer, frame.padding)

NameLists(tokens) ==
  LET whole == {n \in 0..Len(tokens) : \A i \in 1..n : tokens[i].is = "names"}
  IN SubSeq(tokens, 1, CHOOSE n \in whole : \A m \in whole : m <= n)

(* _assets(): the halves of every name it has a row for, each once.        *)
Assets(lists) ==
  UNION {HalvesOf(x) : x \in UNION {Range(lists[i].list) : i \in DOMAIN lists \cap UsedLists}}

ParsePacket ==
  /\ estep = "body" /\ Len(buffer) = frame.body
  /\ IF Payload = <<>> \/ Payload[1] # [is |-> "kexinit"]
     THEN FailHost
     ELSE /\ estep' = "done"
          /\ found' = Assets(NameLists(Tail(Payload)))
          /\ UNCHANGED <<host, taken, buffer, lines, frame, failed, probed>>

(* The TLS handshake: what was negotiated is reported (the version, the    *)
(* cipher and key exchange the suite's name tells, the certificate), or    *)
(* the target is named.                                                    *)
Handshake ==
  /\ estep = "handshake"
  /\ estep' = "done"
  /\ IF host.answers THEN found' = host.negotiated /\ UNCHANGED failed
     ELSE failed' = TRUE /\ UNCHANGED found
  /\ UNCHANGED <<host, taken, buffer, lines, frame, probed>>

EndpointNext ==
  \/ BadPort \/ RefuseHost \/ ConnectHost
  \/ PeerSilent \/ RecvBanner \/ TakeLine \/ RecvHeader \/ ReadLength \/ RecvBody
  \/ ParsePacket \/ Handshake

-----------------------------------------------------------------------------
(* A server that sends all of a packet within the limits, once it has been *)
(* greeted.                                                                *)
Speaks(h) ==
  /\ h.wellNamed /\ h.allowed /\ h.up
  /\ IF h.kind = "tls" THEN h.answers
     ELSE /\ ~h.eager /\ h.proper
          /\ h.cut = Len(h.hello) + Len(h.packet)

(* What the names a server sent stand for, half by half.                   *)
Offered(h) ==
  IF h.kind = "tls" THEN h.negotiated
  ELSE LET names == UNION {Range(h.lists[i]) : i \in DOMAIN h.lists \cap UsedLists} IN
       {[algorithm |-> Table[x][1], partner |-> None] :
          x \in {y \in names \cap DOMAIN Table : Len(Table[y]) = 1}}
       \cup
       UNION {{[algorithm |-> Table[x][1], partner |-> Table[x][2]],
               [algorithm |-> Table[x][2], partner |-> Table[x][1]]} :
                x \in {y \in names \cap DOMAIN Table : Len(Table[y]) = 2}}

(* ssh.py:197-352: in whatever pieces the answer arrives, a server that    *)
(* waits to be greeted is reported with exactly what it offers, a hybrid's *)
(* classical half apart from the same algorithm on its own; any other end  *)
(* names the target and reports nothing.                                   *)
EndpointAccounted ==
  estep = "done" =>
    /\ failed => found = {}
    /\ ~failed => found = Offered(host)
    /\ Speaks(host) => ~failed
=============================================================================
