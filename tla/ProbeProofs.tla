---------------------------- MODULE ProbeProofs ----------------------------
(***************************************************************************)
(* Proofs about the verdicts of the probes, for remotes that send any      *)
(* number of messages.  Every kind of probe has an invariant of its own.   *)
(***************************************************************************)
EXTENDS ProbeAttempts, TLAPS

-----------------------------------------------------------------------------
\* discv4_ping: while nothing is lost, the next move of the endpoint proof is
\* always somebody's: a datagram is on its way, owed, or waits to be read.

Node == [heard : SUBSET {"ping", "pong"}, owes : SUBSET {"ping", "pong"},
         strict : BOOLEAN, lost : BOOLEAN, sent : Nat]

Discv4Types ==
  /\ up \in Seq({"ping", "pong"})
  /\ down \in Seq(Discv4!Strays \cup {"ping", "pong"})
  /\ remote \in Node

SomebodyMoves ==
  \/ up # <<>>
  \/ remote.owes # {}
  \/ \E i \in 1..Len(down) : down[i] \in {"ping", "pong"}

Discv4Inv ==
  /\ Discv4Types
  /\ pc = "receiving" /\ ~remote.lost => SomebodyMoves

LEMMA Discv4Init == Discv4!Init => Discv4Inv
<1> SUFFICES ASSUME Discv4!Init PROVE Discv4Inv
  OBVIOUS
<1>1. remote \in Node
  <2>1. PICK strict \in BOOLEAN :
          remote = [heard |-> {}, owes |-> {}, strict |-> strict, lost |-> FALSE, sent |-> 0]
    BY DEF Discv4!Init
  <2> QED
    BY <2>1 DEF Node
<1> QED
  BY <1>1 DEF Discv4!Init, Discv4Inv, Discv4Types

LEMMA Discv4Step ==
  ASSUME Discv4Inv, Discv4!Probe \/ Discv4!Network
  PROVE  Discv4Inv'
<1> USE DEF Discv4Inv, Discv4Types
<1>1. CASE Discv4!Resolve \/ Discv4!ResolveFails \/ Discv4!BindFails \/ Discv4!SendFails
  BY <1>1 DEF Discv4!Resolve, Discv4!ResolveFails, Discv4!BindFails, Discv4!SendFails,
              Discv4!Return
<1>2. CASE Discv4!SendPing
  BY <1>2 DEF Discv4!SendPing, SomebodyMoves
<1>3. CASE Discv4!ReceivePong \/ Discv4!ReceiveFails \/ Discv4!Timeout
  BY <1>3 DEF Discv4!ReceivePong, Discv4!ReceiveFails, Discv4!Timeout, Discv4!Return
<1>4. CASE Discv4!ReceivePing
  <2>1. down # <<>> /\ down' = Tail(down)
    BY <1>4 DEF Discv4!ReceivePing, Discv4!Receives
  <2>2. down' \in Seq(Discv4!Strays \cup {"ping", "pong"})
    BY <2>1
  <2>3. CASE up' = Append(up, "pong") /\ UNCHANGED remote
    <3>1. up' \in Seq({"ping", "pong"}) /\ up' # <<>>
      BY <2>3
    <3> QED
      BY <2>2, <2>3, <3>1 DEF SomebodyMoves
  <2>4. CASE up' = up /\ remote' = [remote EXCEPT !.lost = TRUE]
    BY <2>2, <2>4 DEF Node
  <2> QED
    BY <1>4, <2>3, <2>4 DEF Discv4!ReceivePing
<1>5. CASE Discv4!ReceiveForeignPing \/ Discv4!ReceiveOther
  <2>1. /\ down # <<>> /\ down' = Tail(down) /\ down[1] \notin {"ping", "pong"}
        /\ UNCHANGED <<pc, up, remote>>
    BY <1>5 DEF Discv4!ReceiveForeignPing, Discv4!ReceiveOther, Discv4!Receives
  <2>2. down' \in Seq(Discv4!Strays \cup {"ping", "pong"})
    BY <2>1
  <2>3. \A i \in 1..Len(down) : down[i] \in {"ping", "pong"} =>
          i - 1 \in 1..Len(down') /\ down'[i - 1] = down[i]
    BY <2>1
  <2> QED
    BY <2>1, <2>2, <2>3 DEF SomebodyMoves
<1>6. CASE Discv4!NodeReceives
  <2>1. PICK heard \in SUBSET {"ping", "pong"}, owes \in {{"ping"}, {"pong"}} :
          remote' = [remote EXCEPT !.heard = heard, !.owes = @ \cup owes]
    <3> DEFINE heard == remote.heard \cup {Head(up)}
               owes  == IF remote.strict /\ "pong" \notin heard THEN {"ping"} ELSE {"pong"}
    <3>1. heard \in SUBSET {"ping", "pong"} /\ owes \in {{"ping"}, {"pong"}}
      BY <1>6 DEF Discv4!NodeReceives, Node
    <3>2. remote' = [remote EXCEPT !.heard = heard, !.owes = @ \cup owes]
      BY <1>6 DEF Discv4!NodeReceives
    <3> HIDE DEF heard, owes
    <3> QED
      BY <3>1, <3>2
  <2>2. remote' \in Node /\ remote'.owes # {}
    BY <2>1 DEF Node
  <2> QED
    BY <1>6, <2>2 DEF Discv4!NodeReceives, SomebodyMoves
<1>7. ASSUME NEW p \in remote.owes, Discv4!NodeSends(p)
      PROVE  Discv4Inv'
  <2>1. /\ p \in {"ping", "pong"}
        /\ down' = Append(down, p) /\ down'[Len(down')] = p /\ Len(down') \in 1..Len(down')
        /\ UNCHANGED <<pc, up>>
    BY <1>7 DEF Discv4!NodeSends, Node
  <2>2. remote' \in Node
    BY <1>7 DEF Discv4!NodeSends, Node
  <2> QED
    BY <2>1, <2>2 DEF SomebodyMoves
<1>8. CASE Discv4!Lose
  <2>1. PICK owes \in SUBSET {"ping", "pong"} :
          remote' = [remote EXCEPT !.owes = owes, !.lost = TRUE]
    <3>1. CASE remote' = [remote EXCEPT !.lost = TRUE]
      <4>1. remote' = [remote EXCEPT !.owes = remote.owes, !.lost = TRUE]
        BY <3>1 DEF Node
      <4> QED
        BY <4>1 DEF Node
    <3>2. CASE \E p \in remote.owes : remote' = [remote EXCEPT !.owes = @ \ {p}, !.lost = TRUE]
      BY <3>2 DEF Node
    <3> QED
      BY <1>8, <3>1, <3>2 DEF Discv4!Lose
  <2>2. remote'.lost
    BY <2>1 DEF Node
  <2>3. remote' \in Node
    BY <2>1 DEF Node
  <2>4. UNCHANGED <<pc, down>> /\ (up' = up \/ (up # <<>> /\ up' = Tail(up)))
    BY <1>8 DEF Discv4!Lose
  <2>5. up' \in Seq({"ping", "pong"})
    <3>1. up # <<>> => Tail(up) \in Seq({"ping", "pong"})
      OBVIOUS
    <3> QED
      BY <2>4, <3>1
  <2> QED
    BY <2>2, <2>3, <2>4, <2>5
<1>9. CASE Discv4!Stray
  <2>1. PICK p \in Discv4!Strays : down' = Append(down, p)
    BY <1>9 DEF Discv4!Stray
  <2>2. /\ down' \in Seq(Discv4!Strays \cup {"ping", "pong"})
        /\ \A i \in 1..Len(down) : i \in 1..Len(down') /\ down'[i] = down[i]
    BY <2>1
  <2>3. remote' = [remote EXCEPT !.sent = @ + 1]
    BY <1>9 DEF Discv4!Stray
  <2>4. remote'.owes = remote.owes /\ remote'.lost = remote.lost
    BY <2>3 DEF Node
  <2>5. remote.sent + 1 \in Nat
    BY DEF Node
  <2>6. remote' \in Node
    BY <2>3, <2>5 DEF Node
  <2> QED
    BY <1>9, <2>2, <2>4, <2>6 DEF Discv4!Stray, SomebodyMoves
<1> QED
  BY <1>1, <1>2, <1>3, <1>4, <1>5, <1>6, <1>7, <1>8, <1>9 DEF Discv4!Probe, Discv4!Network

-----------------------------------------------------------------------------
\* What the probes over TCP share.  The remote has said what the probe has
\* read and what is still there to be read, in this order; an end of the
\* stream or a reset that can be read has happened.

Socket == INSTANCE Attempt

Ends == {"fin", "rst"}
States == {"listening", "open", "fin", "rst", "cut"}
Sent == {"auth", "header", "noise", "request"}

SocketTypes(messages) ==
  /\ up \in Seq(Sent)
  /\ down \in Seq(messages \cup Ends)
  /\ remote \in [heard : SUBSET Sent, said : Seq(messages), state : States]

Unread(read, messages) ==
  /\ \A i \in 1..Len(down) :
       /\ down[i] \in messages => read + i \in 1..Len(remote.said) /\ down[i] = remote.said[read + i]
       /\ down[i] = "fin" => remote.state \in {"fin", "rst", "cut"}
       /\ down[i] = "rst" => remote.state = "rst"
  /\ remote.state = "open" => read + Len(down) = Len(remote.said)
  /\ remote.state = "listening" => remote.said = <<>> /\ down = <<>>

Stream(read, messages) == SocketTypes(messages) /\ Unread(read, messages)

\* The remote side goes on, and what it said before stays said.
LEMMA RemoteStep ==
  ASSUME NEW messages, messages \cap Ends = {}, NEW read \in Nat,
         Stream(read, messages), Socket!TcpRemote(messages)
  PROVE  /\ Stream(read, messages)'
         /\ \A i \in 1..Len(remote.said) :
              i \in 1..Len(remote.said') /\ remote.said'[i] = remote.said[i]
         /\ remote.state = "listening" => remote'.state = "listening"
         /\ UNCHANGED <<pc, result>>
<1> USE DEF Stream, SocketTypes, Unread, Ends, States, Socket!TcpRemote
<1>1. CASE Socket!Arrive
  BY <1>1 DEF Socket!Arrive
<1>2. ASSUME NEW m \in messages, Socket!Say(m)
      PROVE  /\ Stream(read, messages)'
             /\ \A i \in 1..Len(remote.said) :
                  i \in 1..Len(remote.said') /\ remote.said'[i] = remote.said[i]
             /\ remote.state # "listening"
             /\ UNCHANGED <<pc, result>>
  <2>1. /\ remote.state = "open" /\ remote'.state = "open"
        /\ remote'.said = Append(remote.said, m)
        /\ down' = Append(down, m)
        /\ remote'.heard = remote.heard
        /\ UNCHANGED <<pc, up, result>>
    BY <1>2 DEF Socket!Say
  <2>2. SocketTypes(messages)'
    <3>1. down' \in Seq(messages \cup Ends) /\ Append(remote.said, m) \in Seq(messages)
      BY <2>1
    <3>2. remote' = [remote EXCEPT !.said = Append(remote.said, m)]
      BY <1>2 DEF Socket!Say
    <3> QED
      BY <2>1, <3>1, <3>2
  <2>3. \A i \in 1..Len(remote.said) :
          i \in 1..Len(remote.said') /\ remote.said'[i] = remote.said[i]
    BY <2>1
  <2>4. \A i \in 1..Len(down) : i \in 1..Len(down') /\ down'[i] = down[i]
    BY <2>1
  <2>5. /\ Len(down') = Len(down) + 1 /\ down'[Len(down')] = m
        /\ Len(remote'.said) = Len(remote.said) + 1 /\ remote'.said[Len(remote'.said)] = m
    BY <2>1
  <2>6. Unread(read, messages)'
    BY <2>1, <2>3, <2>4, <2>5
  <2> QED
    BY <2>1, <2>2, <2>3, <2>6
<1>3. CASE Socket!HangUp \/ Socket!Reset
  <2>1. PICK last \in Ends :
          /\ remote' = [remote EXCEPT !.state = last]
          /\ remote.state \in {"open", "fin"}
          /\ down' = Append(down, last) \/ down' = <<last>>
          /\ UNCHANGED <<pc, up, result>>
          /\ remote.state = "fin" => last = "rst"
    BY <1>3 DEF Socket!HangUp, Socket!Reset
  <2>2. remote'.state = last /\ remote'.said = remote.said /\ remote'.heard = remote.heard
    BY <2>1
  <2>3. SocketTypes(messages)'
    <3>1. last \in messages \cup Ends
      OBVIOUS
    <3>2. <<last>> \in Seq(messages \cup Ends) /\ Append(down, last) \in Seq(messages \cup Ends)
      BY <3>1
    <3> QED
      BY <2>1, <3>2
  <2>4. CASE down' = <<last>>
    <3>1. Len(down') = 1 /\ down'[1] = last /\ \A i \in 1..1 : i = 1
      BY <2>4
    <3>2. Unread(read, messages)'
      BY <2>2, <3>1
    <3> QED
      BY <2>1, <2>2, <2>3, <3>2
  <2>5. CASE down' = Append(down, last)
    <3>1. /\ Len(down') = Len(down) + 1 /\ down'[Len(down) + 1] = last
          /\ \A i \in 1..Len(down) : i \in 1..Len(down') /\ down'[i] = down[i]
          /\ \A i \in 1..Len(down') : i \in 1..Len(down) \/ i = Len(down) + 1
      BY <2>5
    <3>2. \A i \in 1..Len(down) : down[i] # "rst"
      BY <2>1
    <3>3. last \notin messages
      OBVIOUS
    <3>4. Unread(read, messages)'
      BY <2>1, <2>2, <3>1, <3>2, <3>3
    <3> QED
      BY <2>1, <2>2, <2>3, <3>4
  <2> QED
    BY <2>1, <2>4, <2>5
<1>4. CASE Socket!Cut
  BY <1>4 DEF Socket!Cut
<1> QED
  BY <1>1, <1>2, <1>3, <1>4

\* What the steps of a probe do to its stream.
LEMMA ConnectStep ==
  ASSUME NEW messages, Stream(0, messages), remote.state = "listening",
         Socket!Established, UNCHANGED <<up, down>>
  PROVE  Stream(0, messages)'
BY DEF Stream, SocketTypes, Unread, States, Socket!Established

LEMMA KeepStep ==
  ASSUME NEW messages, NEW read, Stream(read, messages), UNCHANGED <<up, down, remote>>
  PROVE  Stream(read, messages)'
BY DEF Stream, SocketTypes, Unread

LEMMA WriteStep ==
  ASSUME NEW messages, NEW read, Stream(read, messages),
         NEW m \in Sent, up' = Append(up, m), UNCHANGED <<down, remote>>
  PROVE  Stream(read, messages)'
BY DEF Stream, SocketTypes, Unread

LEMMA ReadStep ==
  ASSUME NEW messages, messages \cap Ends = {}, NEW read \in Nat, Stream(read, messages),
         down # <<>>, Head(down) \in messages, down' = Tail(down), UNCHANGED <<up, remote>>
  PROVE  Stream(read + 1, messages)'
<1> USE DEF Stream, SocketTypes, Unread
<1>1. SocketTypes(messages)' /\ Len(down') = Len(down) - 1
  OBVIOUS
<1>2. \A i \in 1..Len(down') : i + 1 \in 1..Len(down) /\ down'[i] = down[i + 1]
  OBVIOUS
<1>3. \A i \in Nat : read + (i + 1) = (read + 1) + i
  OBVIOUS
<1>4. ASSUME NEW i \in 1..Len(down')
      PROVE  /\ down'[i] \in messages => /\ (read + 1) + i \in 1..Len(remote.said)
                                         /\ down'[i] = remote.said[(read + 1) + i]
             /\ down'[i] = "fin" => remote.state \in {"fin", "rst", "cut"}
             /\ down'[i] = "rst" => remote.state = "rst"
  BY <1>2, <1>3
<1>5. remote.state # "listening" /\ (remote.state = "open" => (read + 1) + Len(down') = Len(remote.said))
  BY <1>1
<1> QED
  BY <1>1, <1>4, <1>5

\* What is read is what the remote said next.
LEMMA NextMessage ==
  ASSUME NEW messages, NEW read, Stream(read, messages), down # <<>>
  PROVE  /\ Head(down) \in messages =>
              read + 1 \in 1..Len(remote.said) /\ Head(down) = remote.said[read + 1]
         /\ Head(down) \in messages \cup Ends
         /\ Head(down) = "fin" => remote.state \in {"fin", "rst", "cut"}
         /\ Head(down) = "rst" => remote.state = "rst"
<1>1. Head(down) = down[1] /\ 1 \in 1..Len(down) /\ down[1] \in messages \cup Ends
  BY DEF Stream, SocketTypes
<1> QED
  BY <1>1 DEF Stream, Unread

-----------------------------------------------------------------------------
\* rlpx_handshake: whatever is there to be read, the remote has done.

RlpxInv ==
  /\ Stream(0, Rlpx!Messages)
  /\ pc \in {"preparing", "connecting"} => remote.state = "listening"
  /\ pc # "done" => ~result.ok
  /\ Rlpx!PassIsAReaction

LEMMA RlpxInit == Rlpx!Init => RlpxInv
  BY DEF Rlpx!Init, Rlpx!TcpInit, Rlpx!NoResult, RlpxInv, Rlpx!PassIsAReaction,
         Stream, SocketTypes, Unread, States

LEMMA RlpxStep ==
  ASSUME RlpxInv, Rlpx!Probe \/ Rlpx!TcpRemote(Rlpx!Messages)
  PROVE  RlpxInv'
<1> USE DEF RlpxInv, Rlpx!Messages, Rlpx!Return, Rlpx!PassIsAReaction
<1>1. CASE Rlpx!Connect
  BY <1>1, ConnectStep DEF Rlpx!Connect, Rlpx!Established, Socket!Established
<1>2. CASE Rlpx!WriteAuth
  BY <1>2, WriteStep DEF Rlpx!WriteAuth, Rlpx!Write, Sent
<1>3. CASE Rlpx!Read
  <2>1. /\ down # <<>> /\ UNCHANGED <<up, down, remote>>
        /\ pc' = "done"
        /\ result' = [ok |-> TRUE, rtt |-> TRUE, meta |-> Rlpx!Reaction(Head(down))]
    BY <1>3 DEF Rlpx!Read
  <2>2. Stream(0, {"reply"})'
    BY <2>1, KeepStep
  <2>3. /\ Head(down) \in {"reply", "fin", "rst"}
        /\ Head(down) = "reply" => remote.said # <<>>
        /\ Head(down) = "fin" => remote.state \in {"fin", "rst", "cut"}
        /\ Head(down) = "rst" => remote.state = "rst"
    BY <2>1, NextMessage, 0 + 1 = 1 DEF Ends, Stream, SocketTypes
  <2> QED
    BY <2>1, <2>2, <2>3 DEF Rlpx!Reaction
<1>4. CASE Rlpx!Prepare \/ Rlpx!CannotPrepare \/ Rlpx!ConnectFails \/ Rlpx!WriteFails \/ Rlpx!Timeout
  BY <1>4, KeepStep DEF Rlpx!Prepare, Rlpx!CannotPrepare, Rlpx!ConnectFails, Rlpx!WriteFails, Rlpx!Timeout
<1>5. CASE Rlpx!TcpRemote(Rlpx!Messages)
  <2>1. Socket!TcpRemote({"reply"})
    BY <1>5 DEF Rlpx!TcpRemote, Rlpx!Arrive, Rlpx!Say, Rlpx!HangUp, Rlpx!Reset, Rlpx!Cut,
                Socket!TcpRemote, Socket!Arrive, Socket!Say, Socket!HangUp, Socket!Reset, Socket!Cut
  <2>2. pc # "done"
    BY <1>5 DEF Rlpx!TcpRemote
  <2>3. {"reply"} \cap Ends = {} /\ 0 \in Nat
    BY DEF Ends
  <2>4. /\ Stream(0, {"reply"})' /\ UNCHANGED <<pc, result>>
        /\ remote.state = "listening" => remote'.state = "listening"
    BY <2>1, <2>3, RemoteStep
  <2> QED
    BY <2>2, <2>4
<1> QED
  BY <1>1, <1>2, <1>3, <1>4, <1>5 DEF Rlpx!Probe

-----------------------------------------------------------------------------
\* lib_p2p_handshake: once the header is read, it was the remote's first line.

Said(i, message) == i \in DOMAIN remote.said /\ remote.said[i] = message

FirstLines ==
  /\ result.ok => Said(1, "multistream")
  /\ result.meta = "noise_accepted" => Said(2, "noise")
  /\ result.meta = "not_libp2p" => Said(1, "noise") \/ Said(1, "other")

Libp2pInv ==
  /\ \/ pc \in {"connecting", "writing_header", "reading_header"} /\ Stream(0, Libp2p!Messages)
     \/ /\ pc \in {"proposing_noise", "reading_noise"}
        /\ Stream(1, Libp2p!Messages)
        /\ Said(1, "multistream")
     \/ pc = "done"
  /\ pc = "connecting" => remote.state = "listening"
  /\ pc # "done" => ~result.ok /\ result.meta \notin {"noise_accepted", "not_libp2p"}
  /\ FirstLines

LEMMA Libp2pInit == Libp2p!Init => Libp2pInv
  BY DEF Libp2p!Init, Libp2p!TcpInit, Libp2p!NoResult, Libp2pInv, FirstLines,
         Stream, SocketTypes, Unread, States

LEMMA Libp2pMessages == /\ Libp2p!Messages \cap Ends = {}
                         /\ "noise" \in Libp2p!Messages
                         /\ Libp2p!Messages = {"multistream", "noise", "other"}
  BY DEF Libp2p!Messages, Ends

\* What is read is what the remote has said.
LEMMA ReadIsSaid ==
  ASSUME NEW messages, NEW read \in {0, 1}, Stream(read, messages), down # <<>>, Head(down) \in messages
  PROVE  Said(read + 1, Head(down))
<1>1. DOMAIN remote.said = 1..Len(remote.said)
  BY DEF Stream, SocketTypes
<1>2. read + 1 \in 1..Len(remote.said) /\ Head(down) = remote.said[read + 1]
  BY NextMessage
<1> QED
  BY <1>1, <1>2 DEF Said

\* What the remote has said stays said.
LEMMA SaidStays ==
  ASSUME NEW messages, messages \cap Ends = {}, NEW read \in Nat, NEW i, NEW message,
         Stream(read, messages), Said(i, message),
         Socket!TcpRemote(messages) \/ UNCHANGED remote
  PROVE  Said(i, message)'
<1>1. CASE UNCHANGED remote
  BY <1>1 DEF Said
<1>2. CASE Socket!TcpRemote(messages)
  <2>1. /\ Stream(read, messages)'
        /\ \A j \in 1..Len(remote.said) :
             j \in 1..Len(remote.said') /\ remote.said'[j] = remote.said[j]
    BY <1>2, RemoteStep
  <2>2. DOMAIN remote.said = 1..Len(remote.said) /\ DOMAIN remote.said' = 1..Len(remote.said')
    BY <2>1 DEF Stream, SocketTypes
  <2> QED
    BY <2>1, <2>2 DEF Said
<1> QED
  BY <1>1, <1>2

LEMMA Libp2pStep ==
  ASSUME Libp2pInv, Libp2p!Probe \/ Libp2p!TcpRemote(Libp2p!Messages)
  PROVE  Libp2pInv'
<1> USE DEF Libp2pInv, FirstLines, Libp2p!Return
<1>1. CASE Libp2p!Connect
  <2>1. Stream(0, Libp2p!Messages)'
    BY <1>1, ConnectStep DEF Libp2p!Connect, Libp2p!Established, Socket!Established
  <2> QED
    BY <1>1, <2>1 DEF Libp2p!Connect
<1>2. CASE Libp2p!WriteHeader
  <2>1. Stream(0, Libp2p!Messages)'
    BY <1>2, WriteStep DEF Libp2p!WriteHeader, Libp2p!Write, Sent
  <2> QED
    BY <1>2, <2>1 DEF Libp2p!WriteHeader
<1>3. CASE Libp2p!ReadHeader
  <2>1. /\ Stream(0, Libp2p!Messages) /\ down # <<>> /\ Head(down) \in Libp2p!Messages
        /\ down' = Tail(down) /\ UNCHANGED <<up, remote>>
    BY <1>3 DEF Libp2p!ReadHeader, Libp2p!Line
  <2>2. Stream(0 + 1, Libp2p!Messages)'
    BY <2>1, Libp2pMessages, ReadStep
  <2>3. Said(0 + 1, Head(down))
    BY <2>1, ReadIsSaid
  <2>4. CASE Head(down) = "multistream"
    <3>1. pc' = "proposing_noise" /\ UNCHANGED result
      BY <1>3, <2>4 DEF Libp2p!ReadHeader
    <3>2. Stream(1, Libp2p!Messages)' /\ Said(1, "multistream")'
      BY <2>1, <2>2, <2>3, <2>4, 0 + 1 = 1 DEF Said
    <3> QED
      BY <1>3, <3>1, <3>2 DEF Libp2p!ReadHeader
  <2>5. CASE Head(down) # "multistream"
    <3>1. pc' = "done" /\ result' = [ok |-> FALSE, rtt |-> TRUE, meta |-> "not_libp2p"]
      BY <1>3, <2>5 DEF Libp2p!ReadHeader
    <3>2. Said(1, "noise")' \/ Said(1, "other")'
      BY <2>1, <2>3, <2>5, 0 + 1 = 1, Libp2pMessages DEF Said
    <3> QED
      BY <3>1, <3>2
  <2> QED
    BY <2>4, <2>5
<1>4. CASE Libp2p!ProposeNoise
  <2>1. Stream(1, Libp2p!Messages)'
    BY <1>4, WriteStep DEF Libp2p!ProposeNoise, Libp2p!Write, Sent
  <2> QED
    BY <1>4, <2>1 DEF Libp2p!ProposeNoise, Said
<1>5. CASE Libp2p!ReadNoise
  <2>1. /\ pc = "reading_noise" /\ pc' = "done" /\ down # <<>> /\ remote' = remote
        /\ result' = [ok |-> TRUE, rtt |-> TRUE,
                      meta |-> IF Head(down) = "noise" THEN "noise_accepted" ELSE "noise_refused"]
    BY <1>5 DEF Libp2p!ReadNoise
  <2>2. Stream(1, Libp2p!Messages) /\ Said(1, "multistream")'
    BY <2>1 DEF Said
  <2>3. Head(down) = "noise" => Said(2, "noise")'
    <3>1. Head(down) = "noise" => Said(1 + 1, Head(down))
      BY <2>1, <2>2, Libp2pMessages, ReadIsSaid
    <3> QED
      BY <2>1, <3>1, 1 + 1 = 2 DEF Said
  <2> QED
    BY <2>1, <2>2, <2>3
<1>6. CASE Libp2p!ConnectFails \/ Libp2p!WriteFails \/ Libp2p!ReadHeaderFails \/ Libp2p!Timeout
  <2>1. PICK meta \in {"network", "timeout"}, rtt \in BOOLEAN :
          pc' = "done" /\ result' = [ok |-> FALSE, rtt |-> rtt, meta |-> meta]
    BY <1>6 DEF Libp2p!ConnectFails, Libp2p!WriteFails, Libp2p!ReadHeaderFails, Libp2p!Timeout
  <2> QED
    BY <2>1
<1>7. CASE Libp2p!TcpRemote(Libp2p!Messages)
  <2>1. Socket!TcpRemote(Libp2p!Messages) /\ pc # "done"
    BY <1>7 DEF Libp2p!TcpRemote, Libp2p!Arrive, Libp2p!Say, Libp2p!HangUp, Libp2p!Reset, Libp2p!Cut,
                Socket!TcpRemote, Socket!Arrive, Socket!Say, Socket!HangUp, Socket!Reset, Socket!Cut
  <2>2. Libp2p!Messages \cap Ends = {} /\ 0 \in Nat /\ 1 \in Nat
    BY Libp2pMessages
  <2>3. CASE Stream(0, Libp2p!Messages) /\ pc \in {"connecting", "writing_header", "reading_header"}
    BY <2>1, <2>2, <2>3, RemoteStep
  <2>4. CASE Stream(1, Libp2p!Messages) /\ pc \in {"proposing_noise", "reading_noise"}
    <3>1. Stream(1, Libp2p!Messages)' /\ UNCHANGED <<pc, result>>
      BY <2>1, <2>2, <2>4, RemoteStep
    <3>2. Said(1, "multistream")'
      BY <2>1, <2>2, <2>4, SaidStays
    <3> QED
      BY <2>1, <2>4, <3>1, <3>2
  <2> QED
    BY <2>1, <2>3, <2>4
<1> QED
  BY <1>1, <1>2, <1>3, <1>4, <1>5, <1>6, <1>7 DEF Libp2p!Probe

-----------------------------------------------------------------------------
\* wss_json_rpc and wss_subscribe: no text has been read before the verdict.

Frames == WssRpc!Messages
Texts == WssRpc!Texts

\* So many control frames have been read, and nothing else.
Unjudged(read) ==
  /\ Stream(read, Frames)
  /\ read <= Len(remote.said)
  /\ \A j \in 1..read : remote.said[j] \notin Texts

FirstText(texts) ==
  \E i \in DOMAIN remote.said :
    remote.said[i] \in texts /\ \A j \in 1..(i - 1) : remote.said[j] \notin Texts

WssVerdict(accepted) ==
  /\ result.ok => FirstText(accepted)
  /\ result.meta \in {"rpc_error", "api_error", "unconfirmed"} => FirstText(Texts \ accepted)

WssInv(accepted) ==
  /\ pc # "done" => \E read \in Nat : Unjudged(read)
  /\ pc \in {"parsing", "connecting"} => Unjudged(0) /\ remote.state = "listening"
  /\ pc # "done" => ~result.ok /\ result.meta = "none"
  /\ WssVerdict(accepted)

LEMMA FramesAreNoEnds == Frames \cap Ends = {} /\ Texts \subseteq Frames /\ "control" \in Frames \ Texts
  BY DEF Frames, Texts, Ends, WssRpc!Messages, WssRpc!Texts

LEMMA KeepUnjudged ==
  ASSUME NEW read, Unjudged(read), UNCHANGED <<up, down, remote>>
  PROVE  Unjudged(read)'
BY KeepStep DEF Unjudged

LEMMA ConnectUnjudged ==
  ASSUME Unjudged(0), remote.state = "listening", Socket!Established, UNCHANGED <<up, down>>
  PROVE  Unjudged(0)'
<1>1. Stream(0, Frames)' /\ remote'.said = remote.said
  BY ConnectStep DEF Unjudged, Stream, SocketTypes, Socket!Established
<1> QED
  BY <1>1 DEF Unjudged

LEMMA SkipUnjudged ==
  ASSUME NEW read \in Nat, Unjudged(read), down # <<>>, Head(down) = "control",
         down' = Tail(down), UNCHANGED <<up, remote>>
  PROVE  Unjudged(read + 1)'
<1>1. Stream(read + 1, Frames)'
  BY FramesAreNoEnds, ReadStep DEF Unjudged
<1>2. read + 1 \in 1..Len(remote.said) /\ remote.said[read + 1] = "control"
  BY FramesAreNoEnds, NextMessage DEF Unjudged
<1> QED
  BY <1>1, <1>2, FramesAreNoEnds DEF Unjudged

LEMMA RemoteUnjudged ==
  ASSUME NEW read \in Nat, Unjudged(read), Socket!TcpRemote(Frames)
  PROVE  /\ Unjudged(read)'
         /\ remote.state = "listening" => remote'.state = "listening"
         /\ UNCHANGED <<pc, result>>
<1>1. /\ Stream(read, Frames)'
      /\ \A i \in 1..Len(remote.said) :
           i \in 1..Len(remote.said') /\ remote.said'[i] = remote.said[i]
      /\ remote.state = "listening" => remote'.state = "listening"
      /\ UNCHANGED <<pc, result>>
  BY FramesAreNoEnds, RemoteStep DEF Unjudged
<1>2. Len(remote.said) \in Nat /\ Len(remote.said') \in Nat
  BY <1>1 DEF Unjudged, Stream, SocketTypes
<1>3. read <= Len(remote.said') /\ \A j \in 1..read : remote.said'[j] \notin Texts
  BY <1>1, <1>2 DEF Unjudged
<1> QED
  BY <1>1, <1>3 DEF Unjudged

LEMMA TextIsFirst ==
  ASSUME NEW read \in Nat, Unjudged(read), down # <<>>, Head(down) \in Texts
  PROVE  FirstText({Head(down)})
<1>1. read + 1 \in 1..Len(remote.said) /\ remote.said[read + 1] = Head(down)
  BY FramesAreNoEnds, NextMessage DEF Unjudged
<1>2. DOMAIN remote.said = 1..Len(remote.said)
  BY DEF Unjudged, Stream, SocketTypes
<1> QED
  BY <1>1, <1>2 DEF Unjudged, FirstText

LEMMA WssInit ==
  ASSUME NEW accepted, Socket!TcpInit, pc = "parsing"
  PROVE  WssInv(accepted)
<1>1. Unjudged(0)
  BY DEF Socket!TcpInit, Unjudged, Stream, SocketTypes, Unread, States
<1> QED
  BY <1>1 DEF WssInv, WssVerdict, Socket!TcpInit, Socket!NoResult

LEMMA WssRpcStep ==
  ASSUME WssInv(WssRpc!Accepted), WssRpc!Probe \/ WssRpc!TcpRemote(WssRpc!Messages)
  PROVE  WssInv(WssRpc!Accepted)'
<1> DEFINE good == WssRpc!Accepted
<1> USE DEF WssInv, WssVerdict, WssRpc!Return
<1>1. Frames = WssRpc!Messages /\ Texts = WssRpc!Texts
  BY DEF Frames, Texts, WssRpc!Messages, WssRpc!Texts, WssRpc!Messages, WssRpc!Texts
<1>2. CASE WssRpc!ParseUrl \/ WssRpc!Connect
  <2>1. Unjudged(0)'
    BY <1>2, KeepUnjudged, ConnectUnjudged
       DEF WssRpc!ParseUrl, WssRpc!Connect, WssRpc!Established, Socket!Established
  <2> QED
    BY <1>2, <2>1 DEF WssRpc!ParseUrl, WssRpc!Connect, WssRpc!Established
<1>3. CASE WssRpc!Send
  <2>1. PICK read \in Nat : Unjudged(read)
    BY <1>3 DEF WssRpc!Send
  <2>2. Unjudged(read)'
    BY <1>3, <2>1, WriteStep DEF WssRpc!Send, WssRpc!Write, Sent, Unjudged
  <2> QED
    BY <1>3, <2>2 DEF WssRpc!Send
<1>4. CASE WssRpc!ReadText
  <2>1. /\ pc = "reading" /\ down # <<>> /\ Head(down) \in Texts /\ remote' = remote
        /\ pc' = "done"
        /\ result' = [ok |-> Head(down) \in good, rtt |-> TRUE,
                      meta |-> IF Head(down) \in good THEN "ok" ELSE WssRpc!Rejection(Head(down))]
    BY <1>1, <1>4 DEF WssRpc!ReadText, WssRpc!Frame, WssRpc!Texts
  <2>2. PICK read \in Nat : Unjudged(read)
    BY <2>1
  <2>3. FirstText({Head(down)})
    BY <2>1, <2>2, TextIsFirst
  <2>4. CASE Head(down) \in good
    BY <2>1, <2>3, <2>4 DEF FirstText
  <2>5. CASE Head(down) \notin good
    BY <2>1, <2>3, <2>5 DEF FirstText
  <2> QED
    BY <2>4, <2>5
<1>5. CASE WssRpc!SkipControl
  <2>1. /\ pc = "reading" /\ pc' = pc /\ result' = result
        /\ down # <<>> /\ Head(down) = "control" /\ down' = Tail(down)
        /\ UNCHANGED <<up, remote>>
    BY <1>5 DEF WssRpc!SkipControl, WssRpc!Frame
  <2>2. PICK read \in Nat : Unjudged(read)
    BY <2>1
  <2>3. Unjudged(read + 1)' /\ read + 1 \in Nat
    BY <2>1, <2>2, SkipUnjudged
  <2> QED
    BY <2>1, <2>3
<1>6. CASE WssRpc!InvalidUrl \/ WssRpc!ConnectFails \/ WssRpc!SendFails \/ WssRpc!ReadEnd \/ WssRpc!Timeout
  <2>1. PICK rtt \in BOOLEAN,
             meta \in {"internal", "network", "dns_error", "auth_required", "rate_limited", "timeout"} :
          pc' = "done" /\ result' = [ok |-> FALSE, rtt |-> rtt, meta |-> meta]
    BY <1>6 DEF WssRpc!InvalidUrl, WssRpc!ConnectFails, WssRpc!SendFails, WssRpc!ReadEnd, WssRpc!Timeout
  <2> QED
    BY <2>1
<1>7. CASE WssRpc!TcpRemote(WssRpc!Messages)
  <2>1. Socket!TcpRemote(Frames) /\ pc # "done"
    BY <1>1, <1>7
       DEF WssRpc!TcpRemote, WssRpc!Arrive, WssRpc!Say, WssRpc!HangUp, WssRpc!Reset, WssRpc!Cut,
           Socket!TcpRemote, Socket!Arrive, Socket!Say, Socket!HangUp, Socket!Reset, Socket!Cut
  <2>2. PICK read \in Nat : Unjudged(read)
    BY <2>1
  <2>3. \A r \in Nat : Unjudged(r) => Unjudged(r)'
    BY <2>1, RemoteUnjudged
  <2>4. UNCHANGED <<pc, result>> /\ (remote.state = "listening" => remote'.state = "listening")
    BY <2>1, <2>2, RemoteUnjudged
  <2> QED
    BY <2>1, <2>2, <2>3, <2>4
<1> QED
  BY <1>2, <1>3, <1>4, <1>5, <1>6, <1>7 DEF WssRpc!Probe

LEMMA WssSubStep ==
  ASSUME WssInv(WssSub!Accepted), WssSub!Probe \/ WssSub!TcpRemote(WssSub!Messages)
  PROVE  WssInv(WssSub!Accepted)'
<1> DEFINE good == WssSub!Accepted
<1> USE DEF WssInv, WssVerdict, WssSub!Return
<1>1. Frames = WssSub!Messages /\ Texts = WssSub!Texts
  BY DEF Frames, Texts, WssRpc!Messages, WssRpc!Texts, WssSub!Messages, WssSub!Texts
<1>2. CASE WssSub!ParseUrl \/ WssSub!Connect
  <2>1. Unjudged(0)'
    BY <1>2, KeepUnjudged, ConnectUnjudged
       DEF WssSub!ParseUrl, WssSub!Connect, WssSub!Established, Socket!Established
  <2> QED
    BY <1>2, <2>1 DEF WssSub!ParseUrl, WssSub!Connect, WssSub!Established
<1>3. CASE WssSub!Send
  <2>1. PICK read \in Nat : Unjudged(read)
    BY <1>3 DEF WssSub!Send
  <2>2. Unjudged(read)'
    BY <1>3, <2>1, WriteStep DEF WssSub!Send, WssSub!Write, Sent, Unjudged
  <2> QED
    BY <1>3, <2>2 DEF WssSub!Send
<1>4. CASE WssSub!ReadText
  <2>1. /\ pc = "reading" /\ down # <<>> /\ Head(down) \in Texts /\ remote' = remote
        /\ pc' = "done"
        /\ result' = [ok |-> Head(down) \in good, rtt |-> TRUE,
                      meta |-> IF Head(down) \in good THEN "ok" ELSE WssSub!Rejection(Head(down))]
    BY <1>1, <1>4 DEF WssSub!ReadText, WssSub!Frame, WssSub!Texts
  <2>2. PICK read \in Nat : Unjudged(read)
    BY <2>1
  <2>3. FirstText({Head(down)})
    BY <2>1, <2>2, TextIsFirst
  <2>4. CASE Head(down) \in good
    BY <2>1, <2>3, <2>4 DEF FirstText
  <2>5. CASE Head(down) \notin good
    BY <2>1, <2>3, <2>5 DEF FirstText
  <2> QED
    BY <2>4, <2>5
<1>5. CASE WssSub!SkipControl
  <2>1. /\ pc = "reading" /\ pc' = pc /\ result' = result
        /\ down # <<>> /\ Head(down) = "control" /\ down' = Tail(down)
        /\ UNCHANGED <<up, remote>>
    BY <1>5 DEF WssSub!SkipControl, WssSub!Frame
  <2>2. PICK read \in Nat : Unjudged(read)
    BY <2>1
  <2>3. Unjudged(read + 1)' /\ read + 1 \in Nat
    BY <2>1, <2>2, SkipUnjudged
  <2> QED
    BY <2>1, <2>3
<1>6. CASE WssSub!InvalidUrl \/ WssSub!ConnectFails \/ WssSub!SendFails \/ WssSub!ReadEnd \/ WssSub!Timeout
  <2>1. PICK rtt \in BOOLEAN,
             meta \in {"internal", "network", "dns_error", "auth_required", "rate_limited", "timeout"} :
          pc' = "done" /\ result' = [ok |-> FALSE, rtt |-> rtt, meta |-> meta]
    BY <1>6 DEF WssSub!InvalidUrl, WssSub!ConnectFails, WssSub!SendFails, WssSub!ReadEnd, WssSub!Timeout
  <2> QED
    BY <2>1
<1>7. CASE WssSub!TcpRemote(WssSub!Messages)
  <2>1. Socket!TcpRemote(Frames) /\ pc # "done"
    BY <1>1, <1>7
       DEF WssSub!TcpRemote, WssSub!Arrive, WssSub!Say, WssSub!HangUp, WssSub!Reset, WssSub!Cut,
           Socket!TcpRemote, Socket!Arrive, Socket!Say, Socket!HangUp, Socket!Reset, Socket!Cut
  <2>2. PICK read \in Nat : Unjudged(read)
    BY <2>1
  <2>3. \A r \in Nat : Unjudged(r) => Unjudged(r)'
    BY <2>1, RemoteUnjudged
  <2>4. UNCHANGED <<pc, result>> /\ (remote.state = "listening" => remote'.state = "listening")
    BY <2>1, <2>2, RemoteUnjudged
  <2> QED
    BY <2>1, <2>2, <2>3, <2>4
<1> QED
  BY <1>2, <1>3, <1>4, <1>5, <1>6, <1>7 DEF WssSub!Probe

\* A text that waits in what has arrived, behind control frames only.
WaitsIn(q, text) ==
  \E i \in 1..Len(q) : q[i] = text /\ \A j \in 1..(i - 1) : q[j] = "control"

LEMMA AppendWaits ==
  ASSUME NEW S, NEW q \in Seq(S), NEW e \in S, NEW text, WaitsIn(q, text)
  PROVE  WaitsIn(Append(q, e), text)
<1>1. PICK i \in 1..Len(q) : q[i] = text /\ \A j \in 1..(i - 1) : q[j] = "control"
  BY DEF WaitsIn
<1>2. Len(Append(q, e)) = Len(q) + 1 /\ \A j \in 1..Len(q) : Append(q, e)[j] = q[j]
  OBVIOUS
<1>3. Len(q) \in Nat
  OBVIOUS
<1> QED
  BY <1>1, <1>2, <1>3 DEF WaitsIn

\* It is the first frame, or a control frame is and the text waits behind it.
LEMMA HeadWaits ==
  ASSUME NEW S, NEW q \in Seq(S), NEW text, WaitsIn(q, text)
  PROVE  /\ q # <<>> /\ Head(q) \in {text, "control"}
         /\ Head(q) # text => WaitsIn(Tail(q), text)
<1>1. PICK i \in 1..Len(q) : q[i] = text /\ \A j \in 1..(i - 1) : q[j] = "control"
  BY DEF WaitsIn
<1>2. q # <<>> /\ Head(q) = q[1] /\ Len(q) \in Nat
  BY <1>1
<1>3. CASE i = 1
  BY <1>1, <1>2, <1>3
<1>4. CASE i # 1
  <2>1. 1 \in 1..(i - 1)
    BY <1>1, <1>4
  <2>2. Len(Tail(q)) = Len(q) - 1 /\ \A j \in 1..(Len(q) - 1) : Tail(q)[j] = q[j + 1]
    BY <1>2
  <2>3. i - 1 \in 1..Len(Tail(q)) /\ Tail(q)[i - 1] = text
    BY <1>1, <1>2, <1>4, <2>2
  <2>4. \A j \in 1..(i - 1 - 1) : Tail(q)[j] = "control"
    BY <1>1, <1>2, <2>2
  <2>5. WaitsIn(Tail(q), text)
    BY <2>3, <2>4 DEF WaitsIn
  <2> QED
    BY <1>1, <1>2, <2>1, <2>5
<1> QED
  BY <1>3, <1>4

LEMMA RemoteWaits ==
  ASSUME NEW read \in Nat, Unjudged(read), Socket!TcpRemote(Frames),
         NEW text \in Texts, WaitsIn(down, text)
  PROVE  pc' = pc /\ (WaitsIn(down', text) \/ down' = <<"rst">>)
<1>1. down \in Seq(Frames \cup Ends)
  BY DEF Unjudged, Stream, SocketTypes
<1>2. "fin" \in Frames \cup Ends /\ "rst" \in Frames \cup Ends
  BY DEF Ends
<1>3. pc' = pc /\ (\/ down' = down \/ down' = <<"rst">>
                   \/ \E e \in Frames \cup Ends : down' = Append(down, e))
  BY <1>2 DEF Socket!TcpRemote, Socket!Arrive, Socket!Say, Socket!HangUp, Socket!Reset, Socket!Cut
<1>4. \A e \in Frames \cup Ends : WaitsIn(Append(down, e), text)
  BY <1>1, AppendWaits
<1> QED
  BY <1>3, <1>4

\* What becomes of a first text that has arrived.
Stands(text, good, refusal) ==
  \/ pc' = "reading" /\ (WaitsIn(down', text) \/ down' = <<"rst">>)
  \/ pc' = "done" /\ result'.ok = good /\ (~good => result'.meta = refusal)

LEMMA WssRpcStands ==
  ASSUME WssInv(WssRpc!Accepted), WssRpc!Probe \/ WssRpc!TcpRemote(WssRpc!Messages),
         NEW text \in Texts, pc = "reading", WaitsIn(down, text)
  PROVE  Stands(text, text \in WssRpc!Accepted, WssRpc!Rejection(text))
<1>1. Frames = WssRpc!Messages /\ Texts = WssRpc!Texts /\ "control" \notin Texts /\ Texts \cap Ends = {}
  BY DEF Frames, Texts, Ends, WssRpc!Messages, WssRpc!Texts, WssRpc!Messages, WssRpc!Texts
<1>2. PICK read \in Nat : Unjudged(read)
  BY DEF WssInv
<1>3. down \in Seq(Frames \cup Ends)
  BY <1>2 DEF Unjudged, Stream, SocketTypes
<1>4. down # <<>> /\ Head(down) \in {text, "control"} /\ (Head(down) # text => WaitsIn(Tail(down), text))
  BY <1>3, HeadWaits
<1>5. WssRpc!Frame = Head(down)
  BY <1>4 DEF WssRpc!Frame
<1>6. CASE WssRpc!ReadText
  <2>1. Head(down) = text
    BY <1>1, <1>4, <1>5, <1>6 DEF WssRpc!ReadText
  <2>2. /\ pc' = "done"
        /\ result' = [ok |-> text \in WssRpc!Accepted, rtt |-> TRUE,
                      meta |-> IF text \in WssRpc!Accepted THEN "ok" ELSE WssRpc!Rejection(text)]
    BY <1>5, <1>6, <2>1 DEF WssRpc!ReadText, WssRpc!Return
  <2>3. /\ result'.ok = (text \in WssRpc!Accepted)
        /\ text \notin WssRpc!Accepted => result'.meta = WssRpc!Rejection(text)
    BY <2>2
  <2> QED
    BY <2>2, <2>3 DEF Stands
<1>7. CASE WssRpc!SkipControl
  <2>1. Head(down) # text /\ down' = Tail(down) /\ pc' = pc
    BY <1>1, <1>5, <1>7 DEF WssRpc!SkipControl
  <2> QED
    BY <1>4, <2>1 DEF Stands
<1>8. CASE WssRpc!TcpRemote(WssRpc!Messages)
  <2>1. Socket!TcpRemote(Frames)
    BY <1>1, <1>8
       DEF WssRpc!TcpRemote, WssRpc!Arrive, WssRpc!Say, WssRpc!HangUp, WssRpc!Reset, WssRpc!Cut,
           Socket!TcpRemote, Socket!Arrive, Socket!Say, Socket!HangUp, Socket!Reset, Socket!Cut
  <2>2. pc' = pc /\ (WaitsIn(down', text) \/ down' = <<"rst">>)
    BY <1>2, <2>1, RemoteWaits
  <2> QED
    BY <2>2 DEF Stands
<1>9. WssRpc!ReadText \/ WssRpc!SkipControl \/ WssRpc!TcpRemote(WssRpc!Messages)
  <2>1. ~WssRpc!ReadEnd
    BY <1>1, <1>4, <1>5 DEF WssRpc!ReadEnd, Ends
  <2> QED
    BY <1>4, <2>1 DEF WssRpc!Probe, WssRpc!ParseUrl, WssRpc!InvalidUrl, WssRpc!Connect,
       WssRpc!ConnectFails, WssRpc!Send, WssRpc!SendFails, WssRpc!Timeout
<1> QED
  BY <1>6, <1>7, <1>8, <1>9

LEMMA WssSubStands ==
  ASSUME WssInv(WssSub!Accepted), WssSub!Probe \/ WssSub!TcpRemote(WssSub!Messages),
         NEW text \in Texts, pc = "reading", WaitsIn(down, text)
  PROVE  Stands(text, text \in WssSub!Accepted, WssSub!Rejection(text))
<1>1. Frames = WssSub!Messages /\ Texts = WssSub!Texts /\ "control" \notin Texts /\ Texts \cap Ends = {}
  BY DEF Frames, Texts, Ends, WssRpc!Messages, WssRpc!Texts, WssSub!Messages, WssSub!Texts
<1>2. PICK read \in Nat : Unjudged(read)
  BY DEF WssInv
<1>3. down \in Seq(Frames \cup Ends)
  BY <1>2 DEF Unjudged, Stream, SocketTypes
<1>4. down # <<>> /\ Head(down) \in {text, "control"} /\ (Head(down) # text => WaitsIn(Tail(down), text))
  BY <1>3, HeadWaits
<1>5. WssSub!Frame = Head(down)
  BY <1>4 DEF WssSub!Frame
<1>6. CASE WssSub!ReadText
  <2>1. Head(down) = text
    BY <1>1, <1>4, <1>5, <1>6 DEF WssSub!ReadText
  <2>2. /\ pc' = "done"
        /\ result' = [ok |-> text \in WssSub!Accepted, rtt |-> TRUE,
                      meta |-> IF text \in WssSub!Accepted THEN "ok" ELSE WssSub!Rejection(text)]
    BY <1>5, <1>6, <2>1 DEF WssSub!ReadText, WssSub!Return
  <2>3. /\ result'.ok = (text \in WssSub!Accepted)
        /\ text \notin WssSub!Accepted => result'.meta = WssSub!Rejection(text)
    BY <2>2
  <2> QED
    BY <2>2, <2>3 DEF Stands
<1>7. CASE WssSub!SkipControl
  <2>1. Head(down) # text /\ down' = Tail(down) /\ pc' = pc
    BY <1>1, <1>5, <1>7 DEF WssSub!SkipControl
  <2> QED
    BY <1>4, <2>1 DEF Stands
<1>8. CASE WssSub!TcpRemote(WssSub!Messages)
  <2>1. Socket!TcpRemote(Frames)
    BY <1>1, <1>8
       DEF WssSub!TcpRemote, WssSub!Arrive, WssSub!Say, WssSub!HangUp, WssSub!Reset, WssSub!Cut,
           Socket!TcpRemote, Socket!Arrive, Socket!Say, Socket!HangUp, Socket!Reset, Socket!Cut
  <2>2. pc' = pc /\ (WaitsIn(down', text) \/ down' = <<"rst">>)
    BY <1>2, <2>1, RemoteWaits
  <2> QED
    BY <2>2 DEF Stands
<1>9. WssSub!ReadText \/ WssSub!SkipControl \/ WssSub!TcpRemote(WssSub!Messages)
  <2>1. ~WssSub!ReadEnd
    BY <1>1, <1>4, <1>5 DEF WssSub!ReadEnd, Ends
  <2> QED
    BY <1>4, <2>1 DEF WssSub!Probe, WssSub!ParseUrl, WssSub!InvalidUrl, WssSub!Connect,
       WssSub!ConnectFails, WssSub!Send, WssSub!SendFails, WssSub!Timeout
<1> QED
  BY <1>6, <1>7, <1>8, <1>9

-----------------------------------------------------------------------------
\* The HTTP probes: only a body that says something passes, and it is whole.

\* What a probe may pass on: the status and the fields it asks for.
Backed(probe, status, body) ==
  /\ probe # "https_json_rpc_write" => status = 200
  /\ probe = "https_json_rpc" => "result" \in body.has
  /\ probe = "beacon_https" => "data.version" \in body.has
  /\ probe = "https_json_rpc_write" => body.has \cap {"result", "error"} # {}
  /\ probe = "http_control" => body.expected

HttpInv(probe) ==
  /\ pc # "done" => ~result.ok
  /\ result.ok => remote.state = "whole" /\ Backed(probe, remote.status, remote.body)

LEMMA HttpVerdicts ==
  ASSUME NEW status, NEW body
  PROVE  /\ HttpRead!Verdict(status, body).ok => Backed("https_json_rpc", status, body)
         /\ HttpWrite!Verdict(status, body).ok => Backed("https_json_rpc_write", status, body)
         /\ HttpBeacon!Verdict(status, body).ok => Backed("beacon_https", status, body)
         /\ ControlBody!Verdict(status, body).ok => Backed("http_control", status, body)
<1>1. HttpRead!Verdict(status, body).ok => Backed("https_json_rpc", status, body)
  <2>1. HttpRead!Verdict(status, body) = HttpRead!ByStatus(status, body, "result")
    BY DEF HttpRead!Verdict
  <2> QED
    BY <2>1 DEF HttpRead!ByStatus, Backed
<1>2. HttpWrite!Verdict(status, body).ok => Backed("https_json_rpc_write", status, body)
  <2>1. HttpWrite!Verdict(status, body) = HttpWrite!ByBody(status, body)
    BY DEF HttpWrite!Verdict
  <2> QED
    BY <2>1 DEF HttpWrite!ByBody, Backed
<1>3. HttpBeacon!Verdict(status, body).ok => Backed("beacon_https", status, body)
  <2>1. HttpBeacon!Verdict(status, body) = HttpBeacon!ByStatus(status, body, "data.version")
    BY DEF HttpBeacon!Verdict
  <2> QED
    BY <2>1 DEF HttpBeacon!ByStatus, Backed
<1>4. ControlBody!Verdict(status, body).ok => Backed("http_control", status, body)
  BY DEF ControlBody!Verdict, Backed
<1> QED
  BY <1>1, <1>2, <1>3, <1>4

LEMMA HttpReadStep ==
  ASSUME HttpInv("https_json_rpc"), HttpRead!Probe \/ HttpRead!Server
  PROVE  HttpInv("https_json_rpc")'
<1> USE DEF HttpInv, HttpRead!Return
<1>1. CASE HttpRead!BuildClient \/ HttpRead!BuildFails \/ HttpRead!SendEnds \/ HttpRead!SendFails
  BY <1>1 DEF HttpRead!BuildClient, HttpRead!BuildFails, HttpRead!SendEnds, HttpRead!SendFails
<1>2. ASSUME NEW body, HttpRead!Judge(body), UNCHANGED remote,
             Backed("https_json_rpc", remote.status, body) => remote.state = "whole" /\ body = remote.body
      PROVE  HttpInv("https_json_rpc")'
  <2>1. pc' = "done" /\ result'.ok = HttpRead!Verdict(remote.status, body).ok
    BY <1>2 DEF HttpRead!Judge
  <2> QED
    BY <1>2, <2>1, HttpVerdicts
<1>3. CASE HttpRead!ReadBody
  BY <1>2, <1>3 DEF HttpRead!ReadBody
<1>4. CASE HttpRead!ReadFails
  <2>1. ~Backed("https_json_rpc", remote.status, HttpRead!EmptyBody)
    BY DEF Backed, HttpRead!EmptyBody
  <2> QED
    BY <1>2, <1>4, <2>1 DEF HttpRead!ReadFails
<1>5. CASE HttpRead!Server
  BY <1>5 DEF HttpRead!Server
<1> QED
  BY <1>1, <1>3, <1>4, <1>5 DEF HttpRead!Probe

LEMMA HttpWriteStep ==
  ASSUME HttpInv("https_json_rpc_write"), HttpWrite!Probe \/ HttpWrite!Server
  PROVE  HttpInv("https_json_rpc_write")'
<1> USE DEF HttpInv, HttpWrite!Return
<1>1. CASE HttpWrite!BuildClient \/ HttpWrite!BuildFails \/ HttpWrite!SendEnds \/ HttpWrite!SendFails
  BY <1>1 DEF HttpWrite!BuildClient, HttpWrite!BuildFails, HttpWrite!SendEnds, HttpWrite!SendFails
<1>2. ASSUME NEW body, HttpWrite!Judge(body), UNCHANGED remote,
             Backed("https_json_rpc_write", remote.status, body) => remote.state = "whole" /\ body = remote.body
      PROVE  HttpInv("https_json_rpc_write")'
  <2>1. pc' = "done" /\ result'.ok = HttpWrite!Verdict(remote.status, body).ok
    BY <1>2 DEF HttpWrite!Judge
  <2> QED
    BY <1>2, <2>1, HttpVerdicts
<1>3. CASE HttpWrite!ReadBody
  BY <1>2, <1>3 DEF HttpWrite!ReadBody
<1>4. CASE HttpWrite!ReadFails
  <2>1. ~Backed("https_json_rpc_write", remote.status, HttpWrite!EmptyBody)
    BY DEF Backed, HttpWrite!EmptyBody
  <2> QED
    BY <1>2, <1>4, <2>1 DEF HttpWrite!ReadFails
<1>5. CASE HttpWrite!Server
  BY <1>5 DEF HttpWrite!Server
<1> QED
  BY <1>1, <1>3, <1>4, <1>5 DEF HttpWrite!Probe

LEMMA HttpBeaconStep ==
  ASSUME HttpInv("beacon_https"), HttpBeacon!Probe \/ HttpBeacon!Server
  PROVE  HttpInv("beacon_https")'
<1> USE DEF HttpInv, HttpBeacon!Return
<1>1. CASE HttpBeacon!BuildClient \/ HttpBeacon!BuildFails \/ HttpBeacon!SendEnds \/ HttpBeacon!SendFails
  BY <1>1 DEF HttpBeacon!BuildClient, HttpBeacon!BuildFails, HttpBeacon!SendEnds, HttpBeacon!SendFails
<1>2. ASSUME NEW body, HttpBeacon!Judge(body), UNCHANGED remote,
             Backed("beacon_https", remote.status, body) => remote.state = "whole" /\ body = remote.body
      PROVE  HttpInv("beacon_https")'
  <2>1. pc' = "done" /\ result'.ok = HttpBeacon!Verdict(remote.status, body).ok
    BY <1>2 DEF HttpBeacon!Judge
  <2> QED
    BY <1>2, <2>1, HttpVerdicts
<1>3. CASE HttpBeacon!ReadBody
  BY <1>2, <1>3 DEF HttpBeacon!ReadBody
<1>4. CASE HttpBeacon!ReadFails
  <2>1. ~Backed("beacon_https", remote.status, HttpBeacon!EmptyBody)
    BY DEF Backed, HttpBeacon!EmptyBody
  <2> QED
    BY <1>2, <1>4, <2>1 DEF HttpBeacon!ReadFails
<1>5. CASE HttpBeacon!Server
  BY <1>5 DEF HttpBeacon!Server
<1> QED
  BY <1>1, <1>3, <1>4, <1>5 DEF HttpBeacon!Probe

LEMMA ControlBodyStep ==
  ASSUME HttpInv("http_control"), ControlBody!Probe \/ ControlBody!Server
  PROVE  HttpInv("http_control")'
<1> USE DEF HttpInv, ControlBody!Return
<1>1. CASE ControlBody!BuildClient \/ ControlBody!BuildFails \/ ControlBody!SendEnds \/ ControlBody!SendFails
  BY <1>1 DEF ControlBody!BuildClient, ControlBody!BuildFails, ControlBody!SendEnds, ControlBody!SendFails
<1>2. ASSUME NEW body, ControlBody!Judge(body), UNCHANGED remote,
             Backed("http_control", remote.status, body) => remote.state = "whole" /\ body = remote.body
      PROVE  HttpInv("http_control")'
  <2>1. pc' = "done" /\ result'.ok = ControlBody!Verdict(remote.status, body).ok
    BY <1>2 DEF ControlBody!Judge
  <2> QED
    BY <1>2, <2>1, HttpVerdicts
<1>3. CASE ControlBody!ReadBody
  BY <1>2, <1>3 DEF ControlBody!ReadBody
<1>4. CASE ControlBody!ReadFails
  <2>1. ~Backed("http_control", remote.status, ControlBody!EmptyBody)
    BY DEF Backed, ControlBody!EmptyBody
  <2> QED
    BY <1>2, <1>4, <2>1 DEF ControlBody!ReadFails
<1>5. CASE ControlBody!Server
  BY <1>5 DEF ControlBody!Server
<1> QED
  BY <1>1, <1>3, <1>4, <1>5 DEF ControlBody!Probe

-----------------------------------------------------------------------------
\* dns_compare: what the probe holds of the system's answer is part of it.

DnsInv ==
  /\ DOMAIN down = {"system", "doh"}
  /\ down = [system |-> down.system, doh |-> down.doh]
  /\ down.system \in {{}, remote.system}
  /\ pc # "done" => ~result.ok /\ result.meta = "none"
  /\ Dns2!BlockNeedsARecord

LEMMA DnsInit == Dns2!Init => DnsInv
  BY DEF Dns2!Init, Dns2!NoResult, Dns2!BlockNeedsARecord, DnsInv

LEMMA DnsStep ==
  ASSUME DnsInv, Dns2!Probe
  PROVE  DnsInv'
<1> USE DEF DnsInv
<1>1. CASE Dns2!SystemAnswers
  <2>1. down' = [system |-> remote.system, doh |-> down.doh] /\ UNCHANGED <<remote, result>>
        /\ pc = "asking_system" /\ pc' = "asking_DoH"
    BY <1>1 DEF Dns2!SystemAnswers
  <2> QED
    BY <2>1 DEF Dns2!BlockNeedsARecord
<1>2. CASE Dns2!SystemTimesOut
  BY <1>2 DEF Dns2!SystemTimesOut, Dns2!BlockNeedsARecord
<1>3. ASSUME NEW doh, pc = "asking_DoH", Dns2!Judge(doh), UNCHANGED remote,
             doh # {} => remote.noerror /\ remote.a # {}
      PROVE  DnsInv'
  <2>1. /\ down' = [system |-> down.system, doh |-> doh] /\ pc' = "done"
        /\ result' = [ok |-> down.system # {}, rtt |-> TRUE, meta |-> Dns2!Word(down.system, doh)]
    BY <1>3 DEF Dns2!Judge, Dns2!Return
  <2>2. result'.meta = "dns_block" => doh # {}
    BY <2>1 DEF Dns2!Word
  <2> QED
    BY <1>3, <2>1, <2>2 DEF Dns2!BlockNeedsARecord
<1>4. CASE Dns2!DohAnswers
  BY <1>3, <1>4 DEF Dns2!DohAnswers
<1>5. CASE Dns2!DohFails
  BY <1>3, <1>5 DEF Dns2!DohFails
<1> QED
  BY <1>1, <1>2, <1>4, <1>5 DEF Dns2!Probe

-----------------------------------------------------------------------------
\* All kinds together.

ProbeInv ==
  /\ kind = "discv4_ping" => Discv4Inv
  /\ kind = "rlpx_handshake" => RlpxInv
  /\ kind = "lib_p2p_handshake" => Libp2pInv
  /\ kind = "wss_json_rpc" => WssInv(WssRpc!Accepted)
  /\ kind = "wss_subscribe" => WssInv(WssSub!Accepted)
  /\ kind = "https_json_rpc" => HttpInv("https_json_rpc")
  /\ kind = "https_json_rpc_write" => HttpInv("https_json_rpc_write")
  /\ kind = "beacon_https" => HttpInv("beacon_https")
  /\ kind = "http_control_body" => HttpInv("http_control")
  /\ kind = "dns_compare" => DnsInv

LEMMA ProbeInit == Init => ProbeInv
<1> SUFFICES ASSUME Init PROVE ProbeInv
  OBVIOUS
<1>1. kind = "discv4_ping" => Discv4Inv
  <2>1. kind = "discv4_ping" => Discv4!Init
    BY DEF Init
  <2> QED
    BY <2>1, Discv4Init
<1>2. kind = "rlpx_handshake" => RlpxInv
  <2>1. kind = "rlpx_handshake" => Rlpx!Init
    BY DEF Init
  <2> QED
    BY <2>1, RlpxInit
<1>3. kind = "lib_p2p_handshake" => Libp2pInv
  <2>1. kind = "lib_p2p_handshake" => Libp2p!Init
    BY DEF Init
  <2> QED
    BY <2>1, Libp2pInit
<1>4. kind = "wss_json_rpc" => WssInv(WssRpc!Accepted)
  <2>1. kind = "wss_json_rpc" => WssRpc!Init
    BY DEF Init
  <2>2. WssRpc!Init => Socket!TcpInit /\ pc = "parsing"
    BY DEF WssRpc!Init, WssRpc!TcpInit, WssRpc!NoResult, Socket!TcpInit, Socket!NoResult
  <2> QED
    BY <2>1, <2>2, WssInit
<1>5. kind = "wss_subscribe" => WssInv(WssSub!Accepted)
  <2>1. kind = "wss_subscribe" => WssSub!Init
    BY DEF Init
  <2>2. WssSub!Init => Socket!TcpInit /\ pc = "parsing"
    BY DEF WssSub!Init, WssSub!TcpInit, WssSub!NoResult, Socket!TcpInit, Socket!NoResult
  <2> QED
    BY <2>1, <2>2, WssInit
<1>6. kind = "https_json_rpc" => HttpInv("https_json_rpc")
  <2>1. kind = "https_json_rpc" => HttpRead!Init
    BY DEF Init
  <2> QED
    BY <2>1 DEF HttpRead!Init, HttpRead!NoResult, HttpInv
<1>7. kind = "https_json_rpc_write" => HttpInv("https_json_rpc_write")
  <2>1. kind = "https_json_rpc_write" => HttpWrite!Init
    BY DEF Init
  <2> QED
    BY <2>1 DEF HttpWrite!Init, HttpWrite!NoResult, HttpInv
<1>8. kind = "beacon_https" => HttpInv("beacon_https")
  <2>1. kind = "beacon_https" => HttpBeacon!Init
    BY DEF Init
  <2> QED
    BY <2>1 DEF HttpBeacon!Init, HttpBeacon!NoResult, HttpInv
<1>9. kind = "http_control_body" => HttpInv("http_control")
  <2>1. kind = "http_control_body" => ControlBody!Init
    BY DEF Init
  <2> QED
    BY <2>1 DEF ControlBody!Init, ControlBody!NoResult, HttpInv
<1>10. kind = "dns_compare" => DnsInv
  <2>1. kind = "dns_compare" => Dns2!Init
    BY DEF Init
  <2> QED
    BY <2>1, DnsInit
<1> QED
  BY <1>1, <1>2, <1>3, <1>4, <1>5, <1>6, <1>7, <1>8, <1>9, <1>10 DEF ProbeInv

\* One step of a kind keeps the invariant of this kind.
LEMMA ProbeStep == ProbeInv /\ [Next]_vars => ProbeInv'
<1> SUFFICES ASSUME ProbeInv, [Next]_vars PROVE ProbeInv'
  OBVIOUS
<1>1. kind' = kind
  BY DEF Next, Probe, Environment, Returned, vars
<1>2. CASE Returned \/ UNCHANGED vars
  <2> SUFFICES ASSUME UNCHANGED vars PROVE ProbeInv'
    BY <1>2 DEF Returned
  <2>1. UNCHANGED <<kind, pc, up, down, remote, result>>
    BY DEF vars
  <2>2. (Discv4Inv => Discv4Inv') /\ \A probe : HttpInv(probe) => HttpInv(probe)'
    BY <2>1 DEF Discv4Inv, Discv4Types, SomebodyMoves, HttpInv
  <2>3. (RlpxInv => RlpxInv') /\ (Libp2pInv => Libp2pInv')
    BY <2>1 DEF RlpxInv, Rlpx!PassIsAReaction, Libp2pInv, FirstLines, Said, Stream, SocketTypes, Unread
  <2>4. \A accepted : WssInv(accepted) => WssInv(accepted)'
    BY <2>1 DEF WssInv, WssVerdict, FirstText, Unjudged, Stream, SocketTypes, Unread
  <2>5. DnsInv => DnsInv'
    BY <2>1 DEF DnsInv, Dns2!BlockNeedsARecord
  <2> QED
    BY <2>1, <2>2, <2>3, <2>4, <2>5 DEF ProbeInv
<1>3. CASE Probe \/ Environment
  <2>1. kind = "discv4_ping" => (Discv4Inv)'
    <3>1. kind = "discv4_ping" => Discv4!Probe \/ Discv4!Network
      BY <1>3 DEF Probe, Environment
    <3> QED
      BY <3>1, Discv4Step DEF ProbeInv
  <2>2. kind = "rlpx_handshake" => (RlpxInv)'
    <3>1. kind = "rlpx_handshake" => Rlpx!Probe \/ Rlpx!TcpRemote(Rlpx!Messages)
      BY <1>3 DEF Probe, Environment
    <3> QED
      BY <3>1, RlpxStep DEF ProbeInv
  <2>3. kind = "lib_p2p_handshake" => (Libp2pInv)'
    <3>1. kind = "lib_p2p_handshake" => Libp2p!Probe \/ Libp2p!TcpRemote(Libp2p!Messages)
      BY <1>3 DEF Probe, Environment
    <3> QED
      BY <3>1, Libp2pStep DEF ProbeInv
  <2>4. kind = "wss_json_rpc" => WssInv(WssRpc!Accepted)'
    <3>1. kind = "wss_json_rpc" => WssRpc!Probe \/ WssRpc!TcpRemote(WssRpc!Messages)
      BY <1>3 DEF Probe, Environment
    <3> QED
      BY <3>1, WssRpcStep DEF ProbeInv
  <2>5. kind = "wss_subscribe" => WssInv(WssSub!Accepted)'
    <3>1. kind = "wss_subscribe" => WssSub!Probe \/ WssSub!TcpRemote(WssSub!Messages)
      BY <1>3 DEF Probe, Environment
    <3> QED
      BY <3>1, WssSubStep DEF ProbeInv
  <2>6. kind = "https_json_rpc" => HttpInv("https_json_rpc")'
    <3>1. kind = "https_json_rpc" => HttpRead!Probe \/ HttpRead!Server
      BY <1>3 DEF Probe, Environment
    <3> QED
      BY <3>1, HttpReadStep DEF ProbeInv
  <2>7. kind = "https_json_rpc_write" => HttpInv("https_json_rpc_write")'
    <3>1. kind = "https_json_rpc_write" => HttpWrite!Probe \/ HttpWrite!Server
      BY <1>3 DEF Probe, Environment
    <3> QED
      BY <3>1, HttpWriteStep DEF ProbeInv
  <2>8. kind = "beacon_https" => HttpInv("beacon_https")'
    <3>1. kind = "beacon_https" => HttpBeacon!Probe \/ HttpBeacon!Server
      BY <1>3 DEF Probe, Environment
    <3> QED
      BY <3>1, HttpBeaconStep DEF ProbeInv
  <2>9. kind = "http_control_body" => HttpInv("http_control")'
    <3>1. kind = "http_control_body" => ControlBody!Probe \/ ControlBody!Server
      BY <1>3 DEF Probe, Environment
    <3> QED
      BY <3>1, ControlBodyStep DEF ProbeInv
  <2>10. kind = "dns_compare" => (DnsInv)'
    <3>1. kind = "dns_compare" => Dns2!Probe
      BY <1>3 DEF Probe, Environment
    <3> QED
      BY <3>1, DnsStep DEF ProbeInv
  <2> QED
    BY <1>1, <2>1, <2>2, <2>3, <2>4, <2>5, <2>6, <2>7, <2>8, <2>9, <2>10 DEF ProbeInv
<1> QED
  BY <1>2, <1>3 DEF Next

LEMMA ProbeInvariant == Spec => []ProbeInv
  BY ProbeInit, ProbeStep, PTL DEF Spec

\* The endpoint proof of discv4 never leaves the node and the probe waiting
\* for each other: it takes a lost datagram to bring an attempt to a halt.
THEOREM NobodyWaitsForNobody == Spec => []NoStandoff
<1>1. ProbeInv => NoStandoff
  BY DEF ProbeInv, NoStandoff, Discv4!NoStandoff, Discv4Inv, SomebodyMoves
<1> QED
  BY <1>1, ProbeInvariant, PTL

\* No probe passes, and dns_compare suspects no block, without the evidence.
THEOREM VerdictsAreEvidenced == Spec => []VerdictIsEvidenced
<1>1. ProbeInv => VerdictIsEvidenced
  BY DEF ProbeInv, VerdictIsEvidenced, RlpxInv, HttpInv, Backed, DnsInv, HttpRead!PassNeedsAnswer,
         HttpWrite!PassNeedsAnswer, HttpBeacon!PassNeedsAnswer, ControlBody!PassNeedsAnswer
<1> QED
  BY <1>1, ProbeInvariant, PTL

\* The verdict of libp2p and of the WebSocket probes is one on the first
\* messages of the remote, however many follow and however fast they come: on
\* no others, and on these whenever they have arrived.
THEOREM FirstMessagesStand == Spec => FirstMessagesDecide
<1> DEFINE OnFirst ==
             /\ kind = "lib_p2p_handshake" => Libp2p!VerdictOnFirstLines
             /\ kind = "wss_json_rpc" => WssRpc!FirstTextDecides
             /\ kind = "wss_subscribe" => WssSub!FirstTextDecides
           Stay ==
             /\ kind = "lib_p2p_handshake" => Libp2p!LinesStand
             /\ kind = "wss_json_rpc" => WssRpc!FirstTextStands
             /\ kind = "wss_subscribe" => WssSub!FirstTextStands
<1>1. ProbeInv => OnFirst
  <2>1. FirstLines => Libp2p!VerdictOnFirstLines
    BY DEF FirstLines, Said, Libp2p!VerdictOnFirstLines
  <2>2. WssVerdict(WssRpc!Accepted) => WssRpc!FirstTextDecides
    BY DEF WssVerdict, FirstText, Texts, WssRpc!FirstTextDecides
  <2>3. WssVerdict(WssSub!Accepted) => WssSub!FirstTextDecides
    BY DEF WssVerdict, FirstText, Texts, WssRpc!Texts, WssSub!Texts, WssSub!FirstTextDecides
  <2> QED
    BY <2>1, <2>2, <2>3 DEF ProbeInv, Libp2pInv, WssInv
<1>2. ASSUME ProbeInv, Next, kind = "lib_p2p_handshake"
      PROVE  Libp2p!LinesStand
  <2>1. Libp2p!Probe \/ Libp2p!TcpRemote(Libp2p!Messages) \/ pc = "done"
    BY <1>2 DEF Next, Probe, Environment, Returned
  <2>2. Libp2p!TcpRemote(Libp2p!Messages) => pc' = pc
    BY DEF Libp2p!TcpRemote, Libp2p!Arrive, Libp2p!Say, Libp2p!HangUp, Libp2p!Reset, Libp2p!Cut
  <2>3. ASSUME pc = "reading_header", down # <<>>, Head(down) = "multistream"
        PROVE  pc' # "done"
    <3>1. Libp2p!Probe => Libp2p!ReadHeader
      BY <2>3, Libp2pMessages
         DEF Libp2p!Probe, Libp2p!Connect, Libp2p!ConnectFails, Libp2p!WriteHeader, Libp2p!WriteFails,
             Libp2p!ReadHeaderFails, Libp2p!StreamEnds, Libp2p!ProposeNoise, Libp2p!ReadNoise, Libp2p!Timeout
    <3> QED
      BY <2>1, <2>2, <2>3, <3>1 DEF Libp2p!ReadHeader
  <2>4. ASSUME pc = "reading_noise", down # <<>>, pc' = "done"
        PROVE  result'.ok
    <3>1. Libp2p!Probe => Libp2p!ReadNoise
      BY <2>4
         DEF Libp2p!Probe, Libp2p!Connect, Libp2p!ConnectFails, Libp2p!WriteHeader, Libp2p!WriteFails,
             Libp2p!ReadHeader, Libp2p!ReadHeaderFails, Libp2p!ProposeNoise, Libp2p!Timeout
    <3> QED
      BY <2>1, <2>2, <2>4, <3>1 DEF Libp2p!ReadNoise, Libp2p!Return
  <2> QED
    BY <2>3, <2>4 DEF Libp2p!LinesStand
<1>3. ASSUME ProbeInv, Next, kind = "wss_json_rpc"
      PROVE  WssRpc!FirstTextStands
  <2> SUFFICES ASSUME NEW text \in WssRpc!Texts, pc = "reading", WssRpc!Waits(text)
               PROVE  \/ pc' = "reading" /\ (WssRpc!Waits(text)' \/ down' = <<"rst">>)
                      \/ /\ pc' = "done" /\ result'.ok = (text \in WssRpc!Accepted)
                         /\ text \notin WssRpc!Accepted => result'.meta = WssRpc!Rejection(text)
    BY DEF WssRpc!FirstTextStands
  <2>1. WssInv(WssRpc!Accepted) /\ text \in Texts
    BY <1>3 DEF ProbeInv, Texts
  <2>2. WssRpc!Probe \/ WssRpc!TcpRemote(WssRpc!Messages)
    BY <1>3 DEF Next, Probe, Environment, Returned
  <2>3. WaitsIn(down, text)
    <3>1. PICK read \in Nat : Unjudged(read)
      BY <2>1 DEF WssInv
    <3>2. DOMAIN down = 1..Len(down)
      BY <3>1 DEF Unjudged, Stream, SocketTypes
    <3> QED
      BY <3>2 DEF WssRpc!Waits, WaitsIn
  <2>4. Stands(text, text \in WssRpc!Accepted, WssRpc!Rejection(text))
    BY <2>1, <2>2, <2>3, WssRpcStands
  <2>5. pc' = "reading" /\ WaitsIn(down', text) => WssRpc!Waits(text)'
    <3>1. WssInv(WssRpc!Accepted)'
      BY <2>1, <2>2, WssRpcStep
    <3>2. pc' = "reading" => DOMAIN down' = 1..Len(down')
      BY <3>1 DEF WssInv, Unjudged, Stream, SocketTypes
    <3> QED
      BY <3>2 DEF WssRpc!Waits, WaitsIn
  <2> QED
    BY <2>4, <2>5 DEF Stands
<1>4. ASSUME ProbeInv, Next, kind = "wss_subscribe"
      PROVE  WssSub!FirstTextStands
  <2> SUFFICES ASSUME NEW text \in WssSub!Texts, pc = "reading", WssSub!Waits(text)
               PROVE  \/ pc' = "reading" /\ (WssSub!Waits(text)' \/ down' = <<"rst">>)
                      \/ /\ pc' = "done" /\ result'.ok = (text \in WssSub!Accepted)
                         /\ text \notin WssSub!Accepted => result'.meta = WssSub!Rejection(text)
    BY DEF WssSub!FirstTextStands
  <2>1. WssInv(WssSub!Accepted) /\ text \in Texts
    BY <1>4 DEF ProbeInv, Texts, WssRpc!Texts, WssSub!Texts
  <2>2. WssSub!Probe \/ WssSub!TcpRemote(WssSub!Messages)
    BY <1>4 DEF Next, Probe, Environment, Returned
  <2>3. WaitsIn(down, text)
    <3>1. PICK read \in Nat : Unjudged(read)
      BY <2>1 DEF WssInv
    <3>2. DOMAIN down = 1..Len(down)
      BY <3>1 DEF Unjudged, Stream, SocketTypes
    <3> QED
      BY <3>2 DEF WssSub!Waits, WaitsIn
  <2>4. Stands(text, text \in WssSub!Accepted, WssSub!Rejection(text))
    BY <2>1, <2>2, <2>3, WssSubStands
  <2>5. pc' = "reading" /\ WaitsIn(down', text) => WssSub!Waits(text)'
    <3>1. WssInv(WssSub!Accepted)'
      BY <2>1, <2>2, WssSubStep
    <3>2. pc' = "reading" => DOMAIN down' = 1..Len(down')
      BY <3>1 DEF WssInv, Unjudged, Stream, SocketTypes
    <3> QED
      BY <3>2 DEF WssSub!Waits, WaitsIn
  <2> QED
    BY <2>4, <2>5 DEF Stands
<1>5. ProbeInv /\ [Next]_vars => [Stay]_vars
  BY <1>2, <1>3, <1>4
<1> HIDE DEF OnFirst, Stay
<1>6. Spec => []OnFirst /\ [][Stay]_vars
  BY <1>1, <1>5, ProbeInvariant, PTL DEF Spec
<1> QED
  BY <1>6 DEF FirstMessagesDecide, OnFirst, Stay

\* What has arrived decides in favour of the node: a PONG behind any strays,
\* any reaction to the auth packet.
THEOREM EvidenceIsTaken == Spec => EvidencePasses
<1>1. ASSUME ProbeInv, [Next]_vars, kind = "discv4_ping"
      PROVE  Discv4!PongPasses(result')
  <2>1. SUFFICES ASSUME pc = "receiving", pc' = "done",
                        Discv4!Delivered \cap Discv4!Pongs # {}, "recv_error" \notin Discv4!Delivered
                 PROVE  result'.ok
    BY DEF Discv4!PongPasses
  <2>2. down # <<>> /\ Head(down) \in Discv4!Delivered
    BY <1>1, <2>1 DEF ProbeInv, Discv4Inv, Discv4Types, Discv4!Delivered
  <2>3. Discv4!Probe \/ Discv4!Network
    BY <1>1, <2>1 DEF Next, Probe, Environment, Returned, vars
  <2>4. Discv4!ReceivePong
    BY <2>1, <2>2, <2>3
       DEF Discv4!Probe, Discv4!Network, Discv4!Resolve, Discv4!ResolveFails, Discv4!BindFails, Discv4!SendPing,
           Discv4!SendFails, Discv4!ReceivePing, Discv4!ReceiveForeignPing, Discv4!ReceiveOther,
           Discv4!ReceiveFails, Discv4!Receives, Discv4!Timeout, Discv4!NodeReceives, Discv4!NodeSends,
           Discv4!Lose, Discv4!Stray
  <2> QED
    BY <2>4 DEF Discv4!ReceivePong, Discv4!Return
<1>2. ASSUME ProbeInv, [Next]_vars, kind = "rlpx_handshake"
      PROVE  Rlpx!ReactionPasses(result')
  <2>1. SUFFICES ASSUME pc = "reading", down # <<>>, pc' = "done"
                 PROVE  result'.ok
    BY DEF Rlpx!ReactionPasses
  <2>2. Rlpx!Probe \/ Rlpx!TcpRemote(Rlpx!Messages)
    BY <1>2, <2>1 DEF Next, Probe, Environment, Returned, vars
  <2>3. Rlpx!Read
    BY <2>1, <2>2
       DEF Rlpx!Probe, Rlpx!Prepare, Rlpx!CannotPrepare, Rlpx!Connect, Rlpx!ConnectFails, Rlpx!WriteAuth,
           Rlpx!WriteFails, Rlpx!Timeout, Rlpx!TcpRemote, Rlpx!Arrive, Rlpx!Say, Rlpx!HangUp,
           Rlpx!Reset, Rlpx!Cut
  <2> QED
    BY <2>3 DEF Rlpx!Read, Rlpx!Return
<1> QED
  BY <1>1, <1>2, ProbeInvariant, PTL DEF Spec, EvidencePasses

=============================================================================
