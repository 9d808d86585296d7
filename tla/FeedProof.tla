------------------------------ MODULE FeedProof ------------------------------
(***************************************************************************)
(* Proofs about Feed, for any sizes, any number of connections and an      *)
(* exchange that sends anything.  The endpoint's invariant is that of      *)
(* WebSocketPeerProof: its lemmas are about steps, not about a user.       *)
(***************************************************************************)
EXTENDS FeedInvariant, WebSocketPeerProof

USE WebSocketAssumption, PeerAssumption, FeedAssumption

-----------------------------------------------------------------------------
LEMMA FeedParts ==
  ASSUME FeedInv
  PROVE  /\ PeerInv /\ FeedTypes /\ PlacesAgree /\ NothingWaits
         /\ PendingInv /\ ChannelInv /\ PairInv /\ LeaveInv
         /\ nonblocking = FALSE /\ TypeInv /\ ArrivalsInv /\ HandshakeState /\ FragmentsInv /\ MessagesWhole
         /\ Buffers /\ Out \in Seq(Frame) /\ Returned \in Nat
         /\ handed \in Seq(Seq(Nat)) /\ writes \in Nat
  BY PartsOf DEF FeedInv, FeedTypes, TypeInv, TypeOK, MessageInv

LEMMA FirstOfHanded ==
  ASSUME FeedInv
  PROVE  \A i \in DOMAIN handed : 1 \in DOMAIN handed[i] /\ handed[i][1] \in 1 .. Returned
  BY FeedParts, FirstKnown

(* A frame that the thread looks at was read. *)
LEMMA MessageKnown ==
  ASSUME FeedInv, Pending
  PROVE  /\ Len(handed) \in DOMAIN handed /\ 1 \in DOMAIN Message /\ Message[1] \in 1 .. Returned
         /\ Message \in Seq(Nat)
<1>1. handed # << >> /\ handed \in Seq(Seq(Nat))
  BY FeedParts DEF PendingInv
<1>2. Len(handed) \in DOMAIN handed
  BY <1>1
<1>3. QED
  BY <1>1, <1>2, FirstOfHanded DEF Message

(* A close frame that was handed over has been answered, and the answer is *)
(* written if nothing waits.                                               *)
LEMMA AnswerWritten ==
  ASSUME FeedInv, CloseHanded, state # "Terminated", out_buffer = << >>
  PROVE  CloseWritten
<1>1. HandshakeState /\ state \in {"Active", "ClosedByPeer"} /\ Buffers
  BY FeedParts DEF PlacesAgree
<1>2. CloseQueued
  BY <1>1 DEF HandshakeState
<1>3. outgoing = Out
  BY <1>1, AllWritten
<1>4. QED
  BY <1>2, <1>3 DEF CloseQueued, CloseWritten

LEMMA ActiveMeansOpen ==
  ASSUME FeedInv, state = "Active"
  PROVE  ~CloseHanded /\ ~CloseQueued
  BY FeedParts DEF HandshakeState

-----------------------------------------------------------------------------
(* Steps by which no frame is read, queued or sent down the channel *)
LEMMA ChannelKept ==
  ASSUME FeedInv, SameBehind, UNCHANGED <<handed, channel, conns>>,
         Pending' => Pending, ~Connected => ~Connected',
         Pending => \/ Pending' \/ ~Connected'
                    \/ OpOf(Message[1]) \in {"ping", "pong", "close"}
  PROVE  ChannelInv'
<1>1. ChannelInv
  BY FeedParts
<1>2. \A i \in DOMAIN handed : 1 \in DOMAIN handed[i] /\ handed[i][1] \in 1 .. Returned
  BY FirstOfHanded
<1>3. \A i \in DOMAIN handed : IsMessage(i)' = IsMessage(i)
  BY <1>2 DEF IsMessage, IsData, OpOf, SameBehind
<1>4. \A i : (InChannel(i)' <=> InChannel(i)) /\ (Mine(i)' <=> Mine(i))
  BY DEF InChannel, Mine
<1>5. \A i \in DOMAIN handed : IsMessage(i) /\ i = Len(handed) /\ (Pending \/ ~Connected) =>
         Pending' \/ ~Connected'
  <2> SUFFICES ASSUME NEW i \in DOMAIN handed, IsMessage(i), i = Len(handed), Pending, ~Pending', Connected'
               PROVE  FALSE
    OBVIOUS
  <2>1. OpOf(Message[1]) \in {"data", "continue"}
    BY DEF IsMessage, IsData, Message
  <2>2. QED
    BY <2>1
<1>6. QED
  BY <1>1, <1>3, <1>4, <1>5 DEF ChannelInv

LEMMA PairsKept ==
  ASSUME FeedInv, SameBehind, Returned' = Returned, Out' = Out, handed' = handed,
         PendingPing <=> PendingPing', Leaving => Leaving'
  PROVE  PairInv'
<1>1. PairInv /\ (Pending => Message[1] \in 1 .. Returned)
  BY FeedParts, MessageKnown
<1>2. Message' = Message
  BY DEF Message
<1>3. \A n \in 1 .. Returned : arrivals'[n].op = arrivals[n].op
  BY DEF SameBehind
<1>4. \A n : (Both(n)' <=> Both(n)) /\ (Unpaired(n)' <=> Unpaired(n)) /\ (Queued(n, TRUE)' <=> Queued(n, TRUE))
  BY DEF Both, Queued, Unpaired
<1>5. \A i \in DOMAIN Out : IsPong(Out[i]) => Out[i].id \in 1 .. Returned /\ arrivals'[Out[i].id].op = "ping"
  BY <1>1, <1>3 DEF PairInv, OpOf
<1>6. \A n \in 1 .. Returned : arrivals'[n].op = "ping" =>
         Both(n)' \/ (Unpaired(n)' /\ ((PendingPing' /\ n = Message[1]) \/ Leaving'))
  BY <1>1, <1>3, <1>4 DEF PairInv, OpOf
<1>7. PendingPing' => Message[1] \in 1 .. Returned /\ Queued(Message[1], TRUE)' /\ Unpaired(Message[1])'
  BY <1>1, <1>2, <1>4 DEF PairInv
<1>8. QED
  BY <1>1, <1>2, <1>5, <1>6, <1>7 DEF PairInv, OpOf

LEMMA FeedQuiet ==
  ASSUME FeedInv, PeerInv', FeedTypes', PlacesAgree', NothingWaits',
         SameBehind, Returned' = Returned, Out' = Out, Extends(outgoing, outgoing'),
         UNCHANGED <<handed, channel, conns>>,
         ~Connected => ~Connected', Leaving => Leaving',
         Pending' => Pending /\ state' = state,
         Pending => \/ Pending'
                    \/ OpOf(Message[1]) \in {"pong", "close"}
                    \/ ~Connected' /\ OpOf(Message[1]) = "data",
         Leaving' /\ CloseHanded /\ ~broken' => (Leaving /\ ~broken) \/ CloseWritten
  PROVE  FeedInv'
<1>1. Pending => Message[1] \in 1 .. Returned
  BY MessageKnown
<1>2. Pending => arrivals'[Message[1]].op = arrivals[Message[1]].op
  BY <1>1 DEF SameBehind
<1>3. Message' = Message
  BY DEF Message
<1>4. PendingPing <=> PendingPing'
  <2>1. PendingPing => Pending'
    BY DEF PendingPing
  <2>2. PendingPing => PendingPing'
    BY <1>2, <1>3, <2>1 DEF PendingPing, OpOf
  <2>3. PendingPing' => PendingPing
    BY <1>2, <1>3 DEF PendingPing, OpOf
  <2>4. QED
    BY <2>2, <2>3
<1>5. PairInv'
  BY <1>4, PairsKept
<1>6. ChannelInv'
  BY ChannelKept
<1>7. PendingInv'
  BY <1>2, <1>3, FeedParts DEF PendingInv, OpOf
<1>8. LeaveInv'
  <2>1. CloseHanded' <=> CloseHanded
    BY FeedParts, HandedAlone
  <2>2. Buffers /\ Buffers'
    BY FeedParts, OutTyped DEF PeerInv, TypeInv, TypeOK, Buffers
  <2>3. CloseWritten => CloseWritten'
    BY <2>2, WrittenStays
  <2>4. QED
    BY <2>1, <2>3, FeedParts DEF LeaveInv
<1>9. QED
  BY <1>5, <1>6, <1>7, <1>8 DEF FeedInv

-----------------------------------------------------------------------------
(* The thread's steps, but for those by which a frame is read *)
LEMMA FreshPrimed == Fresh' => PeerInv'
  BY FreshInv, PTL

LEMMA ConnectStep ==
  ASSUME FeedInv, Connect
  PROVE  FeedInv'
<1>1. FeedTypes /\ ChannelInv /\ TypeInv
  BY FeedParts
<1>2. PeerInv'
  <2>1. Fresh'
    BY <1>1, Zenon DEF Connect, Fresh, EndpointInit, TypeInv, TypeOK
  <2>2. QED
    BY <2>1, FreshPrimed
<1>3. /\ feed' = "call" /\ conns' = conns + 1 /\ state' = "Active" /\ pc' = "idle" /\ result' = "Ok"
      /\ out_buffer' = << >> /\ outgoing' = << >> /\ inbox' = << >> /\ handed' = << >> /\ arrivals' = << >>
      /\ UNCHANGED <<nonblocking, channel, receiver>>
  BY DEF Connect
<1>4. FeedTypes'
  BY <1>1, <1>3 DEF FeedTypes, Places
<1>5. PlacesAgree' /\ NothingWaits' /\ PendingInv'
  BY <1>1, <1>3 DEF FeedTypes, PlacesAgree, NothingWaits, PendingInv, Pending, Connected
<1>6. ~Leaving' /\ ~PendingPing'
  BY <1>3 DEF Leaving, PendingPing, Pending, Connected
<1>7. LeaveInv'
  BY <1>6 DEF LeaveInv
<1>8. \A j \in DOMAIN channel : channel'[j][1] \in 1 .. conns' /\ ~Mine(j)'
  <2>1. \A j \in DOMAIN channel : channel[j][1] \in 1 .. conns
    BY <1>1 DEF ChannelInv
  <2>2. QED
    BY <1>1, <1>3, <2>1 DEF Mine, FeedTypes
<1>9. ChannelInv'
  <2>1. DOMAIN handed' = {}
    BY <1>3
  <2>2. QED
    BY <1>3, <1>8, <2>1 DEF ChannelInv
<1>10. PairInv'
  <2>1. Out' = << >> /\ Returned' = 0
    BY <1>3, ConcatEmptySeq DEF Out, Returned
  <2>2. DOMAIN Out' = {} /\ 1 .. Returned' = {}
    BY <2>1
  <2>3. QED
    BY <1>6, <2>2 DEF PairInv
<1>11. QED
  BY <1>2, <1>4, <1>5, <1>7, <1>9, <1>10 DEF FeedInv

(* Steps that leave the endpoint alone *)
LEMMA EndpointAlone ==
  ASSUME FeedInv, UNCHANGED vars
  PROVE  /\ PeerInv' /\ SameBehind /\ Returned' = Returned /\ Out' = Out /\ Extends(outgoing, outgoing')
         /\ UNCHANGED <<state, pc, result, out_buffer, outgoing, unflushed_additional, handed, nonblocking, broken>>
<1>1. PeerInv'
  BY FeedParts, PeerStutter
<1>2. UNCHANGED <<state, pc, result, out_buffer, outgoing, unflushed_additional, handed, inbox, arrivals,
                  nonblocking, broken>>
  BY DEF vars, wsVars, endpoint, stream, link
<1>3. SameBehind /\ Returned' = Returned /\ Out' = Out /\ Extends(outgoing, outgoing')
  BY <1>2, FeedParts DEF SameBehind, Returned, Out, Extends, Buffers
<1>4. QED
  BY <1>1, <1>2, <1>3

LEMMA WaitStep ==
  ASSUME FeedInv, ConnectFails \/ Wake \/ ReceiverGoes
  PROVE  FeedInv'
<1>1. /\ UNCHANGED <<vars, channel, conns>>
      /\ \/ feed' = feed /\ receiver' = FALSE
         \/ ~Connected /\ feed' \in {"connecting", "sleeping"} /\ receiver' = receiver
  BY DEF ConnectFails, Wake, ReceiverGoes, Connected
<1>2. /\ PeerInv' /\ SameBehind /\ Returned' = Returned /\ Out' = Out /\ Extends(outgoing, outgoing')
      /\ UNCHANGED <<state, pc, result, out_buffer, unflushed_additional, handed, nonblocking, broken>>
  BY <1>1, EndpointAlone
<1>3. FeedTypes'
  BY <1>1, <1>2, FeedParts DEF FeedTypes, Places
<1>4. PlacesAgree' /\ NothingWaits'
  BY <1>1, <1>2, FeedParts DEF PlacesAgree, NothingWaits, Connected
<1>5. (Pending' <=> Pending) /\ (~Connected => ~Connected') /\ (Leaving <=> Leaving')
  BY <1>1, <1>2 DEF Pending, Connected, Leaving
<1>6. QED
  BY <1>1, <1>2, <1>3, <1>4, <1>5, FeedQuiet

LEMMA LoopsStep ==
  ASSUME FeedInv, PongSent \/ Ignore
  PROVE  FeedInv'
<1>1. UNCHANGED <<vars, conns, channel, receiver>> /\ feed' = "call" /\ result = "Ok" /\ pc = "idle"
      /\ Connected
      /\ \/ feed = "flushing"
         \/ Pending /\ OpOf(Message[1]) \in {"pong", "close"}
  BY FeedParts DEF PongSent, Ignore, Got, Pending, Connected, PlacesAgree
<1>2. /\ PeerInv' /\ SameBehind /\ Returned' = Returned /\ Out' = Out /\ Extends(outgoing, outgoing')
      /\ UNCHANGED <<state, pc, result, out_buffer, unflushed_additional, handed, nonblocking, broken>>
  BY <1>1, EndpointAlone
<1>3. FeedTypes'
  BY <1>1, <1>2, FeedParts DEF FeedTypes, Places
<1>4. PlacesAgree'
  BY <1>1, <1>2, FeedParts DEF PlacesAgree, Connected
<1>5. NothingWaits'
  BY <1>1, <1>2, FeedParts DEF NothingWaits, Pending
<1>6. ~Pending' /\ Connected' /\ ~Leaving /\ ~Leaving' /\ (feed = "flushing" => ~Pending)
  BY <1>1, <1>2 DEF Pending, Connected, Leaving
<1>7. QED
  BY <1>1, <1>2, <1>3, <1>4, <1>5, <1>6, FeedQuiet

LEMMA CallReadStep ==
  ASSUME FeedInv, CallRead
  PROVE  FeedInv'
<1>1. /\ feed = "call" /\ feed' = "await" /\ Read
      /\ UNCHANGED <<arrivals, writes, conns, channel, receiver>>
  BY DEF CallRead
<1>2. pc = "idle" /\ result = "Ok" /\ state # "Terminated"
  BY <1>1, FeedParts DEF PlacesAgree, Connected
<1>3. /\ pc' = "loop" /\ result' = "Ok"
      /\ UNCHANGED <<state, out_buffer, unflushed_additional, handed, stream>>
  BY <1>1, <1>2 DEF Read
<1>4. PeerInv'
  BY <1>1, FeedParts, CallStep
<1>5. SameBehind /\ Returned' = Returned /\ Out' = Out /\ Extends(outgoing, outgoing')
      /\ nonblocking' = nonblocking
  BY <1>1, <1>3, FeedParts DEF stream, link, SameBehind, Returned, Out, Extends, Buffers
<1>6. FeedTypes'
  BY <1>1, <1>5, FeedParts DEF FeedTypes, Places
<1>7. PlacesAgree'
  BY <1>1, <1>2, <1>3, FeedParts DEF PlacesAgree, Connected
<1>8. NothingWaits'
  BY <1>1, <1>2, <1>3, FeedParts DEF NothingWaits
<1>9. ~Pending' /\ ~Pending /\ Connected /\ ~Leaving /\ ~Leaving'
  BY <1>1, <1>3 DEF Pending, Connected, Leaving
<1>10. QED
  BY <1>1, <1>3, <1>4, <1>5, <1>6, <1>7, <1>8, <1>9, FeedQuiet

(* looping_msg returns. *)
LEMMA LetGoStep ==
  ASSUME FeedInv, LetGo, pc = "idle", Connected,
         \/ result # "Ok"
         \/ Pending /\ OpOf(Message[1]) = "data"
  PROVE  FeedInv'
<1>1. /\ feed' = "sleeping" /\ pc' = "dropped"
      /\ UNCHANGED <<state, out_buffer, unflushed_additional, incomplete, result, handed,
                     stream, arrivals, writes, conns, channel, receiver>>
  BY DEF LetGo
<1>2. TypeInv /\ PlaceInv /\ (result = "Closed" => Done)
  BY FeedParts, PartsOf
<1>3. PeerInv'
  <2>1. PlaceInv' /\ pc' \in Locations /\ result' \in Results /\ writes' \in Nat
    BY <1>1, <1>2 DEF PlaceInv, Locations, TypeInv, TypeOK
  <2>2. QED
    BY <1>1, <1>2, <2>1, FeedParts, ThreadMoves
<1>4. SameBehind /\ Returned' = Returned /\ Out' = Out /\ Extends(outgoing, outgoing')
      /\ nonblocking' = nonblocking /\ broken' = broken
  BY <1>1, FeedParts DEF stream, link, SameBehind, Returned, Out, Extends, Buffers
<1>5. FeedTypes'
  BY <1>1, <1>4, FeedParts DEF FeedTypes, Places
<1>6. PlacesAgree' /\ NothingWaits'
  BY <1>1, FeedParts DEF PlacesAgree, NothingWaits, Connected
<1>7. ~Connected' /\ Leaving' /\ ~Pending'
  BY <1>1 DEF Connected, Leaving, Pending
<1>8. CloseHanded => Leaving
  <2> SUFFICES ASSUME CloseHanded PROVE Leaving
    OBVIOUS
  <2>1. state # "Active"
    BY ActiveMeansOpen
  <2>2. result # "Ok"
    BY <2>1, FeedParts DEF PendingInv
  <2>3. feed = "await"
    BY <2>1, <2>2, FeedParts DEF PlacesAgree, Connected, FeedTypes, Places
  <2>4. QED
    BY <2>2, <2>3 DEF Leaving
<1>9. Pending => OpOf(Message[1]) = "data"
  BY DEF Pending
<1>10. QED
  BY <1>1, <1>3, <1>4, <1>5, <1>6, <1>7, <1>8, <1>9, FeedQuiet

(* The exchange *)
LEMMA ExchangeStep ==
  ASSUME FeedInv, Exchange
  PROVE  FeedInv'
<1>1. Connected /\ (PeerSends \/ PeerShuts \/ Break) /\ UNCHANGED <<feed, conns, channel, receiver>>
  BY DEF Exchange, feedVars
<1>2. PeerInv'
  BY <1>1, FeedParts, PeerStep
<1>3. UNCHANGED <<out_buffer, outgoing, unflushed_additional, handed, nonblocking, state, pc, result>>
      /\ broken' \in {broken, TRUE}
  BY <1>1 DEF PeerSends, PeerShuts, Break, endpoint
<1>4. Returned' = Returned /\ SameBehind
  <2>1. CASE PeerSends
    BY <2>1, FeedParts, PeerSendsInput
  <2>2. CASE PeerShuts
    BY <2>2, FeedParts, InputSame DEF PeerShuts
  <2>3. CASE Break
    BY <2>3, FeedParts, BreakInput
  <2>4. QED
    BY <1>1, <2>1, <2>2, <2>3
<1>5. Out' = Out /\ Extends(outgoing, outgoing')
  BY <1>3, FeedParts DEF Out, Extends, Buffers
<1>6. FeedTypes'
  BY <1>1, <1>3, FeedParts DEF FeedTypes
<1>7. PlacesAgree' /\ NothingWaits'
  BY <1>1, <1>3, FeedParts DEF PlacesAgree, NothingWaits, Connected
<1>8. (Pending <=> Pending') /\ (Leaving <=> Leaving') /\ Connected'
  BY <1>1, <1>3 DEF Pending, Leaving, Connected
<1>9. ~broken' => ~broken
  BY <1>3
<1>10. QED
  BY <1>1, <1>2, <1>3, <1>4, <1>5, <1>6, <1>7, <1>8, <1>9, FeedQuiet

LEMMA TextStep ==
  ASSUME FeedInv, TakeText
  PROVE  FeedInv'
<1>1. Pending /\ OpOf(Message[1]) = "data" /\ pc = "idle" /\ result = "Ok" /\ feed = "await" /\ Connected
  BY DEF TakeText, Got, Pending, Connected
<1>2. CASE ~receiver
  BY <1>1, <1>2, LetGoStep DEF TakeText
<1>3. CASE receiver
  <2>1. /\ channel' = Append(channel, <<conns, Message>>) /\ feed' = "call"
        /\ UNCHANGED <<vars, conns, receiver>>
    BY <1>3 DEF TakeText
  <2>2. /\ PeerInv' /\ SameBehind /\ Returned' = Returned /\ Out' = Out
        /\ UNCHANGED <<state, pc, result, out_buffer, outgoing, unflushed_additional, handed, nonblocking, broken>>
    BY <2>1, EndpointAlone
  <2> DEFINE last == Len(handed)
             end == Len(channel) + 1
  <2>3. /\ last \in DOMAIN handed /\ Message = handed[last] /\ Message \in Seq(Nat)
        /\ handed \in Seq(Seq(Nat)) /\ channel \in Seq(Nat \X Seq(Nat)) /\ conns \in 1 .. conns
        /\ conns \in Nat /\ DOMAIN handed = 1 .. last /\ last \in Nat
    BY <1>1, FeedParts, MessageKnown DEF Message, FeedTypes, PlacesAgree
  <2> HIDE DEF last
  <2>4. /\ channel' \in Seq(Nat \X Seq(Nat)) /\ DOMAIN channel = 1 .. Len(channel) /\ Len(channel) \in Nat
        /\ DOMAIN channel' = 1 .. end
        /\ \A j \in DOMAIN channel : j \in DOMAIN channel' /\ channel'[j] = channel[j] /\ j < end
        /\ channel'[end] = <<conns, Message>> /\ end \in DOMAIN channel'
        /\ \A j \in DOMAIN channel' : j \in DOMAIN channel \/ j = end
    <3>1. <<conns, Message>> \in Nat \X Seq(Nat)
      BY <2>3
    <3>2. QED
      BY <2>1, <2>3, <3>1, SMTT(40)
  <2> HIDE DEF end
  <2>5. /\ channel'[end][1] = conns /\ channel'[end][2] = handed[last]
    BY <2>3, <2>4
  <2>6. ~Pending' /\ Connected' /\ ~Leaving /\ ~Leaving' /\ ~PendingPing /\ ~PendingPing'
    BY <1>1, <2>1, <2>2 DEF Pending, PendingPing, Connected, Leaving
  <2>7. FeedTypes' /\ PlacesAgree' /\ PendingInv' /\ LeaveInv'
    BY <1>1, <2>1, <2>2, <2>4, <2>6, FeedParts
       DEF FeedTypes, Places, PlacesAgree, Connected, PendingInv, LeaveInv
  <2>8. NothingWaits'
    BY <1>1, <2>1, <2>2, FeedParts DEF NothingWaits
  <2>9. PairInv'
    BY <2>2, <2>6, PairsKept
  <2>10. /\ \A i \in DOMAIN handed : IsMessage(i)' = IsMessage(i)
         /\ IsMessage(last)
    <3>1. \A i \in DOMAIN handed : 1 \in DOMAIN handed[i] /\ handed[i][1] \in 1 .. Returned
      BY FirstOfHanded
    <3>2. \A i \in DOMAIN handed : IsMessage(i)' = IsMessage(i)
      BY <2>2, <3>1 DEF IsMessage, IsData, OpOf, SameBehind
    <3>3. QED
      BY <1>1, <2>3, <3>2 DEF IsMessage, IsData
  <2>11. ChannelInv /\ MessagesWhole
    BY FeedParts
  <2>12. \A j \in DOMAIN channel : Mine(j)' <=> Mine(j)
    BY <2>1, <2>4 DEF Mine
  <2>13. \A i \in DOMAIN handed : InChannel(i) \/ i = last => InChannel(i)'
    <3>1. \A i \in DOMAIN handed : InChannel(i) => InChannel(i)'
      BY <2>2, <2>4, <2>12 DEF InChannel
    <3>2. \A j : j = end => Mine(j)'
      BY <2>1, <2>5 DEF Mine
    <3>3. \A i : i = last => InChannel(i)'
      BY <2>2, <2>4, <2>5, <3>2 DEF InChannel
    <3>4. QED
      BY <3>1, <3>3
  <2>14. \A i \in DOMAIN handed : IsMessage(i)' => InChannel(i)'
    BY <1>1, <2>10, <2>11, <2>13 DEF ChannelInv, last
  <2>15. \A j \in DOMAIN channel' : channel'[j][1] \in 1 .. conns'
    BY <2>1, <2>3, <2>4, <2>5, <2>11 DEF ChannelInv
  <2>16. \A j \in DOMAIN channel : Mine(j) =>
           \E i \in DOMAIN handed : IsMessage(i) /\ channel[j][2] = handed[i] /\ i < last
    <3>1. \A j \in DOMAIN channel : Mine(j) =>
            \E i \in DOMAIN handed : IsMessage(i) /\ channel[j][2] = handed[i] /\ i # last
      BY <1>1, <2>11 DEF ChannelInv, last
    <3>2. \A i \in DOMAIN handed : i # last => i < last
      BY <2>3
    <3>3. QED
      BY <3>1, <3>2
  <2>17. \A j \in DOMAIN channel' : Mine(j)' =>
           \E i \in DOMAIN handed' : IsMessage(i)' /\ channel'[j][2] = handed'[i]
    <3> SUFFICES ASSUME NEW j \in DOMAIN channel', Mine(j)'
                 PROVE  \E i \in DOMAIN handed : IsMessage(i) /\ channel'[j][2] = handed[i]
      BY <2>2, <2>10
    <3>1. CASE j \in DOMAIN channel
      BY <2>4, <2>12, <2>16, <3>1
    <3>2. CASE j = end
      BY <2>3, <2>5, <2>10, <3>2
    <3>3. QED
      BY <2>4, <3>1, <3>2
  <2>18. ASSUME NEW i \in DOMAIN channel', NEW j \in DOMAIN channel', Mine(i)', Mine(j)', i < j,
                NEW k \in DOMAIN channel'[i][2], NEW l \in DOMAIN channel'[j][2]
         PROVE  channel'[i][2][k] < channel'[j][2][l]
    <3>0. i \in DOMAIN channel
      <4>1. i \in 1 .. end /\ j \in 1 .. end /\ i < j
        BY <2>4, <2>18
      <4>2. i \in 1 .. Len(channel)
        BY <2>4, <4>1 DEF end
      <4>3. QED
        BY <2>4, <4>2
    <3>1. i \in DOMAIN channel /\ Mine(i) /\ channel'[i] = channel[i]
      BY <2>4, <2>12, <2>18, <3>0
    <3>2. CASE j \in DOMAIN channel
      BY <2>4, <2>11, <2>12, <2>18, <3>1, <3>2 DEF ChannelInv
    <3>3. CASE j = end
      <4>1. PICK h \in DOMAIN handed : IsMessage(h) /\ channel[i][2] = handed[h] /\ h < last
        BY <2>16, <3>1
      <4>2. \A a \in DOMAIN handed[h], b \in DOMAIN handed[last] : handed[h][a] < handed[last][b]
        BY <2>3, <2>10, <2>11, <4>1 DEF MessagesWhole
      <4>3. QED
        BY <2>5, <2>18, <3>1, <3>3, <4>1, <4>2
    <3>4. QED
      BY <2>4, <3>2, <3>3
  <2>19. ChannelInv'
    BY <2>2, <2>6, <2>14, <2>15, <2>17, <2>18 DEF ChannelInv
  <2>20. QED
    BY <2>2, <2>7, <2>8, <2>9, <2>19 DEF FeedInv
<1>4. QED
  BY <1>2, <1>3

(* send(Message::Pong(data)), first half *)
LEMMA AnswerStep ==
  ASSUME FeedInv, AnswerPing
  PROVE  FeedInv'
<1> DEFINE n == Message[1]
           f == Plain("pong", n)
<1>1. /\ PendingPing /\ pc = "idle" /\ feed = "await" /\ result = "Ok" /\ feed' = "ponging"
      /\ Write("pong", n)
      /\ UNCHANGED <<arrivals, writes, conns, channel, receiver>>
  BY DEF AnswerPing, Got, PendingPing, Pending
<1>2. Pending /\ n \in 1 .. Returned /\ OpOf(n) = "ping" /\ n \in Nat
  BY <1>1, MessageKnown, FeedParts DEF PendingPing
<1>3. state = "Active"
  BY <1>2, FeedParts DEF PendingInv
<1> HIDE DEF n
<1>4. PeerInv'
  BY <1>1, <1>2, FeedParts, WriteStep
<1>5. f \in Frame /\ f.op = "pong" /\ ~f.auto /\ f.id = n
  <2>1. "pong" \in Ops
    BY DEF Ops
  <2>2. f \in Frame
    BY <1>2, <2>1, FrameTypes
  <2>3. QED
    BY <2>2 DEF Plain
<1>6. /\ WriteFrame(f, "Active", FALSE)
      /\ UNCHANGED <<state, pc, handed, inbox, link>>
  BY <1>1, <1>3 DEF Write, IsActive
<1> HIDE DEF f
<1>7. Out' = Append(Out, f) /\ Extends(outgoing, outgoing')
  BY <1>5, <1>6, FeedParts, WriteFrameFacts DEF TypeInv, TypeOK
<1>8. Returned' = Returned /\ SameBehind
  BY <1>1, <1>6, FeedParts DEF Returned, SameBehind
<1>9. FeedTypes' /\ PlacesAgree' /\ NothingWaits'
  BY <1>1, <1>3, <1>6, FeedParts DEF FeedTypes, Places, PlacesAgree, Connected, NothingWaits, link
<1>10. ~Pending' /\ ~Leaving' /\ Connected' /\ ~PendingPing' /\ ~Leaving /\ Connected
  BY <1>1 DEF Pending, PendingPing, Leaving, Connected
<1>11. PendingInv' /\ LeaveInv'
  BY <1>10 DEF PendingInv, LeaveInv
<1>12. ChannelInv'
  <2>1. OpOf(Message[1]) \in {"ping", "pong", "close"}
    BY <1>2 DEF n
  <2>2. QED
    BY <1>1, <1>6, <1>8, <1>10, <2>1, ChannelKept
<1>13. PairInv'
  <2>1. /\ DOMAIN Out = 1 .. Len(Out) /\ Len(Out) \in Nat
        /\ DOMAIN Out' = 1 .. Len(Out) + 1
        /\ \A i \in DOMAIN Out : Out'[i] = Out[i] /\ i \in DOMAIN Out'
        /\ Out'[Len(Out) + 1] = f /\ Len(Out) + 1 \in DOMAIN Out'
        /\ \A i \in DOMAIN Out' : i \in DOMAIN Out \/ i = Len(Out) + 1
    BY <1>5, <1>7, FeedParts, OutGrows
  <2>2. PairInv /\ Unpaired(n) /\ Queued(n, TRUE)
    BY <1>1, FeedParts DEF PairInv, n
  <2>3. \A m \in 1 .. Returned : arrivals'[m].op = arrivals[m].op
    BY <1>1
  <2>4. \A i \in DOMAIN Out' : IsPong(Out'[i]) =>
          Out'[i].id \in 1 .. Returned' /\ arrivals'[Out'[i].id].op = "ping"
    <3> SUFFICES ASSUME NEW i \in DOMAIN Out', IsPong(Out'[i])
                 PROVE  Out'[i].id \in 1 .. Returned /\ arrivals[Out'[i].id].op = "ping"
      BY <1>1, <1>8
    <3>1. CASE i \in DOMAIN Out
      BY <2>1, <2>2, <3>1 DEF PairInv, OpOf
    <3>2. CASE i = Len(Out) + 1
      BY <1>2, <1>5, <2>1, <3>2 DEF OpOf
    <3>3. QED
      BY <2>1, <3>1, <3>2
  <2>5. ASSUME NEW i \in DOMAIN Out', NEW j \in DOMAIN Out', IsPong(Out'[i]), IsPong(Out'[j]), i < j
        PROVE  \/ Out'[i].id < Out'[j].id
               \/ Out'[i].id = Out'[j].id /\ Out'[i].auto /\ ~Out'[j].auto
    <3>1. i \in DOMAIN Out
      BY <2>1, <2>5
    <3>2. CASE j \in DOMAIN Out
      BY <2>1, <2>2, <2>5, <3>1, <3>2 DEF PairInv
    <3>3. CASE j = Len(Out) + 1
      BY <1>5, <2>1, <2>2, <2>5, <3>1, <3>3 DEF Unpaired
    <3>4. QED
      BY <2>1, <3>2, <3>3
  <2>6. \A m : Both(m) => Both(m)'
    BY <2>1 DEF Both, Queued
  <2>7. Both(n)'
    <3>1. Queued(n, TRUE)'
      <4>1. n' = n
        BY <1>6 DEF n, Message
      <4>2. QED
        BY <2>1, <2>2, <4>1 DEF Queued
    <3>2. Queued(n, FALSE)'
      <4>1. n' = n
        BY <1>6 DEF n, Message
      <4>2. IsPong(Out'[Len(Out) + 1])
        BY <1>5, <2>1 DEF IsPong
      <4>3. QED
        BY <1>5, <2>1, <4>1, <4>2 DEF Queued
    <3>3. QED
      BY <3>1, <3>2 DEF Both
  <2>8. \A m \in 1 .. Returned : OpOf(m) = "ping" => Both(m) \/ m = n
    BY <1>10, <2>2 DEF PairInv, n
  <2>9. \A m : m = n => Both(m)'
    <3>1. n' = n
      BY <1>6 DEF n, Message
    <3>2. QED
      BY <2>7, <3>1
  <2>10. \A m \in 1 .. Returned' : arrivals'[m].op = "ping" => Both(m)'
    BY <1>8, <2>3, <2>6, <2>8, <2>9 DEF OpOf
  <2>11. QED
    BY <1>10, <2>4, <2>5, <2>10 DEF PairInv, OpOf
<1>14. QED
  BY <1>4, <1>9, <1>11, <1>12, <1>13 DEF FeedInv

(* Second half *)
LEMMA FlushPongStep ==
  ASSUME FeedInv, FlushPong
  PROVE  FeedInv'
<1>1. /\ feed = "ponging" /\ feed' = "flushing" /\ Flush
      /\ UNCHANGED <<arrivals, writes, conns, channel, receiver>>
  BY DEF FlushPong
<1>2. PICK o \in WriteOut(out_buffer) : Written(o) /\ result' = o.err
  BY <1>1 DEF Flush
<1>3. UNCHANGED <<state, pc, handed, inbox, link>>
  BY <1>1 DEF Flush
<1>4. /\ Out' = Out /\ Extends(outgoing, outgoing')
      /\ o.err = "Ok" => out_buffer' = << >>
  BY <1>2, FeedParts, FlushFacts
<1>5. PeerInv'
  BY <1>1, FeedParts, CallStep
<1>6. Returned' = Returned /\ SameBehind
  BY <1>1, <1>3, FeedParts DEF Returned, SameBehind
<1>7. FeedTypes' /\ PlacesAgree'
  BY <1>1, <1>3, FeedParts DEF FeedTypes, Places, PlacesAgree, Connected, link
<1>8. NothingWaits'
  BY <1>1, <1>2, <1>3, <1>4, FeedParts DEF NothingWaits, PlacesAgree
<1>9. ~Pending /\ ~Pending' /\ ~Leaving' /\ ~Leaving /\ Connected
  BY <1>1 DEF Pending, Leaving, Connected
<1>10. QED
  BY <1>1, <1>3, <1>4, <1>5, <1>6, <1>7, <1>8, <1>9, FeedQuiet

LEMMA FailsStep ==
  ASSUME FeedInv, Fails
  PROVE  FeedInv'
  BY LetGoStep DEF Fails, Connected

-----------------------------------------------------------------------------
(* In read, before a frame is read or when there is none *)
LEMMA InLoopStep ==
  ASSUME FeedInv, feed = "await", UNCHANGED <<arrivals, writes, feedVars>>,
         FlushReplies \/ EndConnection \/ NothingToFlush
  PROVE  FeedInv'
<1>1. /\ pc = "loop" /\ result = "Ok" /\ state \in {"Active", "ClosedByPeer"} /\ Connected
      /\ UNCHANGED <<feed, conns, channel, receiver>>
  BY FeedParts DEF FlushReplies, EndConnection, NothingToFlush, PlacesAgree, Connected, feedVars
<1>2. PeerInv'
  BY FeedParts, LoopStep
<1>3. UNCHANGED <<handed, inbox, link>>
  BY DEF FlushReplies, EndConnection, NothingToFlush, stream
<1>4. SameBehind /\ Returned' = Returned /\ nonblocking' = FALSE /\ broken' = broken
  BY <1>3, FeedParts DEF SameBehind, Returned, link
<1>5. FeedTypes'
  BY <1>1, <1>4, FeedParts DEF FeedTypes
<1>6. ~Pending /\ ~Leaving /\ Connected' /\ feed' = "await"
  BY <1>1 DEF Pending, Leaving, Connected
<1>7. CASE FlushReplies
  <2>1. PICK o \in WriteOut(out_buffer) :
          /\ Written(o)
          /\ unflushed_additional' = (o.err # "Ok")
          /\ IF o.err = "Io" THEN Return("Io") ELSE pc' = "reading" /\ UNCHANGED result
    BY <1>7 DEF FlushReplies
  <2>2. /\ Out' = Out /\ Extends(outgoing, outgoing')
        /\ o.err \in {"Ok", "Io"}
        /\ o.err = "Ok" => out_buffer' = << >>
    BY <2>1, FeedParts, FlushFacts
  <2>3. o.err = "Io" => broken
    BY FeedParts DEF WriteOut
  <2>4. /\ state' = state
        /\ \/ o.err = "Io" /\ pc' = "idle" /\ result' = "Io" /\ broken
           \/ o.err = "Ok" /\ pc' = "reading" /\ result' = "Ok" /\ out_buffer' = << >>
    BY <1>1, <1>7, <2>1, <2>2, <2>3 DEF Return, FlushReplies
  <2>5. PlacesAgree' /\ NothingWaits'
    BY <1>1, <1>6, <2>4, FeedParts DEF PlacesAgree, NothingWaits, Connected
  <2>6. ~Pending' /\ (Leaving' => broken')
    BY <1>1, <1>4, <1>6, <2>4 DEF Pending, Leaving
  <2>7. QED
    BY <1>1, <1>2, <1>3, <1>4, <1>5, <1>6, <2>2, <2>5, <2>6, FeedQuiet
<1>8. CASE EndConnection \/ NothingToFlush
  <2>1. /\ UNCHANGED <<out_buffer, unflushed_additional, outgoing>> /\ ~unflushed_additional
        /\ \/ state' = "Terminated" /\ pc' = "idle" /\ result' = "Closed"
           \/ state' = state /\ pc' = "reading" /\ result' = "Ok"
    BY <1>1, <1>8 DEF EndConnection, NothingToFlush, Return, stream
  <2>2. out_buffer = << >>
    BY <1>1, <2>1, FeedParts DEF NothingWaits
  <2>3. Out' = Out /\ Extends(outgoing, outgoing')
    BY <2>1, FeedParts DEF Out, Extends, Buffers
  <2>4. PlacesAgree' /\ NothingWaits'
    BY <1>1, <1>6, <2>1, <2>2, FeedParts DEF PlacesAgree, NothingWaits, Connected
  <2>5. ~Pending'
    BY <2>1 DEF Pending
  <2>6. CloseHanded => CloseWritten
    BY <1>1, <2>2, AnswerWritten
  <2>7. QED
    BY <1>1, <1>2, <1>3, <1>4, <1>5, <1>6, <2>3, <2>4, <2>5, <2>6, FeedQuiet
<1>9. QED
  BY <1>7, <1>8

LEMMA InNoFrameStep ==
  ASSUME FeedInv, feed = "await", UNCHANGED <<arrivals, writes, feedVars>>,
         ReceiveEof \/ ReceiveReset \/ ReadWouldBlock
  PROVE  FeedInv'
<1>1. /\ pc = "reading" /\ result = "Ok" /\ state \in {"Active", "ClosedByPeer"} /\ Connected
      /\ UNCHANGED <<feed, conns, channel, receiver>>
      /\ UNCHANGED <<out_buffer, unflushed_additional, handed, stream>>
  BY FeedParts DEF ReceiveEof, ReceiveReset, ReadWouldBlock, PlacesAgree, Connected, feedVars
<1>2. PeerInv'
  BY FeedParts, NoFrameStep
<1>3. pc' = "idle" /\ result' # "Ok" /\ state' \in {state, "Terminated"}
  BY FeedParts DEF ReceiveEof, ReceiveReset, ReadWouldBlock, Return, CheckReset
<1>4. SameBehind /\ Returned' = Returned /\ nonblocking' = FALSE /\ Out' = Out /\ Extends(outgoing, outgoing')
  BY <1>1, FeedParts DEF SameBehind, Returned, stream, link, Out, Extends, Buffers
<1>5. FeedTypes'
  BY <1>1, <1>4, FeedParts DEF FeedTypes
<1>6. ~Pending /\ ~Pending' /\ ~Leaving /\ Connected'
  BY <1>1, <1>3 DEF Pending, Leaving, Connected
<1>7. PlacesAgree' /\ NothingWaits'
  BY <1>1, <1>3, FeedParts DEF PlacesAgree, NothingWaits, Connected
<1>8. CloseHanded => CloseWritten
  BY <1>1, FeedParts, AnswerWritten DEF NothingWaits
<1>9. QED
  BY <1>1, <1>2, <1>4, <1>5, <1>6, <1>7, <1>8, FeedQuiet

-----------------------------------------------------------------------------
(* In read, when a frame is read *)
Takes(f) == /\ feed = "await" /\ Reads(f) /\ PeerInv' /\ UNCHANGED <<feed, conns, channel, receiver>>

LEMMA TakesFacts ==
  ASSUME FeedInv, NEW f, Takes(f)
  PROVE  /\ pc = "reading" /\ result = "Ok" /\ state \in {"Active", "ClosedByPeer"}
         /\ out_buffer = << >> /\ Connected /\ Connected' /\ feed' = "await" /\ conns > 0
         /\ Returned' = Returned + 1 /\ SameBehind
         /\ f = arrivals'[Returned + 1] /\ f.id = Returned + 1 /\ f \in Frame /\ link' = link
         /\ nonblocking' = FALSE
         /\ FeedTypes'
         /\ ~Pending /\ ~PendingPing /\ ~Leaving
<1>1. feed = "await" /\ pc = "reading" /\ UNCHANGED <<feed, conns, channel, receiver>>
  BY DEF Takes, Reads
<1>2. /\ Returned' = Returned + 1 /\ SameBehind
      /\ f = arrivals'[Returned + 1] /\ f.id = Returned + 1 /\ f \in Frame /\ link' = link
  BY FeedParts, ReadsFacts DEF Takes
<1>3. nonblocking' = FALSE
  BY <1>2, FeedParts DEF link
<1>4. result = "Ok" /\ state \in {"Active", "ClosedByPeer"} /\ out_buffer = << >> /\ conns > 0
      /\ Connected /\ Connected'
  BY <1>1, FeedParts DEF PlacesAgree, NothingWaits, Connected
<1>5. FeedTypes'
  BY <1>1, <1>3, FeedParts DEF FeedTypes
<1>6. ~Pending /\ ~PendingPing /\ ~Leaving
  BY <1>1, <1>4 DEF Pending, PendingPing, Leaving
<1>7. QED
  BY <1>1, <1>2, <1>3, <1>4, <1>5, <1>6

(* All pings before it have been answered twice. *)
LEMMA PairsOn ==
  ASSUME FeedInv, NEW f, Takes(f), ~PendingPing',
         f.op # "ping" \/ Leaving',
         Out' = Out \/ (\E g \in Frame : ~IsPong(g) /\ Out' = Append(Out, g))
  PROVE  PairInv'
<1>1. /\ Returned' = Returned + 1 /\ SameBehind /\ f = arrivals'[Returned + 1]
      /\ ~PendingPing /\ ~Leaving /\ PairInv /\ Returned \in Nat /\ Out \in Seq(Frame)
  BY FeedParts, TakesFacts
<1>2. \A n \in 1 .. Returned : n \in 1 .. Returned' /\ arrivals'[n].op = arrivals[n].op
  BY <1>1 DEF SameBehind
<1>3. /\ \A i \in DOMAIN Out' : IsPong(Out'[i]) => i \in DOMAIN Out /\ Out'[i] = Out[i]
      /\ \A i \in DOMAIN Out : i \in DOMAIN Out' /\ Out'[i] = Out[i]
  <2>1. CASE Out' = Out
    BY <2>1
  <2>2. ASSUME NEW g \in Frame, ~IsPong(g), Out' = Append(Out, g)
        PROVE  <1>3
    BY <1>1, <2>2, OutGrows
  <2>3. QED
    BY <2>1, <2>2
<1>4. \A i \in DOMAIN Out' : IsPong(Out'[i]) =>
        Out'[i].id \in 1 .. Returned' /\ arrivals'[Out'[i].id].op = "ping" /\ Out'[i].id \in 1 .. Returned
  BY <1>1, <1>2, <1>3 DEF PairInv, OpOf
<1>5. \A i, j \in DOMAIN Out' : IsPong(Out'[i]) /\ IsPong(Out'[j]) /\ i < j =>
       \/ Out'[i].id < Out'[j].id
       \/ Out'[i].id = Out'[j].id /\ Out'[i].auto /\ ~Out'[j].auto
  BY <1>1, <1>3 DEF PairInv
<1>6. \A n : Both(n) => Both(n)'
  BY <1>3 DEF Both, Queued
<1>7. \A n : n = Returned + 1 => Unpaired(n)'
  BY <1>1, <1>4 DEF Unpaired
<1>8. \A n \in 1 .. Returned : OpOf(n) = "ping" => Both(n)
  BY <1>1 DEF PairInv
<1>9. \A n \in 1 .. Returned' : arrivals'[n].op = "ping" => Both(n)' \/ (Unpaired(n)' /\ Leaving')
  <2> SUFFICES ASSUME NEW n \in 1 .. Returned', arrivals'[n].op = "ping"
               PROVE  Both(n)' \/ (Unpaired(n)' /\ Leaving')
    OBVIOUS
  <2>1. CASE n \in 1 .. Returned
    BY <1>2, <1>6, <1>8, <2>1 DEF OpOf
  <2>2. CASE n = Returned + 1
    BY <1>1, <1>7, <2>2
  <2>3. QED
    BY <1>1, <2>1, <2>2
<1>10. QED
  BY <1>4, <1>5, <1>9 DEF PairInv, OpOf

LEMMA InRefuse ==
  ASSUME FeedInv, NEW f, Takes(f), NEW r \in {"Protocol", "Capacity"}, Refuse(r)
  PROVE  FeedInv'
<1>1. /\ pc = "reading" /\ result = "Ok" /\ state \in {"Active", "ClosedByPeer"}
      /\ out_buffer = << >> /\ Connected /\ Connected' /\ feed' = "await" /\ conns > 0
      /\ SameBehind /\ FeedTypes' /\ ~Pending /\ PeerInv' /\ UNCHANGED <<conns, channel>>
  BY TakesFacts DEF Takes
<1>2. /\ pc' = "idle" /\ result' # "Ok"
      /\ UNCHANGED <<state, out_buffer, unflushed_additional, incomplete, handed, outgoing>>
  BY DEF Refuse, Return
<1>3. Out' = Out /\ Leaving' /\ ~Pending' /\ ~PendingPing'
  BY <1>1, <1>2 DEF Out, Leaving, Pending, PendingPing
<1>4. PairInv'
  BY <1>3, PairsOn
<1>5. ChannelInv'
  BY <1>1, <1>2, <1>3, ChannelKept
<1>6. PlacesAgree' /\ NothingWaits' /\ PendingInv'
  BY <1>1, <1>2, <1>3 DEF PlacesAgree, NothingWaits, PendingInv, Connected
<1>7. LeaveInv'
  <2>1. CloseHanded' <=> CloseHanded
    BY <1>1, <1>2, FeedParts, HandedAlone
  <2>2. CloseHanded => CloseWritten
    BY <1>1, AnswerWritten
  <2>3. CloseWritten' <=> CloseWritten
    BY <1>2 DEF CloseWritten
  <2>4. QED
    BY <2>1, <2>2, <2>3 DEF LeaveInv
<1>8. QED
  BY <1>1, <1>4, <1>5, <1>6, <1>7 DEF FeedInv

(* Another message for the thread to look at *)
LEMMA ChannelOn ==
  ASSUME FeedInv, NEW f, Takes(f), NEW m \in Seq(Nat), m # << >>, handed' = Append(handed, m),
         pc' = "idle", result' = "Ok"
  PROVE  /\ ChannelInv' /\ handed' # << >> /\ Message' = m /\ Pending' /\ ~Leaving'
         /\ 1 \in DOMAIN m
<1>1. /\ Connected /\ feed' = "await" /\ ~Pending /\ SameBehind /\ ChannelInv
      /\ UNCHANGED <<conns, channel>> /\ handed \in Seq(Seq(Nat))
  BY TakesFacts, FeedParts DEF Takes
<1> DEFINE last == Len(handed) + 1
<1>2. /\ DOMAIN handed = 1 .. Len(handed) /\ Len(handed) \in Nat
      /\ \A i \in DOMAIN handed : i \in DOMAIN handed' /\ handed'[i] = handed[i] /\ i # last
      /\ handed'[last] = m /\ last \in DOMAIN handed' /\ Len(handed') = last
      /\ \A i \in DOMAIN handed' : i \in DOMAIN handed \/ i = last
  BY <1>1, HandGrows
<1> HIDE DEF last
<1>3. handed' # << >> /\ Message' = m /\ Pending' /\ ~Leaving' /\ 1 \in DOMAIN m
  <2>1. 1 \in DOMAIN m
    OBVIOUS
  <2>2. handed' # << >>
    BY <1>2
  <2>3. QED
    BY <1>1, <1>2, <2>1, <2>2 DEF Message, Pending, Leaving, Connected
<1>4. \A i \in DOMAIN handed : IsMessage(i)' = IsMessage(i)
  <2>1. \A i \in DOMAIN handed : handed[i][1] \in 1 .. Returned
    BY FirstOfHanded
  <2>2. QED
    BY <1>1, <1>2, <2>1 DEF IsMessage, IsData, OpOf, SameBehind
<1>5. \A j : Mine(j)' <=> Mine(j)
  BY <1>1 DEF Mine
<1>6. \A i \in DOMAIN handed : InChannel(i) => InChannel(i)'
  BY <1>1, <1>2, <1>5 DEF InChannel
<1>7. \A i \in DOMAIN handed : IsMessage(i) => InChannel(i)
  BY <1>1 DEF ChannelInv
<1>8. \A j \in DOMAIN channel : Mine(j)' =>
        \E i \in DOMAIN handed' : IsMessage(i)' /\ channel[j][2] = handed'[i] /\ i # Len(handed')
  BY <1>1, <1>2, <1>4, <1>5 DEF ChannelInv
<1>9. \A i \in DOMAIN handed' : IsMessage(i)' => InChannel(i)' \/ i = Len(handed')
  BY <1>2, <1>4, <1>6, <1>7
<1>10. ChannelInv'
  BY <1>1, <1>3, <1>5, <1>8, <1>9, ZenonT(40) DEF ChannelInv
<1>11. QED
  BY <1>3, <1>10

(* A frame that ends a message, or a pong: nothing is answered. *)
LEMMA InHand ==
  ASSUME FeedInv, NEW f, Takes(f), state = "Active", f.op # "ping",
         NEW m \in Seq(Nat), m # << >>, handed' = Append(handed, m), arrivals'[m[1]].op # "ping",
         pc' = "idle", result' = "Ok",
         UNCHANGED <<state, out_buffer, unflushed_additional, outgoing>>
  PROVE  FeedInv'
<1>1. /\ out_buffer = << >> /\ Connected /\ Connected' /\ feed' = "await" /\ conns > 0
      /\ FeedTypes' /\ PeerInv' /\ UNCHANGED <<conns, channel>>
  BY TakesFacts DEF Takes
<1>2. ChannelInv' /\ handed' # << >> /\ Message' = m /\ Pending' /\ ~Leaving'
  BY ChannelOn
<1>3. ~PendingPing'
  BY <1>2 DEF PendingPing, OpOf
<1>4. PairInv'
  <2>1. Out' = Out
    BY DEF Out
  <2>2. QED
    BY <1>3, <2>1, PairsOn
<1>5. PlacesAgree' /\ NothingWaits' /\ PendingInv' /\ LeaveInv'
  BY <1>1, <1>2 DEF PlacesAgree, NothingWaits, PendingInv, LeaveInv, Connected
<1>6. QED
  BY <1>1, <1>2, <1>4, <1>5 DEF FeedInv

(* A fragment *)
LEMMA InFragment ==
  ASSUME FeedInv, NEW f, Takes(f), state = "Active", f.op # "ping",
         pc' = "loop", UNCHANGED <<state, out_buffer, unflushed_additional, outgoing, handed, result>>
  PROVE  FeedInv'
<1>1. /\ out_buffer = << >> /\ Connected /\ Connected' /\ feed' = "await" /\ conns > 0 /\ result = "Ok"
      /\ FeedTypes' /\ PeerInv' /\ UNCHANGED <<conns, channel>> /\ SameBehind /\ ~Pending
  BY TakesFacts DEF Takes
<1>2. ~Pending' /\ ~PendingPing' /\ ~Leaving'
  BY <1>1 DEF Pending, PendingPing, Leaving
<1>3. ChannelInv'
  BY <1>1, <1>2, ChannelKept
<1>4. PairInv'
  <2>1. Out' = Out
    BY DEF Out
  <2>2. QED
    BY <1>2, <2>1, PairsOn
<1>5. PlacesAgree' /\ NothingWaits' /\ PendingInv' /\ LeaveInv'
  BY <1>1, <1>2 DEF PlacesAgree, NothingWaits, PendingInv, LeaveInv, Connected
<1>6. QED
  BY <1>1, <1>3, <1>4, <1>5 DEF FeedInv

(* A reply finds out_buffer empty and room in it, so queueing it does not  *)
(* fail.                                                                   *)
LEMMA RoomForReply ==
  ASSUME out_buffer = << >>, NEW g, NEW s, NEW o \in BufferFrame(g, s)
  PROVE  o.err = "Ok"
<1>1. ~(Len(Append(out_buffer, g)) > WriteLen)
  OBVIOUS
<1>2. o = [rest |-> Append(out_buffer, g), done |-> << >>, err |-> "Ok"]
  BY <1>1, Zenon DEF BufferFrame
<1>3. QED
  BY <1>2

LEMMA InPing ==
  ASSUME FeedInv, NEW f, Takes(f), state = "Active", f.op = "ping", ReceivePing(f)
  PROVE  FeedInv'
<1> DEFINE new == Returned + 1
           m == <<new>>
           p == PongTo(f.id)
<1>1. /\ out_buffer = << >> /\ Connected /\ Connected' /\ feed' = "await" /\ conns > 0
      /\ FeedTypes' /\ PeerInv' /\ UNCHANGED <<conns, channel>> /\ ~PendingPing /\ ~Leaving
      /\ Returned' = new /\ SameBehind /\ f = arrivals'[new] /\ f.id = new
      /\ PairInv /\ Returned \in Nat /\ Out \in Seq(Frame) /\ Buffers
  BY FeedParts, TakesFacts DEF Takes
<1>2. PICK o \in BufferFrame(p, state) :
        /\ Written(o)
        /\ Return(o.err)
        /\ IF o.err = "Ok"
           THEN unflushed_additional' = TRUE /\ Hand(<<f.id>>)
           ELSE UNCHANGED <<unflushed_additional, handed>>
        /\ UNCHANGED <<state, incomplete>>
  BY DEF ReceivePing, IsActive
<1>3. o.err = "Ok"
  BY <1>1, RoomForReply
<1>4. /\ unflushed_additional' = TRUE /\ handed' = Append(handed, m) /\ pc' = "idle" /\ result' = "Ok"
      /\ state' = "Active"
  BY <1>1, <1>2, <1>3 DEF Return, Hand
<1>5. p \in Frame /\ IsPong(p) /\ p.auto /\ p.id = new
  <2>1. f.id \in Nat /\ "ping" \in Ops
    BY <1>1 DEF Ops
  <2>2. p \in Frame /\ p.op = "pong" /\ p.auto /\ p.id = f.id
    BY <2>1, FrameTypes, FrameKinds, Zenon
  <2>3. QED
    BY <1>1, <2>2 DEF IsPong
<1>6. Out' = Append(Out, p)
  BY <1>1, <1>2, <1>5, QueuedFacts DEF States
<1> HIDE DEF p
<1>7. m \in Seq(Nat) /\ m # << >> /\ m[1] = new
  BY <1>1
<1> HIDE DEF m
<1>8. ChannelInv' /\ handed' # << >> /\ Message' = m /\ Pending' /\ ~Leaving'
  BY <1>4, <1>7, ChannelOn
<1>9. PendingPing'
  BY <1>1, <1>7, <1>8 DEF PendingPing, OpOf
<1> HIDE DEF new
<1>10. new = Returned + 1
  BY DEF new
<1>11. /\ \A i \in DOMAIN Out : Out'[i] = Out[i] /\ i \in DOMAIN Out'
       /\ DOMAIN Out = 1 .. Len(Out) /\ Len(Out) \in Nat /\ DOMAIN Out' = 1 .. Len(Out) + 1
       /\ Out'[Len(Out) + 1] = p /\ Len(Out) + 1 \in DOMAIN Out'
       /\ \A i \in DOMAIN Out' : i \in DOMAIN Out \/ i = Len(Out) + 1
  BY <1>1, <1>5, <1>6, OutGrows
<1>12. \A n \in 1 .. Returned : n \in 1 .. Returned' /\ arrivals'[n].op = arrivals[n].op
  BY <1>1, <1>10 DEF SameBehind
<1>13. \A i \in DOMAIN Out : IsPong(Out[i]) => Out[i].id \in 1 .. Returned /\ OpOf(Out[i].id) = "ping"
  BY <1>1 DEF PairInv
<1>14. \A i \in DOMAIN Out' : IsPong(Out'[i]) =>
         Out'[i].id \in 1 .. Returned' /\ arrivals'[Out'[i].id].op = "ping"
  <2> SUFFICES ASSUME NEW i \in DOMAIN Out', IsPong(Out'[i])
               PROVE  Out'[i].id \in 1 .. Returned' /\ arrivals'[Out'[i].id].op = "ping"
    OBVIOUS
  <2>1. CASE i \in DOMAIN Out
    BY <1>11, <1>12, <1>13, <2>1 DEF OpOf
  <2>2. CASE i = Len(Out) + 1
    BY <1>1, <1>5, <1>10, <1>11, <2>2
  <2>3. QED
    BY <1>11, <2>1, <2>2
<1>15. ASSUME NEW i \in DOMAIN Out', NEW j \in DOMAIN Out', IsPong(Out'[i]), IsPong(Out'[j]), i < j
       PROVE  \/ Out'[i].id < Out'[j].id
              \/ Out'[i].id = Out'[j].id /\ Out'[i].auto /\ ~Out'[j].auto
  <2>1. i \in DOMAIN Out
    BY <1>11, <1>15
  <2>2. CASE j \in DOMAIN Out
    BY <1>1, <1>11, <1>15, <2>1, <2>2 DEF PairInv
  <2>3. CASE j = Len(Out) + 1
    BY <1>1, <1>5, <1>10, <1>11, <1>13, <1>15, <2>1, <2>3
  <2>4. QED
    BY <1>11, <2>2, <2>3
<1>16. \A n : n = new => Queued(n, TRUE)' /\ Unpaired(n)'
  <2>1. \A n : n = new => Queued(n, TRUE)'
    BY <1>5, <1>11 DEF Queued
  <2>2. \A i \in DOMAIN Out' : IsPong(Out'[i]) => Out'[i].id < new \/ (Out'[i].id = new /\ Out'[i].auto)
    BY <1>1, <1>5, <1>10, <1>11, <1>13
  <2>3. QED
    BY <2>1, <2>2 DEF Unpaired
<1>17. \A n : Both(n) => Both(n)'
  BY <1>11 DEF Both, Queued
<1>18. \A n \in 1 .. Returned : OpOf(n) = "ping" => Both(n)
  BY <1>1 DEF PairInv
<1>19. \A n \in 1 .. Returned' : arrivals'[n].op = "ping" =>
         Both(n)' \/ (Unpaired(n)' /\ PendingPing' /\ n = Message'[1])
  <2> SUFFICES ASSUME NEW n \in 1 .. Returned', arrivals'[n].op = "ping"
               PROVE  Both(n)' \/ (Unpaired(n)' /\ n = Message'[1])
    BY <1>9
  <2>1. CASE n \in 1 .. Returned
    BY <1>12, <1>17, <1>18, <2>1 DEF OpOf
  <2>2. CASE n = new
    BY <1>7, <1>8, <1>16, <2>2
  <2>3. QED
    BY <1>1, <1>10, <2>1, <2>2
<1>20. PairInv'
  <2>1. Message'[1] = new /\ new \in 1 .. Returned'
    BY <1>1, <1>7, <1>8, <1>10
  <2>2. Queued(Message[1], TRUE)' /\ Unpaired(Message[1])'
    BY <1>16, <2>1
  <2>3. QED
    BY <1>14, <1>15, <1>19, <2>1, <2>2 DEF PairInv, OpOf
<1>21. PlacesAgree' /\ NothingWaits' /\ PendingInv' /\ LeaveInv'
  BY <1>1, <1>4, <1>8 DEF PlacesAgree, NothingWaits, PendingInv, LeaveInv, Connected
<1>22. QED
  BY <1>1, <1>8, <1>20, <1>21 DEF FeedInv

LEMMA InClose ==
  ASSUME FeedInv, NEW f, Takes(f), state = "Active", f.op = "close", ReceiveClose(f)
  PROVE  FeedInv'
<1> DEFINE m == <<Returned + 1>>
<1>1. /\ out_buffer = << >> /\ Connected /\ Connected' /\ feed' = "await" /\ conns > 0
      /\ FeedTypes' /\ PeerInv' /\ UNCHANGED <<conns, channel>>
      /\ Returned' = Returned + 1 /\ f = arrivals'[Returned + 1] /\ f.id = Returned + 1
      /\ f \in Frame /\ f.body \in Bodies /\ Returned \in Nat /\ Out \in Seq(Frame) /\ Buffers
  <2>1. f \in Frame
    BY TakesFacts
  <2>2. f.body \in Bodies
    BY <2>1 DEF Frame
  <2>3. QED
    BY <2>1, <2>2, FeedParts, TakesFacts DEF Takes
<1>2. PICK b \in ReadBodies(f) :
        IF b = "malformed" THEN Refuse("Protocol")
        ELSE /\ state' = "ClosedByPeer"
             /\ \E o \in BufferFrame(CloseReply(IF b = "forbidden" THEN "allowed" ELSE b),
                                     "ClosedByPeer") :
                  /\ Written(o)
                  /\ IF o.err = "Ok"
                     THEN unflushed_additional' = TRUE /\ Hand(<<f.id>>) /\ Return("Ok")
                     ELSE pc' = "panicked" /\ UNCHANGED <<unflushed_additional, handed, result>>
             /\ UNCHANGED incomplete
  BY DEF ReceiveClose
<1>3. CASE b = "malformed"
  BY <1>2, <1>3, InRefuse
<1>4. CASE b # "malformed"
  <2> DEFINE body == IF b = "forbidden" THEN "allowed" ELSE b
             p == CloseReply(body)
  <2>1. body \in Bodies
    BY <1>1, <1>4 DEF ReadBodies, Bodies
  <2>2. PICK o \in BufferFrame(p, "ClosedByPeer") :
          /\ Written(o)
          /\ IF o.err = "Ok"
             THEN unflushed_additional' = TRUE /\ Hand(<<f.id>>) /\ Return("Ok")
             ELSE pc' = "panicked" /\ UNCHANGED <<unflushed_additional, handed, result>>
    BY <1>2, <1>4
  <2>3. o.err = "Ok"
    BY <1>1, <2>2, RoomForReply
  <2>4. /\ unflushed_additional' = TRUE /\ handed' = Append(handed, m) /\ pc' = "idle" /\ result' = "Ok"
        /\ state' = "ClosedByPeer"
    BY <1>1, <1>2, <1>4, <2>2, <2>3 DEF Return, Hand
  <2> HIDE DEF body
  <2>5. p \in Frame /\ ~IsPong(p)
    <3>1. p \in Frame /\ p.op = "close"
      BY <2>1, FrameTypes, FrameKinds, Zenon
    <3>2. QED
      BY <3>1 DEF IsPong
  <2>6. Out' = Append(Out, p)
    BY <1>1, <2>2, <2>5, QueuedFacts DEF States
  <2> HIDE DEF p
  <2>7. m \in Seq(Nat) /\ m # << >> /\ m[1] = Returned + 1
    BY <1>1
  <2> HIDE DEF m
  <2>8. ChannelInv' /\ handed' # << >> /\ Message' = m /\ Pending' /\ ~Leaving'
    BY <2>4, <2>7, ChannelOn
  <2>9. OpOf(Message[1])' = "close" /\ ~PendingPing'
    BY <1>1, <2>7, <2>8 DEF PendingPing, OpOf
  <2>10. PairInv'
    BY <2>5, <2>6, <2>9, PairsOn
  <2>11. PlacesAgree' /\ NothingWaits' /\ PendingInv' /\ LeaveInv'
    BY <1>1, <2>4, <2>8, <2>9 DEF PlacesAgree, NothingWaits, PendingInv, LeaveInv, Connected
  <2>12. QED
    BY <1>1, <2>8, <2>10, <2>11 DEF FeedInv
<1>5. QED
  BY <1>3, <1>4

LEMMA InData ==
  ASSUME FeedInv, NEW f, Takes(f), state = "Active", f.op \in {"data", "continue"}, ReceiveData(f)
  PROVE  FeedInv'
<1> DEFINE m == Append(incomplete, f.id)
<1>1. /\ Returned' = Returned + 1 /\ SameBehind /\ f = arrivals'[Returned + 1] /\ f.id = Returned + 1
      /\ Returned \in Nat /\ incomplete \in Seq(Nat) /\ FragmentsInv
  BY FeedParts, TakesFacts DEF TypeInv, TypeOK
<1>2. CASE Refuse("Protocol") \/ Refuse("Capacity")
  BY <1>2, InRefuse
<1>3. CASE ~(Refuse("Protocol") \/ Refuse("Capacity"))
  <2>1. /\ IF f.fin
           THEN handed' = Append(handed, m) /\ pc' = "idle" /\ result' = "Ok"
           ELSE pc' = "loop" /\ UNCHANGED <<handed, result>>
        /\ UNCHANGED <<state, out_buffer, unflushed_additional, outgoing>>
    BY <1>3 DEF ReceiveData, Hand, Return
  <2>2. CASE ~f.fin
    BY <2>1, <2>2, InFragment
  <2>3. CASE f.fin
    <3>1. m \in Seq(Nat) /\ m # << >>
      BY <1>1
    <3>2. arrivals'[m[1]].op # "ping"
      <4>1. CASE incomplete = << >>
        BY <1>1, <4>1
      <4>2. CASE incomplete # << >>
        <5>1. 1 \in DOMAIN incomplete /\ m[1] = incomplete[1]
          BY <1>1, <4>2
        <5>2. incomplete[1] \in 1 .. Returned /\ OpOf(incomplete[1]) = "data"
          BY <1>1, <5>1 DEF FragmentsInv
        <5>3. QED
          BY <1>1, <5>1, <5>2 DEF SameBehind, OpOf
      <4>3. QED
        BY <4>1, <4>2
    <3> HIDE DEF m
    <3>3. QED
      BY <2>1, <2>3, <3>1, <3>2, InHand
  <2>4. QED
    BY <2>2, <2>3
<1>4. QED
  BY <1>2, <1>3

LEMMA InReceive ==
  ASSUME FeedInv, feed = "await", UNCHANGED <<arrivals, writes, feedVars>>,
         ReceiveAfterClosing \/ Receive
  PROVE  FeedInv'
<1> DEFINE f == Head(inbox)
<1>1. Takes(f)
  <2>1. PeerInv'
    BY FeedParts, ReceiveStep
  <2>2. Reads(f)
    BY FeedParts DEF ReceiveAfterClosing, Receive, Arrival, Reads
  <2>3. QED
    BY <2>1, <2>2 DEF Takes, feedVars
<1>2. CASE ReceiveAfterClosing
  BY <1>1, <1>2, InRefuse DEF ReceiveAfterClosing
<1>3. CASE Receive
  <2>1. state = "Active"
    BY <1>1, <1>3, TakesFacts DEF Receive, CanRead
  <2>2. \/ f.op = "bad" /\ Refuse("Protocol")
        \/ f.op = "ping" /\ ReceivePing(f)
        \/ f.op = "pong" /\ ReceivePong(f)
        \/ f.op = "close" /\ ReceiveClose(f)
        \/ f.op \in {"data", "continue"} /\ ReceiveData(f)
    BY <1>3 DEF Receive
  <2> HIDE DEF f
  <2>3. CASE f.op = "bad" /\ Refuse("Protocol")
    BY <1>1, <2>3, InRefuse
  <2>4. CASE f.op = "ping" /\ ReceivePing(f)
    BY <1>1, <2>1, <2>4, InPing
  <2>5. CASE f.op = "pong" /\ ReceivePong(f)
    <3> DEFINE m == <<f.id>>
    <3>1. f.id \in Nat /\ f = arrivals'[f.id]
      <4>1. f.id = Returned + 1 /\ f = arrivals'[Returned + 1]
        BY <1>1, TakesFacts
      <4>2. Returned \in Nat
        BY FeedParts
      <4>3. QED
        BY <4>1, <4>2
    <3>2. m \in Seq(Nat) /\ m # << >> /\ arrivals'[m[1]].op # "ping" /\ handed' = Append(handed, m)
      BY <2>5, <3>1 DEF ReceivePong, Hand
    <3>3. pc' = "idle" /\ result' = "Ok" /\ UNCHANGED <<state, out_buffer, unflushed_additional, outgoing>>
      BY <2>5 DEF ReceivePong, Return
    <3> HIDE DEF m
    <3>4. QED
      BY <1>1, <2>1, <2>5, <3>2, <3>3, InHand
  <2>6. CASE f.op = "close" /\ ReceiveClose(f)
    BY <1>1, <2>1, <2>6, InClose
  <2>7. CASE f.op \in {"data", "continue"} /\ ReceiveData(f)
    BY <1>1, <2>1, <2>7, InData
  <2>8. QED
    BY <2>2, <2>3, <2>4, <2>5, <2>6, <2>7
<1>4. QED
  BY <1>2, <1>3

-----------------------------------------------------------------------------
LEMMA FreshNow == Fresh => PeerInv
  BY FreshInv

LEMMA FeedStart == FeedInit => FeedInv
<1> SUFFICES ASSUME FeedInit PROVE FeedInv
  OBVIOUS
<1>1. /\ EndpointInit /\ inbox = << >> /\ outgoing = << >> /\ peer_open = TRUE /\ broken = FALSE
      /\ nonblocking = FALSE /\ arrivals = << >> /\ writes = 0
      /\ feed = "connecting" /\ conns = 0 /\ channel = << >> /\ receiver = TRUE
  BY DEF FeedInit
<1>2. PeerInv
  <2>1. Fresh
    BY <1>1 DEF Fresh
  <2>2. QED
    BY <2>1, FreshNow
<1>3. state = "Active" /\ out_buffer = << >> /\ pc = "idle" /\ result = "Ok" /\ handed = << >>
  BY <1>1 DEF EndpointInit
<1>4. FeedTypes
  BY <1>1 DEF FeedTypes, Places
<1>5. ~Connected /\ ~Pending /\ ~PendingPing
  BY <1>1 DEF Connected, Pending, PendingPing
<1>6. PlacesAgree /\ NothingWaits /\ PendingInv
  BY <1>1, <1>3, <1>5 DEF PlacesAgree, NothingWaits, PendingInv
<1>7. DOMAIN channel = {} /\ DOMAIN handed = {}
  BY <1>1, <1>3
<1>8. ChannelInv
  BY <1>7 DEF ChannelInv
<1>9. Out = << >> /\ Returned = 0
  BY <1>1, <1>3, ConcatEmptySeq DEF Out, Returned
<1>10. DOMAIN Out = {} /\ 1 .. Returned = {}
  BY <1>9
<1>11. PairInv
  BY <1>5, <1>10 DEF PairInv
<1>12. LeaveInv
  BY <1>7 DEF LeaveInv, CloseHanded
<1>13. QED
  BY <1>2, <1>4, <1>6, <1>8, <1>11, <1>12 DEF FeedInv

LEMMA InReadStep ==
  ASSUME FeedInv, InRead
  PROVE  FeedInv'
<1>1. /\ feed = "await" /\ ReadStep /\ UNCHANGED <<arrivals, writes, feedVars>>
  BY DEF InRead
<1>2. \/ FlushReplies \/ EndConnection \/ NothingToFlush
      \/ ReceiveAfterClosing \/ Receive \/ ReceiveEof \/ ReceiveReset \/ ReadWouldBlock
  BY <1>1, Zenon DEF ReadStep
<1>3. CASE FlushReplies \/ EndConnection \/ NothingToFlush
  BY <1>1, <1>3, InLoopStep
<1>4. CASE ReceiveEof \/ ReceiveReset \/ ReadWouldBlock
  BY <1>1, <1>4, InNoFrameStep
<1>5. CASE ReceiveAfterClosing \/ Receive
  BY <1>1, <1>5, InReceive
<1>6. QED
  BY <1>2, <1>3, <1>4, <1>5

LEMMA FeedStutter ==
  ASSUME FeedInv, UNCHANGED allVars
  PROVE  FeedInv'
<1>1. UNCHANGED <<vars, feed, conns, channel, receiver>>
  BY DEF allVars, feedVars
<1>2. /\ PeerInv' /\ SameBehind /\ Returned' = Returned /\ Out' = Out /\ Extends(outgoing, outgoing')
      /\ UNCHANGED <<state, pc, result, out_buffer, unflushed_additional, handed, nonblocking, broken>>
  BY <1>1, EndpointAlone
<1>3. FeedTypes' /\ PlacesAgree' /\ NothingWaits'
  BY <1>1, <1>2, FeedParts DEF FeedTypes, PlacesAgree, NothingWaits, Connected
<1>4. (Pending' <=> Pending) /\ (Connected' <=> Connected) /\ (Leaving' <=> Leaving)
  BY <1>1, <1>2 DEF Pending, Connected, Leaving
<1>5. QED
  BY <1>1, <1>2, <1>3, <1>4, FeedQuiet

LEMMA FeedStep == FeedInv /\ [FeedNext]_allVars => FeedInv'
<1> SUFFICES ASSUME FeedInv, [FeedNext]_allVars PROVE FeedInv'
  OBVIOUS
<1>1. \/ Connect \/ ConnectFails \/ Wake \/ ReceiverGoes \/ Exchange
      \/ CallRead \/ InRead \/ TakeText \/ AnswerPing \/ FlushPong \/ PongSent \/ Ignore \/ Fails
      \/ UNCHANGED allVars
  BY Zenon DEF FeedNext, Looping
<1>2. CASE Connect
  BY <1>2, ConnectStep
<1>3. CASE ConnectFails \/ Wake \/ ReceiverGoes
  BY <1>3, WaitStep
<1>4. CASE Exchange
  BY <1>4, ExchangeStep
<1>5. CASE CallRead
  BY <1>5, CallReadStep
<1>6. CASE InRead
  BY <1>6, InReadStep
<1>7. CASE TakeText
  BY <1>7, TextStep
<1>8. CASE AnswerPing
  BY <1>8, AnswerStep
<1>9. CASE FlushPong
  BY <1>9, FlushPongStep
<1>10. CASE PongSent \/ Ignore
  BY <1>10, LoopsStep
<1>11. CASE Fails
  BY <1>11, FailsStep
<1>12. CASE UNCHANGED allVars
  BY <1>12, FeedStutter
<1>13. QED
  BY <1>1, <1>2, <1>3, <1>4, <1>5, <1>6, <1>7, <1>8, <1>9, <1>10, <1>11, <1>12

(* FeedInv is inductive: the parts below need each other and those of the  *)
(* endpoint.                                                               *)
THEOREM FeedInvariance == FeedSpec => []FeedInv
  BY FeedStart, FeedStep, PTL DEF FeedSpec

-----------------------------------------------------------------------------
(* What the properties say that FeedInv does not say in the same words *)
LEMMA UpdatesFollow ==
  ASSUME FeedInv
  PROVE  UpdatesInOrder
<1>1. ChannelInv /\ MessagesWhole /\ FragmentsInv /\ handed \in Seq(Seq(Nat)) /\ PeerInv
  BY FeedParts
<1>2. \A j \in DOMAIN channel : Mine(j) => WholeMessage(channel[j][2])
  <2> SUFFICES ASSUME NEW j \in DOMAIN channel, Mine(j)
               PROVE  WholeMessage(channel[j][2])
    OBVIOUS
  <2>1. PICK i \in DOMAIN handed : IsMessage(i) /\ channel[j][2] = handed[i]
    BY <1>1 DEF ChannelInv
  <2>2. WholeMessage(handed[i])
    BY <1>1, <2>1 DEF MessagesWhole
  <2>3. QED
    BY <2>1, <2>2
<1>3. \A i, j \in DOMAIN channel : Mine(i) /\ Mine(j) /\ i < j =>
         \A k \in DOMAIN channel[i][2], l \in DOMAIN channel[j][2] :
           channel[i][2][k] < channel[j][2][l]
  BY <1>1 DEF ChannelInv
<1>4. ASSUME NEW m, Sent(m)
      PROVE  \E i \in DOMAIN handed : /\ IsMessage(i) /\ (Pending => i # Len(handed)) /\ InChannel(i)
                                      /\ \E k \in DOMAIN handed[i] : handed[i][k] = m
  <2>1. PICK j \in DOMAIN channel : Mine(j) /\ \E k \in DOMAIN channel[j][2] : channel[j][2][k] = m
    BY <1>4 DEF Sent
  <2>2. PICK i \in DOMAIN handed : /\ IsMessage(i) /\ channel[j][2] = handed[i]
                                   /\ Pending => i # Len(handed)
    BY <1>1, <2>1 DEF ChannelInv
  <2>3. InChannel(i)
    BY <2>1, <2>2 DEF InChannel
  <2>4. QED
    BY <2>1, <2>2, <2>3
<1>5. \A i \in DOMAIN handed : InChannel(i) => \A k \in DOMAIN handed[i] : Sent(handed[i][k])
  BY DEF InChannel, Sent
<1>6. ASSUME NEW n \in 1 .. Returned, IsData(n), ~Sent(n)
      PROVE  /\ \A m \in 1 .. Returned : Sent(m) => m < n
             /\ pc = "reading" => Kept(n)
  <2>1. CASE Handed(n)
    <3>1. PICK h \in DOMAIN handed : \E k \in DOMAIN handed[h] : handed[h][k] = n
      BY <2>1 DEF Handed
    <3>2. PICK k \in DOMAIN handed[h] : handed[h][k] = n
      BY <3>1
    <3>3. IsMessage(h)
      <4>1. CASE ~IsMessage(h)
        <5>1. Len(handed[h]) = 1 /\ handed[h] \in Seq(Nat)
          BY <1>1, <4>1 DEF FragmentsInv
        <5>2. k = 1
          BY <5>1
        <5>3. QED
          BY <1>6, <3>2, <5>2, <4>1 DEF IsMessage
      <4>2. QED
        BY <4>1
    <3>4. ~InChannel(h)
      BY <1>5, <1>6, <3>2
    <3>5. h = Len(handed) /\ (Pending \/ ~Connected)
      BY <1>1, <3>3, <3>4 DEF ChannelInv
    <3>6. pc # "reading"
      BY <3>5, FeedParts DEF Pending, PlacesAgree
    <3>7. ASSUME NEW m \in 1 .. Returned, Sent(m) PROVE m < n
      <4>1. PICK i \in DOMAIN handed : /\ IsMessage(i) /\ InChannel(i)
                                       /\ \E l \in DOMAIN handed[i] : handed[i][l] = m
        BY <1>4, <3>7
      <4>2. i # h /\ i \in 1 .. Len(handed)
        BY <1>1, <3>4, <4>1, SMTT(40)
      <4>3. i < h
        BY <1>1, <3>5, <4>2
      <4>4. QED
        BY <1>1, <3>2, <3>3, <4>1, <4>3 DEF MessagesWhole
    <3>8. QED
      BY <3>6, <3>7
  <2>2. CASE Kept(n)
    <3>1. PICK l \in DOMAIN incomplete : incomplete[l] = n
      BY <2>2 DEF Kept
    <3>2. ASSUME NEW m \in 1 .. Returned, Sent(m) PROVE m < n
      <4>1. PICK i \in DOMAIN handed : IsMessage(i) /\ \E k \in DOMAIN handed[i] : handed[i][k] = m
        BY <1>4, <3>2
      <4>2. QED
        BY <1>1, <3>1, <4>1 DEF MessagesWhole
    <3>3. QED
      BY <2>2, <3>2
  <2>3. CASE ~Handed(n) /\ ~Kept(n)
    <3>1. \A m \in 1 .. Returned : IsData(m) /\ (Handed(m) \/ Kept(m)) => m < n
      BY <1>1, <1>6, <2>3 DEF MessagesWhole
    <3>2. ~Going
      BY <1>1, <1>6, <2>3 DEF FragmentsInv
    <3>3. pc # "reading"
      BY <3>2, <1>1, PartsOf DEF PlaceInv, Going
    <3>4. ASSUME NEW m \in 1 .. Returned, Sent(m) PROVE m < n
      <4>1. PICK i \in DOMAIN handed : IsMessage(i) /\ \E k \in DOMAIN handed[i] : handed[i][k] = m
        BY <1>4, <3>4
      <4>2. WholeMessage(handed[i])
        BY <1>1, <4>1 DEF MessagesWhole
      <4>3. IsData(m)
        <5>1. PICK k \in DOMAIN handed[i] : handed[i][k] = m
          BY <4>1
        <5>2. OpOf(handed[i][k]) \in {"data", "continue"}
          <6>1. OpOf(handed[i][k]) = IF k = 1 THEN "data" ELSE "continue"
            BY <4>2, Zenon DEF WholeMessage
          <6>2. QED
            BY <6>1
        <5>3. QED
          BY <5>1, <5>2 DEF IsData
      <4>4. Handed(m)
        BY <4>1 DEF Handed
      <4>5. QED
        BY <3>1, <4>3, <4>4
    <3>5. QED
      BY <3>3, <3>4
  <2>4. QED
    BY <2>1, <2>2, <2>3
<1>7. QED
  BY <1>2, <1>3, <1>6 DEF UpdatesInOrder

LEMMA PongsPaired ==
  ASSUME FeedInv
  PROVE  PairedPongs
<1>1. /\ PairInv /\ Buffers /\ outgoing \in Seq(Frame) /\ out_buffer \in Seq(Frame)
      /\ NothingWaits /\ PlacesAgree
  BY FeedParts DEF Buffers
<1>2. \A i \in DOMAIN outgoing : i \in DOMAIN Out /\ outgoing[i] = Out[i]
  BY <1>1, ConcatProperties DEF Out
<1>3. \A i \in DOMAIN outgoing : IsPong(outgoing[i]) =>
         outgoing[i].id \in 1 .. Returned /\ OpOf(outgoing[i].id) = "ping"
  BY <1>1, <1>2 DEF PairInv
<1>4. \A i, j \in DOMAIN outgoing : IsPong(outgoing[i]) /\ IsPong(outgoing[j]) /\ i < j =>
       \/ outgoing[i].id < outgoing[j].id
       \/ outgoing[i].id = outgoing[j].id /\ outgoing[i].auto /\ ~outgoing[j].auto
  BY <1>1, <1>2 DEF PairInv
<1>5. ASSUME pc = "reading"
      PROVE  outgoing = Out /\ ~PendingPing /\ ~Leaving
  <2>1. out_buffer = << >> /\ Connected
    BY <1>1, <1>5 DEF NothingWaits, PlacesAgree
  <2>2. outgoing = Out
    BY <1>1, <2>1, AllWritten
  <2>3. QED
    BY <1>5, <2>1, <2>2 DEF PendingPing, Pending, Leaving
(* Of the two pongs the plain one is the later: if it is not written, what *)
(* is written is no later than the other.                                  *)
<1>6. ASSUME NEW n \in 1 .. Returned, OpOf(n) = "ping", ~(PongFor(n, TRUE) /\ PongFor(n, FALSE))
      PROVE  /\ \A i \in DOMAIN outgoing : IsPong(outgoing[i]) =>
                  outgoing[i].id < n \/ (outgoing[i].id = n /\ outgoing[i].auto)
             /\ pc # "reading"
  <2>1. CASE Both(n)
    <3>1. PICK a \in DOMAIN Out : IsPong(Out[a]) /\ Out[a].id = n /\ Out[a].auto = TRUE
      BY <2>1 DEF Both, Queued
    <3>2. PICK b \in DOMAIN Out : IsPong(Out[b]) /\ Out[b].id = n /\ Out[b].auto = FALSE
      BY <2>1 DEF Both, Queued
    <3>3. /\ DOMAIN outgoing = 1 .. Len(outgoing) /\ Len(outgoing) \in Nat
          /\ DOMAIN Out = 1 .. Len(Out) /\ Len(Out) \in Nat /\ n \in Nat
          /\ \A i \in DOMAIN outgoing : IsPong(outgoing[i]) => outgoing[i].id \in Nat
      BY <1>1, <1>3, FeedParts
    <3>4. a < b
      <4>1. a # b /\ ~(b < a)
        <5>1. CASE b < a
          <6>1. \/ Out[b].id < Out[a].id
                \/ Out[b].id = Out[a].id /\ Out[b].auto /\ ~Out[a].auto
            BY <1>1, <3>1, <3>2, <5>1 DEF PairInv
          <6>2. QED
            BY <3>1, <3>2, <3>3, <6>1
        <5>2. QED
          BY <3>1, <3>2, <5>1
      <4>2. QED
        BY <3>3, <4>1
    <3>5. b \notin DOMAIN outgoing
      <4>1. CASE b \in DOMAIN outgoing
        <5>1. a \in DOMAIN outgoing
          BY <3>3, <3>4, <4>1
        <5>2. PongFor(n, TRUE) /\ PongFor(n, FALSE)
          BY <1>2, <3>1, <3>2, <4>1, <5>1 DEF PongFor
        <5>3. QED
          BY <1>6, <5>2
      <4>2. QED
        BY <4>1
    <3>6. ASSUME NEW i \in DOMAIN outgoing, IsPong(outgoing[i])
          PROVE  outgoing[i].id < n \/ (outgoing[i].id = n /\ outgoing[i].auto)
      <4>1. i < b /\ i \in DOMAIN Out /\ Out[i] = outgoing[i]
        BY <1>2, <3>3, <3>5
      <4>2. \/ Out[i].id < Out[b].id
            \/ Out[i].id = Out[b].id /\ Out[i].auto /\ ~Out[b].auto
        BY <1>1, <3>2, <3>6, <4>1 DEF PairInv
      <4>3. QED
        BY <3>2, <4>1, <4>2
    <3>7. pc # "reading"
      BY <1>5, <3>2, <3>5
    <3>8. QED
      BY <3>6, <3>7
  <2>2. CASE ~Both(n)
    <3>1. Unpaired(n) /\ (PendingPing \/ Leaving)
      BY <1>1, <1>6, <2>2 DEF PairInv
    <3>2. pc # "reading"
      BY <1>5, <3>1
    <3>3. QED
      BY <1>2, <3>1, <3>2 DEF Unpaired
  <2>3. QED
    BY <2>1, <2>2
<1>7. QED
  BY <1>3, <1>4, <1>6 DEF PairedPongs

LEMMA FeedInvImplies ==
  FeedInv => UpdatesInOrder /\ PairedPongs /\ LeavesAfterReply /\ NeverAborts
<1> SUFFICES ASSUME FeedInv
             PROVE  UpdatesInOrder /\ PairedPongs /\ LeavesAfterReply /\ NeverAborts
  OBVIOUS
<1>1. LeaveInv /\ PlacesAgree /\ FeedTypes
  BY FeedParts
<1>2. LeavesAfterReply
  BY <1>1 DEF LeavesAfterReply, LeaveInv, Leaving, Connected
<1>3. NeverAborts
  BY <1>1 DEF NeverAborts, PlacesAgree, FeedTypes, Places, Connected
<1>4. QED
  BY <1>2, <1>3, UpdatesFollow, PongsPaired

(* The updates of a connection go down the channel whole, in order, once   *)
(* each and without a gap (looping_msg, binance_data.rs:31-36), whatever   *)
(* the exchange sends and however the connection ends.                     *)
THEOREM UpdatesSentInOrder == FeedSpec => []UpdatesInOrder
  BY FeedInvariance, FeedInvImplies, PTL

(* Each ping gets the library's pong and the thread's, in this order, and  *)
(* both are written before the next frame is waited for.                   *)
THEOREM PongsInPairs == FeedSpec => []PairedPongs
  BY FeedInvariance, FeedInvImplies, PTL

(* A thread that was told to close leaves only when its own close frame is *)
(* written, unless the connection broke.                                   *)
THEOREM ReplyBeforeLeaving == FeedSpec => []LeavesAfterReply
  BY FeedInvariance, FeedInvImplies, PTL

(* The reply to a close is never the write that fails, which is unwrapped. *)
THEOREM NoAbort == FeedSpec => []NeverAborts
  BY FeedInvariance, FeedInvImplies, PTL
=============================================================================
