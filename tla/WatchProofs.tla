----------------------------- MODULE WatchProofs -----------------------------
(***************************************************************************)
(* Proofs about Watch for every set of selected clusters and any number of *)
(* writes.                                                                 *)
(*                                                                         *)
(* The control part of the invariant says which goroutine may be where.    *)
(* The data part is about one sequence, what the client has received       *)
(* followed by the initial events still to be sent: the feeder only moves  *)
(* the border between the two, so the sequence grows at its end alone.     *)
(***************************************************************************)
EXTENDS Watch, SequenceTheorems, TLAPS

Stream == received \o initial

InStream(e) == \E i \in 1 .. Len(Stream) : Stream[i] = e

\* The first event of a cluster that the client is to get is the next after this.
Start(c) == IF watchList THEN 0 ELSE from[c]

\* The last event of a cluster that is in the stream, as long as its forwarder
\* has not given up.
Sent(c) ==
    IF remote[c] = "none" THEN from[c]
    ELSE IF forward[c] = "sending" THEN pos[c] - 1
    ELSE pos[c]

-----------------------------------------------------------------------------
(* Control *)

\* What runs and what has been set up while Watch is in its loop, and once it
\* has returned.
SetupKept ==
    /\ pc # "returned" => feeder = "off" /\ closer = "off" /\ received = << >>
    /\ pc = "returned" =>
         toSetup = {} /\ listed = NoCluster /\ feeder # "off" /\ closer # "off"
    /\ listed # NoCluster => listed \in toSetup
    /\ \A c \in Selected : remote[c] = "none" <=> c \in toSetup
    /\ \A c \in toSetup \ {listed} : from[c] = 0

\* The forwarders run only while the feeder waits for them.
ForwardersKept ==
    /\ feeder \in {"off", "sending"} => \A c \in Selected : forward[c] = "off"
    /\ feeder = "forwarding" => initial = << >> /\ \A c \in Selected : forward[c] # "off"
    /\ feeder = "exited" => \A c \in Selected : forward[c] \in {"off", "exited"}

\* A remote watch that has been stopped is not opened again.
RemotesKept ==
    pc = "failed" \/ closer \in {"joining", "closed"} =>
        \A c \in Selected : remote[c] # "open"

\* A remote watch is read from where the member was listed.
PositionsKept ==
    \A c \in Selected :
        /\ remote[c] # "none" => from[c] <= pos[c]
        /\ remote[c] # "none" /\ forward[c] = "off" => pos[c] = from[c]
        /\ forward[c] = "sending" => from[c] < pos[c]

Control == SetupKept /\ ForwardersKept /\ RemotesKept /\ PositionsKept /\ NoSendAfterClose

-----------------------------------------------------------------------------
(* The stream *)

\* No event is before the start of its cluster or after what has been sent.
Within ==
    \A i \in 1 .. Len(Stream) : Stream[i] # Bookmark =>
        Start(Stream[i][1]) < Stream[i][2] /\ Stream[i][2] <= Sent(Stream[i][1])

\* The events of a cluster are in order.
Ordered ==
    \A i, j \in 1 .. Len(Stream) :
        /\ i < j /\ Stream[i] # Bookmark /\ Stream[j] # Bookmark
        /\ Stream[i][1] = Stream[j][1]
        => Stream[i][2] < Stream[j][2]

\* An event is there with those before it.
Closed ==
    \A i \in 1 .. Len(Stream) : Stream[i] # Bookmark =>
        \A m \in Start(Stream[i][1]) + 1 .. Stream[i][2] - 1 : InStream(<<Stream[i][1], m>>)

\* Nothing of what has been taken from a cluster is lost, unless its forwarder has
\* given up with an event in its hands.
Complete ==
    \A c \in Selected : forward[c] # "exited" =>
        \A m \in Start(c) + 1 .. Sent(c) : InStream(<<c, m>>)

\* The bookmark comes after exactly the objects that were listed.
BookmarkAfterInitial ==
    \A k \in 1 .. Len(Stream) : Stream[k] = Bookmark =>
        /\ watchList /\ pc = "returned"
        /\ {Stream[i] : i \in 1 .. k - 1}
             = {e \in Selected \X (1 .. MaxWrites) : e[2] <= from[e[1]]}

\* An event that was not listed comes after the bookmark.
LateAfterBookmark ==
    \A k \in 1 .. Len(Stream) :
        Stream[k] # Bookmark /\ watchList /\ Stream[k][2] > from[Stream[k][1]] =>
            \E i \in 1 .. k - 1 : Stream[i] = Bookmark

\* A watch-list that has been set up has its bookmark.
BookmarkMade == pc = "returned" /\ watchList => InStream(Bookmark)

StreamInv ==
    /\ Within /\ Ordered /\ Closed /\ Complete
    /\ BookmarkAfterInitial /\ LateAfterBookmark /\ BookmarkMade

\* The inductive invariant.
IInv == TypeOK /\ Control /\ StreamInv

-----------------------------------------------------------------------------
(* Types *)

\* What a List returns.
LEMMA ObjectsType ==
    ASSUME NEW c \in Selected, NEW n \in 0 .. MaxWrites
    PROVE  /\ Objects(c, n) \in Seq(Event) /\ Len(Objects(c, n)) = n
           /\ \A i \in 1 .. n : Objects(c, n)[i] = <<c, i>>
<1>1. \A i \in 1 .. n : <<c, i>> \in Event
  BY MaxWritesAssumption DEF Event
<1>2. n \in Nat
  BY MaxWritesAssumption
<1>3. Objects(c, n) \in [1 .. n -> Event]
  BY <1>1 DEF Objects
<1>4. Objects(c, n) \in Seq(Event)
  BY <1>2, <1>3, SeqDef
<1> QED
  BY <1>2, <1>4 DEF Objects

\* An event is the bookmark or a write, and no write is the bookmark.
LEMMA EventType ==
    /\ Bookmark \in Event
    /\ \A e \in Event : e # Bookmark =>
         e \in Selected \X (1 .. MaxWrites) /\ e[1] \in Selected /\ e[2] \in 1 .. MaxWrites
    /\ \A c \in Selected, n \in 1 .. MaxWrites :
         /\ <<c, n>> \in Event /\ <<c, n>> # Bookmark
         /\ <<c, n>>[1] = c /\ <<c, n>>[2] = n
<1>1. \A c \in Selected, n \in 1 .. MaxWrites : <<c, n>> # Bookmark
  BY NoClusterAssumption DEF Bookmark
<1> QED
  BY <1>1 DEF Event

\* Every step keeps the types (watcher.go).
LEMMA TypeStep == ASSUME TypeOK, PositionsKept, Next PROVE TypeOK'
<1> USE DEF TypeOK, setupVars, memberVars, streamVars, endVars, threadVars, clientVars
<1>1. ASSUME NEW c \in Selected, ListMember(c) PROVE TypeOK'
  <2>1. initial' \in Seq(Event)
    <3>1. Objects(c, rv[c]) \in Seq(Event)
      BY ObjectsType
    <3> QED
      BY <1>1, <3>1, ConcatProperties DEF ListMember
  <2> QED
    BY <1>1, <2>1 DEF ListMember
<1>2. ASSUME NEW c \in Selected, WatchMember(c) PROVE TypeOK'
  BY <1>2 DEF WatchMember, StartOfWatch
<1>3. ASSUME NEW c \in Selected, SetupFails(c) PROVE TypeOK'
  BY <1>3 DEF SetupFails, StopRemotes
<1>4. ASSUME NEW c \in Selected, ForwardTake(c) PROVE TypeOK'
  <2>1. pos[c] + 1 \in 0 .. MaxWrites
    BY <1>4, MaxWritesAssumption DEF ForwardTake
  <2> QED
    BY <1>4, <2>1 DEF ForwardTake
<1>5. ASSUME NEW c \in Selected, ForwardSkip(c) PROVE TypeOK'
  BY <1>5 DEF ForwardSkip
<1>6. ASSUME NEW c \in Selected, ForwardSend(c) PROVE TypeOK'
  <2>1. pos[c] \in 1 .. MaxWrites
    BY <1>6, MaxWritesAssumption DEF ForwardSend, PositionsKept
  <2>2. received' \in Seq(Event)
    BY <1>6, <2>1, EventType, AppendProperties DEF ForwardSend
  <2> QED
    BY <1>6, <2>2 DEF ForwardSend
<1>7. ASSUME NEW c \in Selected, ForwardExit(c) PROVE TypeOK'
  BY <1>7 DEF ForwardExit
<1>8. ASSUME NEW c \in Selected, Write(c) PROVE TypeOK'
  <2>1. rv[c] + 1 \in 0 .. MaxWrites
    BY <1>8, MaxWritesAssumption DEF Write
  <2> QED
    BY <1>8, <2>1 DEF Write
<1>9. ASSUME NEW c \in Selected, SendBookmark(c) \/ RemoteEnds(c) PROVE TypeOK'
  <2>1. CASE SendBookmark(c)
    BY <2>1 DEF SendBookmark
  <2>2. CASE RemoteEnds(c)
    BY <2>2 DEF RemoteEnds
  <2> QED
    BY <1>9, <2>1, <2>2
<1>10. CASE WatchReturns
  <2>1. initial' \in Seq(Event)
    BY <1>10, EventType, AppendProperties DEF WatchReturns
  <2> QED
    BY <1>10, <2>1 DEF WatchReturns
<1>11. CASE FeederSend
  <2>1. received' \in Seq(Event) /\ initial' \in Seq(Event)
    BY <1>11, HeadTailProperties, AppendProperties DEF FeederSend
  <2> QED
    BY <1>11, <2>1 DEF FeederSend
<1>12. CASE FeederCancelled \/ FeederForwards \/ FeederJoins
  BY <1>12 DEF FeederCancelled, FeederForwards, FeederJoins
<1>13. CASE Closer
  BY <1>13 DEF Closer, CloserWakes, CloserStops, CloserCloses, StopRemotes
<1>14. CASE ClientLeaves \/ ClientStalls \/ ServerSwaps
  <2>1. CASE ClientLeaves
    BY <2>1 DEF ClientLeaves
  <2>2. CASE ClientStalls
    BY <2>2 DEF ClientStalls
  <2>3. CASE ServerSwaps
    BY <2>3 DEF ServerSwaps
  <2> QED
    BY <1>14, <2>1, <2>2, <2>3
<1>15. CASE Ended
  BY <1>15 DEF Ended, vars
<1> QED
  BY <1>1, <1>2, <1>3, <1>4, <1>5, <1>6, <1>7, <1>8, <1>9, <1>10, <1>11, <1>12, <1>13,
    <1>14, <1>15 DEF Next, Forwarder, Feeder

-----------------------------------------------------------------------------
(* Control *)

\* Every step keeps the control part of the invariant (watcher.go).
LEMMA ControlStep == ASSUME TypeOK, Control, Next PROVE Control'
<1> USE DEF setupVars, memberVars, streamVars, endVars, threadVars, clientVars,
      SetupKept, ForwardersKept, RemotesKept, PositionsKept, NoSendAfterClose
<1>1. ASSUME NEW c \in Selected, ListMember(c) PROVE Control'
  BY <1>1, NoClusterAssumption DEF ListMember, Control, TypeOK
<1>2. ASSUME NEW c \in Selected, WatchMember(c) PROVE Control'
  BY <1>2, MaxWritesAssumption, NoClusterAssumption DEF WatchMember, StartOfWatch, Control, TypeOK
<1>3. ASSUME NEW c \in Selected, SetupFails(c) PROVE Control'
  BY <1>3 DEF SetupFails, StopRemotes, Control, TypeOK
<1>4. ASSUME NEW c \in Selected, ForwardTake(c) PROVE Control'
  BY <1>4, MaxWritesAssumption DEF ForwardTake, Control, TypeOK
<1>5. ASSUME NEW c \in Selected, ForwardSkip(c) PROVE Control'
  BY <1>5 DEF ForwardSkip, Control, TypeOK
<1>6. ASSUME NEW c \in Selected, ForwardSend(c) PROVE Control'
  BY <1>6 DEF ForwardSend, Control, TypeOK
<1>7. ASSUME NEW c \in Selected, ForwardExit(c) PROVE Control'
  BY <1>7 DEF ForwardExit, Control, TypeOK
<1>8. ASSUME NEW c \in Selected, Write(c) PROVE Control'
  BY <1>8 DEF Write, Control, TypeOK
<1>9. ASSUME NEW c \in Selected, SendBookmark(c) \/ RemoteEnds(c) PROVE Control'
  BY <1>9 DEF SendBookmark, RemoteEnds, Control, TypeOK
<1>10. CASE WatchReturns
  BY <1>10 DEF WatchReturns, Control, TypeOK
<1>11. CASE FeederSend
  BY <1>11 DEF FeederSend, Control, TypeOK
<1>12. CASE FeederCancelled \/ FeederForwards \/ FeederJoins
  BY <1>12 DEF FeederCancelled, FeederForwards, FeederJoins, Control, TypeOK
<1>13. CASE Closer
  BY <1>13 DEF Closer, CloserWakes, CloserStops, CloserCloses, StopRemotes, Control, TypeOK
<1>14. CASE ClientLeaves \/ ClientStalls \/ ServerSwaps
  BY <1>14 DEF ClientLeaves, ClientStalls, ServerSwaps, Control, TypeOK
<1>15. CASE Ended
  BY <1>15 DEF Ended, vars, Control
<1> QED
  BY <1>1, <1>2, <1>3, <1>4, <1>5, <1>6, <1>7, <1>8, <1>9, <1>10, <1>11, <1>12, <1>13,
    <1>14, <1>15 DEF Next, Forwarder, Feeder

-----------------------------------------------------------------------------
(* The stream *)

\* The stream is typed, and the client has received its first part.
LEMMA StreamType ==
    ASSUME TypeOK
    PROVE  /\ Stream \in Seq(Event) /\ Len(Stream) \in Nat
           /\ Len(Stream) = Len(received) + Len(initial)
           /\ \A i \in 1 .. Len(received) : i \in 1 .. Len(Stream) /\ Stream[i] = received[i]
           /\ \A i \in 1 .. Len(Stream) : Stream[i] \in Event
<1>1. received \in Seq(Event) /\ initial \in Seq(Event)
  BY DEF TypeOK
<1>2. /\ Stream \in Seq(Event)
      /\ Len(Stream) = Len(received) + Len(initial)
      /\ \A i \in 1 .. Len(received) + Len(initial) :
           Stream[i] = IF i <= Len(received) THEN received[i] ELSE initial[i - Len(received)]
  BY <1>1, ConcatProperties DEF Stream
<1>3. Len(received) \in Nat /\ Len(initial) \in Nat /\ Len(Stream) \in Nat
  BY <1>1, <1>2, LenProperties
<1>4. \A i \in 1 .. Len(received) : i \in 1 .. Len(Stream) /\ Stream[i] = received[i]
  BY <1>2, <1>3
<1>5. \A i \in 1 .. Len(Stream) : Stream[i] \in Event
  BY <1>2, ElementOfSeq
<1> QED
  BY <1>2, <1>3, <1>4, <1>5

\* The feeder moves the border between what is received and what is not.
LEMMA FeederKeepsStream == ASSUME TypeOK, FeederSend PROVE Stream' = Stream
<1>1. received \in Seq(Event) /\ initial \in Seq(Event) /\ initial # << >>
  BY DEF TypeOK, FeederSend
<1>2. PICK h : h = Head(initial)
  OBVIOUS
<1>3. PICK t : t = Tail(initial)
  OBVIOUS
<1>4. /\ h \in Event /\ t \in Seq(Event) /\ Len(initial) = Len(t) + 1
      /\ \A i \in 1 .. Len(t) : t[i] = initial[i + 1]
      /\ h = initial[1]
  BY <1>1, <1>2, <1>3, HeadTailProperties
<1>5. initial = <<h>> \o t
  <2>1. <<h>> \in Seq(Event) /\ Len(<<h>>) = 1 /\ <<h>>[1] = h
    BY <1>4
  <2>2. PICK u : u = <<h>> \o t
    OBVIOUS
  <2>3. /\ u \in Seq(Event) /\ Len(u) = 1 + Len(t) /\ Len(t) \in Nat
        /\ \A i \in 1 .. 1 + Len(t) : u[i] = IF i <= 1 THEN <<h>>[i] ELSE t[i - 1]
    BY <1>4, <2>1, <2>2, ConcatProperties, LenProperties
  <2>4. ASSUME NEW i \in 1 .. Len(initial)
        PROVE  initial[i] = u[i]
    <3>1. CASE i = 1
      BY <1>4, <2>1, <2>3, <3>1
    <3>2. CASE i # 1
      <4>1. i - 1 \in 1 .. Len(t) /\ (i - 1) + 1 = i
        BY <1>4, <2>3, <3>2
      <4>2. t[i - 1] = initial[i]
        BY <1>4, <4>1
      <4> QED
        BY <1>4, <2>3, <3>2, <4>2
    <3> QED
      BY <3>1, <3>2
  <2>5. Len(initial) = Len(u)
    BY <1>4, <2>3
  <2> QED
    BY <1>1, <2>2, <2>3, <2>4, <2>5, SeqEqual
<1>6. Append(received, h) = received \o <<h>> /\ <<h>> \in Seq(Event)
  BY <1>1, <1>4, AppendIsConcat
<1>7. (received \o <<h>>) \o t = received \o (<<h>> \o t)
  BY <1>1, <1>4, <1>6, ConcatAssociative
<1>8. received' = Append(received, h) /\ initial' = t
  BY <1>2, <1>3 DEF FeederSend
<1> QED
  BY <1>5, <1>6, <1>7, <1>8 DEF Stream

\* The events of a member's List and the bookmark are appended.
LEMMA InitialExtendsStream ==
    ASSUME TypeOK, NEW more \in Seq(Event), initial' = initial \o more, received' = received
    PROVE  Stream' = Stream \o more
<1>1. received \in Seq(Event) /\ initial \in Seq(Event)
  BY DEF TypeOK
<1>2. (received \o initial) \o more = received \o (initial \o more)
  BY <1>1, ConcatAssociative
<1> QED
  BY <1>2 DEF Stream

\* So is what a forwarder sends.
LEMMA SendExtendsStream ==
    ASSUME TypeOK, NEW e \in Event, initial = << >>, initial' = initial,
           received' = Append(received, e)
    PROVE  Stream' = Append(Stream, e)
<1>1. received \in Seq(Event) /\ received' \in Seq(Event)
  BY AppendProperties DEF TypeOK
<1> QED
  BY <1>1, ConcatEmptySeq DEF Stream

\* Where a cluster's events start and end are numbers.
LEMMA BoundsType ==
    ASSUME TypeOK, NEW c \in Selected
    PROVE  Start(c) \in Int /\ Sent(c) \in Int /\ from[c] \in Nat /\ pos[c] \in Nat
<1>1. from[c] \in Nat /\ pos[c] \in Nat
  BY MaxWritesAssumption DEF TypeOK
<1> QED
  BY <1>1 DEF Start, Sent

\* Steps that leave the stream alone.  A forwarder that gives up may have taken
\* an event that it did not send.
LEMMA QuietStream ==
    ASSUME TypeOK, TypeOK', StreamInv,
           Stream' = Stream, UNCHANGED <<watchList, from>>,
           pc = "returned" => pc' = "returned",
           pc' = "returned" /\ watchList => pc = "returned",
           \A c \in Selected : Sent(c) <= Sent(c)',
           \A c \in Selected : forward'[c] # "exited" =>
               forward[c] # "exited" /\ Sent(c)' = Sent(c)
    PROVE  StreamInv'
<1>1. \A c : Start(c)' = Start(c)
  BY DEF Start
<1>2. \A e : InStream(e)' <=> InStream(e)
  BY DEF InStream
<1>3. \A i \in 1 .. Len(Stream) : Stream[i] # Bookmark =>
        Stream[i][1] \in Selected /\ Stream[i][2] \in Int
  BY StreamType, EventType, MaxWritesAssumption
<1>4. \A c \in Selected : Sent(c) \in Int /\ Sent(c)' \in Int /\ Start(c) \in Int
  <2>1. \A c \in Selected : Sent(c) \in Int /\ Start(c) \in Int
    BY BoundsType
  <2>2. \A c \in Selected : from'[c] \in Nat /\ pos'[c] \in Nat
    BY MaxWritesAssumption DEF TypeOK
  <2>3. \A c \in Selected : Sent(c)' \in Int
    BY <2>2 DEF Sent
  <2> QED
    BY <2>1, <2>3
<1>5. Within'
  <2> SUFFICES ASSUME NEW i \in 1 .. Len(Stream), Stream[i] # Bookmark
               PROVE  /\ Start(Stream[i][1])' < Stream[i][2]
                      /\ Stream[i][2] <= Sent(Stream[i][1])'
    BY DEF Within, Bookmark
  <2>1. PICK c \in Selected, n \in Int : c = Stream[i][1] /\ n = Stream[i][2]
    BY <1>3
  <2>2. Start(c) < n /\ n <= Sent(c)
    BY <2>1 DEF StreamInv, Within
  <2>3. Start(c)' < n /\ n <= Sent(c)'
    BY <1>1, <1>4, <2>2
  <2>4. c = Stream'[i][1]
    BY <2>1
  <2> QED
    BY <2>1, <2>3, <2>4
<1>6. Ordered'
  BY DEF StreamInv, Ordered, Bookmark
<1>7. Closed'
  BY <1>1, <1>2 DEF StreamInv, Closed, Bookmark
<1>8. Complete'
  BY <1>1, <1>2 DEF StreamInv, Complete
<1>9. BookmarkAfterInitial' /\ LateAfterBookmark' /\ BookmarkMade'
  <2>1. BookmarkAfterInitial'
    BY DEF StreamInv, BookmarkAfterInitial, Bookmark
  <2>2. LateAfterBookmark'
    BY DEF StreamInv, LateAfterBookmark, Bookmark
  <2>3. BookmarkMade'
    BY <1>2 DEF StreamInv, BookmarkMade, Bookmark
  <2> QED
    BY <2>1, <2>2, <2>3
<1> QED
  BY <1>5, <1>6, <1>7, <1>8, <1>9 DEF StreamInv

\* A forwarder sends the event it has taken (forward, watcher.go).
LEMMA ForwardSendStream ==
    ASSUME TypeOK, Control, StreamInv, NEW c \in Selected, ForwardSend(c)
    PROVE  StreamInv'
<1>1. /\ forward[c] = "sending" /\ received' = Append(received, <<c, pos[c]>>)
      /\ forward' = [forward EXCEPT ![c] = "receiving"]
      /\ UNCHANGED <<watchList, pc, from, initial, remote, pos>>
  BY DEF ForwardSend, setupVars, streamVars
<1>2. /\ initial = << >> /\ pc = "returned" /\ remote[c] # "none"
      /\ pos[c] \in 1 .. MaxWrites /\ from[c] < pos[c]
  <2>1. feeder = "forwarding"
    BY <1>1 DEF TypeOK, Control, ForwardersKept
  <2> QED
    BY <1>1, <2>1, MaxWritesAssumption
    DEF TypeOK, Control, ForwardersKept, SetupKept, PositionsKept
<1>3. PICK e : e = <<c, pos[c]>>
  OBVIOUS
<1>4. e \in Event /\ e # Bookmark /\ e[1] = c /\ e[2] = pos[c]
  BY <1>2, <1>3, EventType
<1>5. Stream' = Append(Stream, e)
  BY <1>1, <1>2, <1>3, <1>4, SendExtendsStream
<1>6. PICK n \in Nat : n = Len(Stream)
  BY StreamType
<1>7. /\ Len(Stream)' = n + 1 /\ Stream'[n + 1] = e
      /\ \A i \in 1 .. n : Stream'[i] = Stream[i] /\ Stream[i] \in Event
  BY <1>4, <1>5, <1>6, StreamType, AppendProperties
<1>8. \A i \in 1 .. n : Stream[i] # Bookmark =>
        /\ Stream[i][1] \in Selected /\ Stream[i][2] \in Int
        /\ Start(Stream[i][1]) < Stream[i][2] /\ Stream[i][2] <= Sent(Stream[i][1])
  BY <1>6, <1>7, EventType, MaxWritesAssumption DEF StreamInv, Within
<1>9. /\ \A d : Start(d)' = Start(d)
      /\ Sent(c) = pos[c] - 1 /\ Sent(c)' = pos[c]
      /\ \A d \in Selected : d # c => Sent(d)' = Sent(d) /\ forward'[d] = forward[d]
  BY <1>1, <1>2 DEF Start, Sent, TypeOK
<1>10. \A d \in Selected : Start(d) \in Int /\ Sent(d) \in Int /\ from[d] \in Nat /\ pos[d] \in Nat
  BY BoundsType
<1>11. InStream(e)' /\ \A x : InStream(x) => InStream(x)'
  BY <1>6, <1>7 DEF InStream
<1>12. Start(c) < pos[c]
  BY <1>2, <1>10 DEF Start
<1>13. Bookmark' = Bookmark
  BY DEF Bookmark
<1>14. Within'
  <2> SUFFICES ASSUME NEW i \in 1 .. n + 1, Stream'[i] # Bookmark
               PROVE  /\ Start(Stream[i][1])' < Stream'[i][2]
                      /\ Stream'[i][2] <= Sent(Stream[i][1])'
    BY <1>7, <1>13 DEF Within
  <2>1. CASE i = n + 1
    <3>1. Stream'[i][1] = c /\ Stream'[i][2] = pos[c]
      BY <1>4, <1>7, <2>1
    <3> QED
      BY <1>9, <1>10, <1>12, <3>1
  <2>2. CASE i \in 1 .. n
    <3>1. PICK d \in Selected, m \in Int : d = Stream[i][1] /\ m = Stream[i][2]
      BY <1>7, <1>8, <2>2
    <3>2. Start(d) < m /\ m <= Sent(d) /\ d = Stream'[i][1] /\ m = Stream'[i][2]
      BY <1>7, <1>8, <2>2, <3>1
    <3>3. Start(d)' < m /\ m <= Sent(d)'
      BY <1>9, <1>10, <3>2
    <3> QED
      BY <3>2, <3>3
  <2> QED
    BY <2>1, <2>2
<1>15. Ordered'
  <2> SUFFICES ASSUME NEW i \in 1 .. n + 1, NEW j \in 1 .. n + 1, i < j,
                      Stream'[i] # Bookmark, Stream'[j] # Bookmark,
                      Stream'[i][1] = Stream'[j][1]
               PROVE  Stream'[i][2] < Stream'[j][2]
    BY <1>7, <1>13 DEF Ordered
  <2>1. i \in 1 .. n /\ Stream'[i] = Stream[i]
    BY <1>7
  <2>2. CASE j \in 1 .. n
    BY <1>6, <1>7, <2>1, <2>2 DEF StreamInv, Ordered
  <2>3. CASE j = n + 1
    <3>1. Stream[i][1] = c /\ Stream'[j][2] = pos[c]
      BY <1>4, <1>7, <2>1, <2>3
    <3>2. Stream[i][2] \in Int /\ Stream[i][2] <= Sent(c)
      BY <1>8, <2>1, <3>1
    <3> QED
      BY <1>9, <1>10, <2>1, <3>1, <3>2
  <2> QED
    BY <2>2, <2>3
<1>16. Closed'
  <2> SUFFICES ASSUME NEW i \in 1 .. n + 1, Stream'[i] # Bookmark,
                      NEW m \in Start(Stream[i][1])' + 1 .. Stream'[i][2] - 1
               PROVE  InStream(<<Stream[i][1], m>>)'
    BY <1>7, <1>13 DEF Closed
  <2>1. CASE i = n + 1
    <3>1. Stream'[i][1] = c /\ Stream'[i][2] = pos[c]
      BY <1>4, <1>7, <2>1
    <3>2. m \in Start(c) + 1 .. Sent(c)
      BY <1>9, <3>1
    <3>3. InStream(<<c, m>>)
      BY <1>1, <3>2 DEF StreamInv, Complete
    <3> QED
      BY <1>11, <3>1, <3>3
  <2>2. CASE i \in 1 .. n
    <3>1. Stream'[i] = Stream[i]
      BY <1>7, <2>2
    <3>2. InStream(<<Stream[i][1], m>>)
      BY <1>6, <1>9, <2>2, <3>1 DEF StreamInv, Closed
    <3> QED
      BY <1>11, <3>1, <3>2
  <2> QED
    BY <2>1, <2>2
<1>17. Complete'
  <2> SUFFICES ASSUME NEW d \in Selected, forward'[d] # "exited",
                      NEW m \in Start(d)' + 1 .. Sent(d)'
               PROVE  InStream(<<d, m>>)'
    BY DEF Complete
  <2>1. CASE d = c /\ m = pos[c]
    BY <1>3, <1>11, <2>1
  <2>2. CASE d = c /\ m # pos[c]
    <3>1. m \in Start(c) + 1 .. Sent(c)
      BY <1>9, <1>10, <2>2
    <3> QED
      BY <1>1, <1>11, <2>2, <3>1 DEF StreamInv, Complete
  <2>3. CASE d # c
    BY <1>9, <1>11, <2>3 DEF StreamInv, Complete
  <2> QED
    BY <2>1, <2>2, <2>3
<1>18. BookmarkAfterInitial'
  <2> SUFFICES ASSUME NEW k \in 1 .. n + 1, Stream'[k] = Bookmark
               PROVE  /\ watchList /\ pc = "returned"
                      /\ {Stream'[i] : i \in 1 .. k - 1}
                           = {x \in Selected \X (1 .. MaxWrites) : x[2] <= from[x[1]]}
    BY <1>1, <1>7, <1>13 DEF BookmarkAfterInitial
  <2>1. k \in 1 .. n
    BY <1>4, <1>7
  <2>2. {Stream'[i] : i \in 1 .. k - 1} = {Stream[i] : i \in 1 .. k - 1}
    BY <1>7, <2>1
  <2> QED
    BY <1>6, <1>7, <2>1, <2>2 DEF StreamInv, BookmarkAfterInitial
<1>19. LateAfterBookmark'
  <2> SUFFICES ASSUME NEW k \in 1 .. n + 1, Stream'[k] # Bookmark, watchList,
                      Stream'[k][2] > from[Stream'[k][1]]
               PROVE  \E i \in 1 .. k - 1 : Stream'[i] = Bookmark
    BY <1>1, <1>7, <1>13 DEF LateAfterBookmark
  <2>1. CASE k = n + 1
    <3>1. PICK i \in 1 .. n : Stream[i] = Bookmark
      BY <1>2, <1>6 DEF StreamInv, BookmarkMade, InStream
    <3> QED
      BY <1>7, <2>1, <3>1
  <2>2. CASE k \in 1 .. n
    <3>1. PICK i \in 1 .. k - 1 : Stream[i] = Bookmark
      BY <1>6, <1>7, <2>2 DEF StreamInv, LateAfterBookmark
    <3> QED
      BY <1>7, <2>2, <3>1
  <2> QED
    BY <2>1, <2>2
<1>20. BookmarkMade'
  BY <1>1, <1>11, <1>13 DEF StreamInv, BookmarkMade
<1> QED
  BY <1>14, <1>15, <1>16, <1>17, <1>18, <1>19, <1>20 DEF StreamInv

\* Before Watch returns there is no bookmark and no forwarder, and the stream has
\* exactly the listed objects.
LEMMA SetupStream ==
    ASSUME TypeOK, Control, StreamInv, pc = "setup"
    PROVE  /\ \A i \in 1 .. Len(Stream) : Stream[i] # Bookmark
           /\ \A c \in Selected : forward[c] = "off" /\ Sent(c) = from[c]
<1>1. \A i \in 1 .. Len(Stream) : Stream[i] # Bookmark
  BY DEF StreamInv, BookmarkAfterInitial
<1>2. \A c \in Selected : forward[c] = "off"
  BY DEF Control, SetupKept, ForwardersKept
<1>3. \A c \in Selected : Sent(c) = from[c]
  BY <1>2 DEF Sent, Control, PositionsKept
<1> QED
  BY <1>1, <1>2, <1>3

\* A member is listed (Watch, watcher.go).
LEMMA ListMemberStream ==
    ASSUME TypeOK, Control, StreamInv, NEW c \in Selected, ListMember(c)
    PROVE  StreamInv'
<1>1. PICK r \in 0 .. MaxWrites : r = rv[c]
  BY DEF TypeOK
<1>2. /\ pc = "setup" /\ c \in toSetup /\ listed = NoCluster
      /\ from' = [from EXCEPT ![c] = r]
      /\ initial' = IF watchList THEN initial \o Objects(c, r) ELSE initial
      /\ UNCHANGED <<watchList, pc, received, remote, pos, forward>>
  BY <1>1 DEF ListMember, streamVars, threadVars, clientVars
<1>3. from[c] = 0 /\ remote[c] = "none" /\ r \in Nat
  BY <1>2, NoClusterAssumption, MaxWritesAssumption DEF Control, SetupKept
<1>4. /\ \A i \in 1 .. Len(Stream) : Stream[i] # Bookmark
      /\ \A d \in Selected : forward[d] = "off" /\ Sent(d) = from[d]
  BY <1>2, SetupStream
<1>5. PICK n \in Nat : n = Len(Stream)
  BY StreamType
<1>6. \A i \in 1 .. n :
        /\ Stream[i] \in Event /\ Stream[i] # Bookmark
        /\ Stream[i][1] \in Selected /\ Stream[i][2] \in 1 .. MaxWrites
        /\ Start(Stream[i][1]) < Stream[i][2] /\ Stream[i][2] <= from[Stream[i][1]]
  BY <1>4, <1>5, StreamType, EventType DEF StreamInv, Within
<1>7. \A i \in 1 .. n : Stream[i][1] # c
  BY <1>3, <1>6, MaxWritesAssumption
<1>8. /\ \A d \in Selected : d # c =>
           from'[d] = from[d] /\ Start(d)' = Start(d) /\ Sent(d)' = Sent(d)
      /\ from'[c] = r /\ Sent(c)' = r /\ Start(c)' = IF watchList THEN 0 ELSE r
  BY <1>2, <1>3 DEF TypeOK, Start, Sent
<1>9. PICK k \in Nat :
        /\ k = IF watchList THEN r ELSE 0
        /\ Len(Stream)' = n + k
        /\ \A i \in 1 .. n : Stream'[i] = Stream[i]
        /\ \A j \in 1 .. k : Stream'[n + j] = <<c, j>>
  <2>1. CASE watchList
    <3>1. /\ Objects(c, r) \in Seq(Event) /\ Len(Objects(c, r)) = r
          /\ \A j \in 1 .. r : Objects(c, r)[j] = <<c, j>>
      BY <1>1, ObjectsType
    <3>2. Stream' = Stream \o Objects(c, r)
      BY <1>2, <2>1, <3>1, InitialExtendsStream
    <3>3. /\ Len(Stream') = n + r
          /\ \A i \in 1 .. n + r : Stream'[i] =
               IF i <= n THEN Stream[i] ELSE Objects(c, r)[i - n]
      BY <1>5, <3>1, <3>2, StreamType, ConcatProperties
    <3>4. \A i \in 1 .. n : Stream'[i] = Stream[i]
      BY <1>3, <3>3
    <3>5. ASSUME NEW j \in 1 .. r PROVE Stream'[n + j] = <<c, j>>
      <4>1. n + j \in 1 .. n + r /\ ~(n + j <= n) /\ (n + j) - n = j
        BY <1>3
      <4> QED
        BY <3>1, <3>3, <4>1
    <3> QED
      BY <1>3, <2>1, <3>3, <3>4, <3>5
  <2>2. CASE ~watchList
    <3>1. Stream' = Stream
      BY <1>2, <2>2 DEF Stream
    <3> QED
      BY <1>5, <2>2, <3>1
  <2> QED
    BY <2>1, <2>2
<1>10. \A j \in 1 .. k :
         /\ watchList /\ <<c, j>> # Bookmark /\ j <= r /\ j \in Nat
         /\ <<c, j>>[1] = c /\ <<c, j>>[2] = j
  BY <1>1, <1>3, <1>9, EventType, MaxWritesAssumption
<1>11. ASSUME NEW i \in 1 .. Len(Stream)'
       PROVE  \/ i \in 1 .. n /\ Stream'[i] = Stream[i]
              \/ \E j \in 1 .. k : i = n + j /\ Stream'[i] = <<c, j>>
  <2>1. CASE i <= n
    BY <1>9, <2>1
  <2>2. CASE i > n
    <3>1. i - n \in 1 .. k /\ i = n + (i - n)
      BY <1>9, <2>2
    <3> QED
      BY <1>9, <3>1
  <2> QED
    BY <1>9, <2>1, <2>2
<1>12. (\A x : InStream(x) => InStream(x)') /\ \A j \in 1 .. k : InStream(<<c, j>>)'
  <2>1. ASSUME NEW j \in 1 .. k PROVE InStream(<<c, j>>)'
    <3>1. n + j \in 1 .. Len(Stream)'
      BY <1>9
    <3> QED
      BY <1>9, <3>1 DEF InStream
  <2>2. ASSUME NEW x, InStream(x) PROVE InStream(x)'
    <3>1. PICK i \in 1 .. n : Stream[i] = x
      BY <1>5, <2>2 DEF InStream
    <3>2. i \in 1 .. Len(Stream)' /\ Stream'[i] = x
      BY <1>9, <3>1
    <3> QED
      BY <3>2 DEF InStream
  <2> QED
    BY <2>1, <2>2
<1>13. Bookmark' = Bookmark
  BY DEF Bookmark
<1>14. Within'
  <2> SUFFICES ASSUME NEW i \in 1 .. Len(Stream)', Stream'[i] # Bookmark
               PROVE  /\ Start(Stream[i][1])' < Stream'[i][2]
                      /\ Stream'[i][2] <= Sent(Stream[i][1])'
    BY <1>13 DEF Within
  <2>1. CASE i \in 1 .. n /\ Stream'[i] = Stream[i]
    <3>1. PICK d \in Selected, m \in Int : d = Stream[i][1] /\ m = Stream[i][2]
      BY <1>6, <2>1
    <3>2. Start(d) < m /\ m <= Sent(d) /\ d # c /\ d = Stream'[i][1] /\ m = Stream'[i][2]
      BY <1>4, <1>6, <1>7, <2>1, <3>1
    <3>3. Start(d)' < m /\ m <= Sent(d)'
      BY <1>8, <3>2
    <3> QED
      BY <3>2, <3>3
  <2>2. ASSUME NEW j \in 1 .. k, i = n + j, Stream'[i] = <<c, j>>
        PROVE  /\ Start(Stream[i][1])' < Stream'[i][2]
               /\ Stream'[i][2] <= Sent(Stream[i][1])'
    <3>1. Stream'[i][1] = c /\ Stream'[i][2] = j
      BY <1>10, <2>2
    <3>2. Start(c)' < j /\ j <= Sent(c)'
      BY <1>8, <1>10
    <3> QED
      BY <3>1, <3>2
  <2> QED
    BY <1>11, <2>1, <2>2
<1>15. Ordered'
  <2> SUFFICES ASSUME NEW i \in 1 .. Len(Stream)', NEW j \in 1 .. Len(Stream)', i < j,
                      Stream'[i] # Bookmark, Stream'[j] # Bookmark,
                      Stream'[i][1] = Stream'[j][1]
               PROVE  Stream'[i][2] < Stream'[j][2]
    BY <1>13 DEF Ordered
  <2>1. CASE j \in 1 .. n /\ Stream'[j] = Stream[j]
    <3>1. i \in 1 .. n /\ Stream'[i] = Stream[i]
      BY <1>9, <2>1
    <3> QED
      BY <1>5, <2>1, <3>1 DEF StreamInv, Ordered
  <2>2. ASSUME NEW m \in 1 .. k, j = n + m, Stream'[j] = <<c, m>>
        PROVE  Stream'[i][2] < Stream'[j][2]
    <3>1. Stream'[j][1] = c /\ Stream'[j][2] = m
      BY <1>10, <2>2
    <3>2. PICK l \in 1 .. k : i = n + l /\ Stream'[i] = <<c, l>>
      BY <1>7, <1>11, <3>1
    <3>3. Stream'[i][2] = l
      BY <1>10, <3>2
    <3> QED
      BY <2>2, <3>1, <3>2, <3>3
  <2> QED
    BY <1>11, <2>1, <2>2
<1>16. Closed'
  <2> SUFFICES ASSUME NEW i \in 1 .. Len(Stream)', Stream'[i] # Bookmark,
                      NEW m \in Start(Stream[i][1])' + 1 .. Stream'[i][2] - 1
               PROVE  InStream(<<Stream[i][1], m>>)'
    BY <1>13 DEF Closed
  <2>1. CASE i \in 1 .. n /\ Stream'[i] = Stream[i]
    <3>1. PICK d \in Selected : d = Stream[i][1] /\ d = Stream'[i][1] /\ d # c
      BY <1>6, <1>7, <2>1
    <3>2. m \in Start(d) + 1 .. Stream[i][2] - 1
      BY <1>8, <2>1, <3>1
    <3>3. InStream(<<d, m>>)
      BY <1>5, <1>6, <2>1, <3>1, <3>2 DEF StreamInv, Closed
    <3> QED
      BY <1>12, <3>1, <3>3
  <2>2. ASSUME NEW j \in 1 .. k, i = n + j, Stream'[i] = <<c, j>>
        PROVE  InStream(<<Stream[i][1], m>>)'
    <3>1. Stream'[i][1] = c /\ Stream'[i][2] = j
      BY <1>10, <2>2
    <3>2. m \in 1 .. k
      BY <1>8, <1>10, <3>1
    <3> QED
      BY <1>12, <3>1, <3>2
  <2> QED
    BY <1>11, <2>1, <2>2
<1>17. Complete'
  <2> SUFFICES ASSUME NEW d \in Selected, NEW m \in Start(d)' + 1 .. Sent(d)'
               PROVE  InStream(<<d, m>>)'
    BY DEF Complete
  <2>1. CASE d = c
    <3>1. m \in 1 .. k
      BY <1>3, <1>8, <1>9, <2>1
    <3> QED
      BY <1>12, <2>1, <3>1
  <2>2. CASE d # c
    BY <1>4, <1>8, <1>12, <2>2 DEF StreamInv, Complete
  <2> QED
    BY <2>1, <2>2
<1>18. \A i \in 1 .. Len(Stream)' : Stream'[i] # Bookmark
  BY <1>6, <1>10, <1>11
<1>19. BookmarkAfterInitial' /\ BookmarkMade'
  BY <1>2, <1>13, <1>18 DEF BookmarkAfterInitial, BookmarkMade
<1>20. LateAfterBookmark'
  <2> SUFFICES ASSUME NEW i \in 1 .. Len(Stream)'
               PROVE  ~(Stream'[i][2] > from'[Stream'[i][1]])
    BY <1>13 DEF LateAfterBookmark
  <2>1. CASE i \in 1 .. n /\ Stream'[i] = Stream[i]
    <3>1. PICK d \in Selected : d = Stream[i][1] /\ d # c
      BY <1>6, <1>7, <2>1
    <3>2. Stream[i][2] \in Int /\ Stream[i][2] <= from[d] /\ from[d] \in Nat
      BY <1>6, <2>1, <3>1, BoundsType
    <3> QED
      BY <1>8, <2>1, <3>1, <3>2
  <2>2. ASSUME NEW j \in 1 .. k, i = n + j, Stream'[i] = <<c, j>>
        PROVE  ~(Stream'[i][2] > from'[Stream'[i][1]])
    <3>1. Stream'[i][1] = c /\ Stream'[i][2] = j
      BY <1>10, <2>2
    <3>2. j \in Nat /\ j <= r /\ from'[c] = r
      BY <1>8, <1>10
    <3> QED
      BY <1>3, <3>1, <3>2
  <2> QED
    BY <1>11, <2>1, <2>2
<1> QED
  BY <1>14, <1>15, <1>16, <1>17, <1>19, <1>20 DEF StreamInv

\* The bookmark is appended to the initial events (Watch, watcher.go).
LEMMA WatchReturnsStream ==
    ASSUME TypeOK, TypeOK', Control, StreamInv, WatchReturns
    PROVE  StreamInv'
<1>1. /\ pc = "setup" /\ toSetup = {} /\ pc' = "returned"
      /\ initial' = IF watchList THEN Append(initial, Bookmark) ELSE initial
      /\ UNCHANGED <<watchList, from, received, remote, pos, forward>>
  BY DEF WatchReturns, streamVars, clientVars
<1>2. \A c \in Selected : Start(c)' = Start(c) /\ Sent(c)' = Sent(c)
  BY <1>1 DEF Start, Sent
<1>3. CASE ~watchList
  <2>1. Stream' = Stream
    BY <1>1, <1>3 DEF Stream
  <2>2. \A c \in Selected : Sent(c) <= Sent(c)'
    BY <1>2, BoundsType
  <2> QED
    BY <1>1, <1>2, <1>3, <2>1, <2>2, QuietStream
<1>4. CASE watchList
  <2>1. PICK n \in Nat : n = Len(Stream)
    BY StreamType
  <2>2. Stream' = Append(Stream, Bookmark)
    <3>1. <<Bookmark>> \in Seq(Event) /\ initial \in Seq(Event) /\ Bookmark \in Event
      BY EventType DEF TypeOK
    <3>2. initial' = initial \o <<Bookmark>>
      BY <1>1, <1>4, <3>1, AppendIsConcat
    <3>3. Stream' = Stream \o <<Bookmark>>
      BY <1>1, <3>1, <3>2, InitialExtendsStream
    <3> QED
      BY <3>1, <3>3, StreamType, AppendIsConcat
  <2>3. /\ Len(Stream)' = n + 1 /\ Stream'[n + 1] = Bookmark
        /\ \A i \in 1 .. n : Stream'[i] = Stream[i]
    BY <2>1, <2>2, StreamType, EventType, AppendProperties
  <2>4. /\ \A i \in 1 .. n : Stream[i] # Bookmark
        /\ \A c \in Selected : forward[c] = "off" /\ Sent(c) = from[c]
    BY <1>1, <2>1, SetupStream
  <2>5. \A i \in 1 .. n :
          /\ Stream[i] \in Selected \X (1 .. MaxWrites) /\ Stream[i][1] \in Selected
          /\ Stream[i][2] <= from[Stream[i][1]]
    BY <2>1, <2>4, StreamType, EventType DEF StreamInv, Within
  <2>6. InStream(Bookmark)' /\ \A x : InStream(x) => InStream(x)'
    BY <2>1, <2>3 DEF InStream
  <2>7. Bookmark' = Bookmark
    BY DEF Bookmark
  <2>8. ASSUME NEW i \in 1 .. Len(Stream)', Stream'[i] # Bookmark
        PROVE  i \in 1 .. n /\ Stream'[i] = Stream[i] /\ Stream[i][1] \in Selected
    BY <2>3, <2>5, <2>8
  <2>9. Within' /\ Ordered'
    <3>1. Within'
      BY <1>2, <2>1, <2>7, <2>8 DEF StreamInv, Within
    <3>2. Ordered'
      BY <2>1, <2>7, <2>8 DEF StreamInv, Ordered
    <3> QED
      BY <3>1, <3>2
  <2>10. Closed' /\ Complete'
    <3>1. Closed'
      BY <1>2, <2>1, <2>6, <2>7, <2>8 DEF StreamInv, Closed
    <3>2. Complete'
      BY <1>1, <1>2, <2>6 DEF StreamInv, Complete
    <3> QED
      BY <3>1, <3>2
  <2>11. {Stream[i] : i \in 1 .. n}
           = {e \in Selected \X (1 .. MaxWrites) : e[2] <= from[e[1]]}
    <3>1. ASSUME NEW e \in Selected \X (1 .. MaxWrites), e[2] <= from[e[1]]
          PROVE  \E i \in 1 .. n : Stream[i] = e
      <4>1. /\ e = <<e[1], e[2]>> /\ e[1] \in Selected
            /\ e[2] \in Start(e[1]) + 1 .. Sent(e[1])
        BY <1>4, <2>4, <3>1, BoundsType, MaxWritesAssumption DEF Start
      <4>2. InStream(<<e[1], e[2]>>)
        BY <2>4, <4>1 DEF StreamInv, Complete
      <4> QED
        BY <2>1, <4>1, <4>2 DEF InStream
    <3> QED
      BY <2>5, <3>1
  <2>12. BookmarkAfterInitial'
    <3> SUFFICES ASSUME NEW k \in 1 .. n + 1, Stream'[k] = Bookmark
                 PROVE  {Stream'[i] : i \in 1 .. k - 1}
                          = {e \in Selected \X (1 .. MaxWrites) : e[2] <= from[e[1]]}
      BY <1>1, <1>4, <2>3, <2>7 DEF BookmarkAfterInitial
    <3>1. k = n + 1
      BY <2>3, <2>4
    <3>2. {Stream'[i] : i \in 1 .. k - 1} = {Stream[i] : i \in 1 .. n}
      BY <2>3, <3>1
    <3> QED
      BY <2>11, <3>2
  <2>13. LateAfterBookmark'
    <3> SUFFICES ASSUME NEW k \in 1 .. Len(Stream)', Stream'[k] # Bookmark
                 PROVE  ~(Stream'[k][2] > from[Stream'[k][1]])
      BY <1>1, <2>7 DEF LateAfterBookmark
    <3>1. k \in 1 .. n /\ Stream'[k] = Stream[k]
      BY <2>8
    <3>2. PICK d \in Selected : d = Stream[k][1]
      BY <2>5, <3>1
    <3>3. Stream[k][2] \in Int /\ Stream[k][2] <= from[d] /\ from[d] \in Nat
      BY <2>5, <3>1, <3>2, BoundsType, MaxWritesAssumption
    <3> QED
      BY <3>1, <3>2, <3>3
  <2>14. BookmarkMade'
    BY <2>6, <2>7 DEF BookmarkMade
  <2> QED
    BY <2>9, <2>10, <2>12, <2>13, <2>14 DEF StreamInv
<1> QED
  BY <1>3, <1>4

\* Every step keeps the stream part of the invariant (watcher.go).
LEMMA StreamStep ==
    ASSUME TypeOK, TypeOK', Control, StreamInv, Next PROVE StreamInv'
<1> USE DEF setupVars, memberVars, streamVars, endVars, threadVars, clientVars
<1>1. ASSUME UNCHANGED <<watchList, pc, from, remote, pos, forward>>, Stream' = Stream
      PROVE  StreamInv'
  <2>1. \A c \in Selected : Sent(c)' = Sent(c) /\ Sent(c) <= Sent(c)'
    BY <1>1, BoundsType DEF Sent
  <2> QED
    BY <1>1, <2>1, QuietStream
<1>2. ASSUME NEW c \in Selected, WatchMember(c) PROVE StreamInv'
  <2>1. /\ pc = "setup" /\ listed = c
        /\ UNCHANGED <<watchList, pc, from, initial, received, forward>>
        /\ remote' = [remote EXCEPT ![c] = "open"] /\ pos' = [pos EXCEPT ![c] = from[c]]
    BY <1>2 DEF WatchMember, StartOfWatch
  <2>2. \A d \in Selected : forward[d] = "off"
    BY <2>1, SetupStream
  <2>3. remote[c] = "none"
    BY <2>1, NoClusterAssumption DEF Control, SetupKept
  <2>4. \A d \in Selected : Sent(d)' = Sent(d) /\ Sent(d) <= Sent(d)'
    <3>1. \A d \in Selected : Sent(d)' = Sent(d)
      BY <2>1, <2>2, <2>3 DEF TypeOK, Sent
    <3> QED
      BY <3>1, BoundsType
  <2>5. Stream' = Stream
    BY <2>1 DEF Stream
  <2> QED
    BY <2>1, <2>4, <2>5, QuietStream
<1>3. ASSUME NEW c \in Selected, SetupFails(c) PROVE StreamInv'
  <2>1. /\ pc = "setup" /\ pc' = "failed" /\ remote' = StopRemotes
        /\ UNCHANGED <<watchList, from, initial, received, forward, pos>>
    BY <1>3 DEF SetupFails
  <2>2. \A d \in Selected : Sent(d)' = Sent(d) /\ Sent(d) <= Sent(d)'
    BY <2>1, BoundsType DEF Sent, StopRemotes
  <2>3. Stream' = Stream
    BY <2>1 DEF Stream
  <2> QED
    BY <2>1, <2>2, <2>3, QuietStream
<1>4. ASSUME NEW c \in Selected, ForwardTake(c) PROVE StreamInv'
  <2>1. /\ forward[c] = "receiving" /\ remote[c] = "open"
        /\ pos' = [pos EXCEPT ![c] = pos[c] + 1]
        /\ forward' = [forward EXCEPT ![c] = "sending"]
        /\ UNCHANGED <<watchList, pc, from, initial, received, remote>>
    BY <1>4 DEF ForwardTake
  <2>2. \A d \in Selected : Sent(d)' = Sent(d)
    <3>1. pos[c] \in Nat
      BY BoundsType
    <3> QED
      BY <2>1, <3>1 DEF TypeOK, Sent
  <2>3. \A d \in Selected : Sent(d) <= Sent(d)'
    BY <2>2, BoundsType
  <2>4. Stream' = Stream
    BY <2>1 DEF Stream
  <2>5. \A d \in Selected : forward'[d] # "exited" => forward[d] # "exited"
    BY <2>1 DEF TypeOK
  <2> QED
    BY <2>1, <2>2, <2>3, <2>4, <2>5, QuietStream
<1>5. ASSUME NEW c \in Selected, ForwardExit(c) PROVE StreamInv'
  <2>1. /\ forward' = [forward EXCEPT ![c] = "exited"]
        /\ UNCHANGED <<watchList, pc, from, initial, received, remote, pos>>
    BY <1>5 DEF ForwardExit
  <2>2. \A d \in Selected :
          /\ Sent(d) <= Sent(d)'
          /\ forward'[d] # "exited" => forward[d] # "exited" /\ Sent(d)' = Sent(d)
    <3>1. \A d \in Selected : from[d] \in Nat /\ pos[d] \in Nat
      BY BoundsType
    <3>2. \A d \in Selected : forward'[d] = IF d = c THEN "exited" ELSE forward[d]
      BY <2>1 DEF TypeOK
    <3> QED
      BY <2>1, <3>1, <3>2 DEF Sent
  <2>3. Stream' = Stream
    BY <2>1 DEF Stream
  <2> QED
    BY <2>1, <2>2, <2>3, QuietStream
<1>6. ASSUME NEW c \in Selected, ForwardSkip(c) \/ Write(c) \/ SendBookmark(c) PROVE StreamInv'
  BY <1>1, <1>6 DEF ForwardSkip, Write, SendBookmark, Stream
<1>7. ASSUME NEW c \in Selected, RemoteEnds(c) PROVE StreamInv'
  <2>1. /\ remote[c] = "open" /\ remote' = [remote EXCEPT ![c] = "ended"]
        /\ UNCHANGED <<watchList, pc, from, initial, received, pos, forward>>
    BY <1>7 DEF RemoteEnds
  <2>2. \A d \in Selected : Sent(d)' = Sent(d)
    BY <2>1 DEF TypeOK, Sent
  <2>3. \A d \in Selected : Sent(d) <= Sent(d)'
    BY <2>2, BoundsType
  <2>4. Stream' = Stream
    BY <2>1 DEF Stream
  <2> QED
    BY <2>1, <2>2, <2>3, <2>4, QuietStream
<1>8. CASE FeederSend
  BY <1>1, <1>8, FeederKeepsStream DEF FeederSend
<1>9. CASE FeederForwards
  <2>1. /\ forward' = [c \in Selected |-> "receiving"] /\ feeder = "sending"
        /\ UNCHANGED <<watchList, pc, from, initial, received, remote, pos>>
    BY <1>9 DEF FeederForwards
  <2>2. \A d \in Selected : forward[d] = "off"
    BY <2>1 DEF Control, ForwardersKept
  <2>3. \A d \in Selected : Sent(d)' = Sent(d)
    BY <2>1, <2>2 DEF Sent
  <2>4. \A d \in Selected : Sent(d) <= Sent(d)'
    BY <2>3, BoundsType
  <2>5. Stream' = Stream
    BY <2>1 DEF Stream
  <2> QED
    BY <2>1, <2>2, <2>3, <2>4, <2>5, QuietStream
<1>10. CASE FeederCancelled \/ FeederJoins \/ CloserWakes \/ CloserCloses
  BY <1>1, <1>10 DEF FeederCancelled, FeederJoins, CloserWakes, CloserCloses, Stream
<1>11. CASE CloserStops
  <2>1. /\ remote' = StopRemotes
        /\ UNCHANGED <<watchList, pc, from, initial, received, forward, pos>>
    BY <1>11 DEF CloserStops
  <2>2. \A d \in Selected : Sent(d)' = Sent(d) /\ Sent(d) <= Sent(d)'
    BY <2>1, BoundsType DEF Sent, StopRemotes
  <2>3. Stream' = Stream
    BY <2>1 DEF Stream
  <2> QED
    BY <2>1, <2>2, <2>3, QuietStream
<1>12. CASE ClientLeaves \/ ClientStalls \/ ServerSwaps
  BY <1>1, <1>12 DEF ClientLeaves, ClientStalls, ServerSwaps, Stream
<1>13. CASE Ended
  BY <1>1, <1>13 DEF Ended, vars, Stream
<1> QED
  BY <1>2, <1>3, <1>4, <1>5, <1>6, <1>7, <1>8, <1>9, <1>10, <1>11, <1>12, <1>13,
    ListMemberStream, WatchReturnsStream, ForwardSendStream
  DEF Next, Forwarder, Feeder, Closer

-----------------------------------------------------------------------------
(* The theorems *)

\* The invariant holds when Watch is called.
LEMMA InitInv == Init => IInv
<1> SUFFICES ASSUME Init PROVE IInv
  OBVIOUS
<1>1. TypeOK
  <2>1. initial \in Seq(Event) /\ received \in Seq(Event)
    BY EmptySeq DEF Init
  <2>2. /\ rv \in [Selected -> 0 .. MaxWrites] /\ from \in [Selected -> 0 .. MaxWrites]
        /\ pos \in [Selected -> 0 .. MaxWrites]
    BY MaxWritesAssumption DEF Init
  <2>3. /\ watchList \in BOOLEAN /\ cancelled \in BOOLEAN /\ done \in BOOLEAN
        /\ reading \in BOOLEAN
    BY DEF Init
  <2>4. /\ remote \in [Selected -> {"none", "open", "ended", "stopped"}]
        /\ forward \in [Selected -> {"off", "receiving", "sending", "exited"}]
    BY DEF Init
  <2> QED
    BY <2>1, <2>2, <2>3, <2>4 DEF Init, TypeOK
<1>2. Control
  BY NoClusterAssumption DEF Init, Control, SetupKept, ForwardersKept, RemotesKept,
    PositionsKept, NoSendAfterClose
<1>3. Len(Stream) = 0
  BY DEF Init, Stream
<1>4. \A c \in Selected : Sent(c) = 0 /\ Start(c) = 0
  BY DEF Init, Sent, Start
<1>5. StreamInv
  BY <1>3, <1>4 DEF Init, StreamInv, Within, Ordered, Closed, Complete, BookmarkAfterInitial,
    LateAfterBookmark, BookmarkMade
<1> QED
  BY <1>1, <1>2, <1>5 DEF IInv

\* IInv is an invariant of the specification.
THEOREM Invariance == Spec => []IInv
<1>1. ASSUME IInv, Next PROVE IInv'
  <2>1. TypeOK'
    BY <1>1, TypeStep DEF IInv, Control
  <2> QED
    BY <1>1, <2>1, ControlStep, StreamStep DEF IInv
<1>2. ASSUME IInv, UNCHANGED vars PROVE IInv'
  <2>1. TypeOK'
    BY <1>2 DEF IInv, TypeOK, vars
  <2>2. Control'
    BY <1>2 DEF IInv, vars, Control, SetupKept, ForwardersKept, RemotesKept, PositionsKept,
      NoSendAfterClose
  <2>3. Stream' = Stream /\ \A c \in Selected : Sent(c)' = Sent(c) /\ Sent(c) <= Sent(c)'
    BY <1>2, BoundsType DEF IInv, vars, Stream, Sent
  <2>4. StreamInv'
    BY <1>2, <2>1, <2>3, QuietStream DEF IInv, vars
  <2> QED
    BY <2>1, <2>2, <2>4 DEF IInv
<1> QED
  BY <1>1, <1>2, InitInv, PTL DEF Spec

\* The locals and goroutines of Storage.Watch keep their types: in particular no
\* bookmark of a member reaches the client (watcher.go).
THEOREM TypeCorrect == Spec => []TypeOK
<1>1. IInv => TypeOK
  BY DEF IInv
<1> QED
  BY <1>1, Invariance, PTL

\* No goroutine sends on the closed result channel (fanIn and closer, watcher.go).
THEOREM NoSendAfter == Spec => []NoSendAfterClose
<1>1. IInv => NoSendAfterClose
  BY DEF IInv, Control
<1> QED
  BY <1>1, Invariance, PTL

\* A Watch that has failed or ended has stopped every remote watch (watcher.go).
THEOREM NoneLeft == Spec => []NoRemoteLeft
<1>1. IInv => NoRemoteLeft
  BY DEF IInv, Control, RemotesKept, NoRemoteLeft
<1> QED
  BY <1>1, Invariance, PTL

\* What the client receives of a cluster has no gap, no repetition and no reordering,
\* from the initial events through the moment between List and Watch to the remote
\* watch (Watch, fanIn and forward, watcher.go).
THEOREM GapFree == Spec => []NoGap
<1>1. ASSUME IInv PROVE NoGap
  <2> SUFFICES ASSUME NEW k \in 1 .. Len(received), received[k] # Bookmark
               PROVE  LET c == received[k][1]
                          n == received[k][2]
                          start == IF watchList THEN 0 ELSE from[c]
                      IN  /\ n > start
                          /\ \A m \in start + 1 .. n - 1 : ReceivedBefore(k, <<c, m>>)
                          /\ \A m \in n .. MaxWrites : ~ReceivedBefore(k, <<c, m>>)
    BY DEF NoGap
  <2>1. /\ TypeOK /\ StreamInv /\ Len(received) \in Nat /\ Len(Stream) \in Nat
        /\ \A i \in 1 .. Len(received) : i \in 1 .. Len(Stream) /\ Stream[i] = received[i]
        /\ \A i \in 1 .. Len(Stream) : Stream[i] \in Event
    BY <1>1, StreamType DEF IInv, TypeOK
  <2>2. PICK c \in Selected, n \in 1 .. MaxWrites :
          c = Stream[k][1] /\ n = Stream[k][2] /\ Stream[k] = received[k] /\ k \in 1 .. Len(Stream)
    BY <2>1, EventType
  <2>3. Start(c) < n /\ Start(c) = IF watchList THEN 0 ELSE from[c]
    BY <2>1, <2>2 DEF StreamInv, Within, Start
  <2>4. Start(c) \in Int
    BY <2>1, BoundsType
  <2>5. ASSUME NEW m \in Start(c) + 1 .. n - 1
        PROVE  ReceivedBefore(k, <<c, m>>)
    <3>1. PICK i \in 1 .. Len(Stream) : Stream[i] = <<c, m>>
      BY <2>1, <2>2 DEF StreamInv, Closed, InStream
    <3>2. m \in 1 .. MaxWrites
      <4>1. Start(c) >= 0
        BY <2>1, BoundsType DEF Start
      <4> QED
        BY <2>4, <4>1, MaxWritesAssumption
    <3>3. Stream[i] # Bookmark /\ Stream[i][1] = c /\ Stream[i][2] = m
      BY <3>1, <3>2, EventType
    <3>4. ~(k < i)
      BY <2>1, <2>2, <3>2, <3>3, MaxWritesAssumption DEF StreamInv, Ordered
    <3>5. k # i
      BY <2>2, <3>2, <3>3
    <3>6. i \in 1 .. k - 1
      BY <2>1, <2>2, <3>4, <3>5
    <3> QED
      BY <2>1, <3>1, <3>6 DEF ReceivedBefore
  <2>6. ASSUME NEW m \in n .. MaxWrites, ReceivedBefore(k, <<c, m>>)
        PROVE  FALSE
    <3>1. PICK i \in 1 .. k - 1 : received[i] = <<c, m>>
      BY <2>6 DEF ReceivedBefore
    <3>2. i \in 1 .. Len(received) /\ i < k
      BY <2>1
    <3>3. m \in 1 .. MaxWrites
      BY <2>2, MaxWritesAssumption
    <3>4. i \in 1 .. Len(Stream) /\ Stream[i] = <<c, m>>
      BY <2>1, <3>1, <3>2
    <3>5. Stream[i] # Bookmark /\ Stream[i][1] = c /\ Stream[i][2] = m
      BY <3>3, <3>4, EventType
    <3>6. m < n
      BY <2>1, <2>2, <3>2, <3>4, <3>5 DEF StreamInv, Ordered
    <3> QED
      BY <3>3, <3>6, MaxWritesAssumption
  <2> QED
    BY <2>2, <2>3, <2>5, <2>6
<1> QED
  BY <1>1, Invariance, PTL

\* With watch-list the client gets one bookmark, after all objects that were listed in
\* all clusters and before every later event; without, it gets none (Watch and fanIn,
\* watcher.go).
THEOREM BookmarkSeparation == Spec => []BookmarkSeparates
<1>1. ASSUME IInv PROVE BookmarkSeparates
  <2>1. /\ TypeOK /\ StreamInv /\ Len(received) \in Nat /\ Len(Stream) \in Nat
        /\ \A i \in 1 .. Len(received) : i \in 1 .. Len(Stream) /\ Stream[i] = received[i]
        /\ \A i \in 1 .. Len(Stream) : Stream[i] \in Event
    BY <1>1, StreamType DEF IInv, TypeOK
  <2> SUFFICES ASSUME NEW k \in 1 .. Len(received)
               PROVE  /\ received[k] = Bookmark =>
                           /\ watchList
                           /\ {received[i] : i \in 1 .. k - 1}
                                = {e \in Selected \X (1 .. MaxWrites) : e[2] <= from[e[1]]}
                      /\ received[k] # Bookmark =>
                           /\ received[k][2] # 0
                           /\ watchList /\ received[k][2] > from[received[k][1]] =>
                                ReceivedBefore(k, Bookmark)
    BY DEF BookmarkSeparates
  <2>2. \A i \in 1 .. k - 1 : received[i] = Stream[i]
    BY <2>1
  <2>3. {received[i] : i \in 1 .. k - 1} = {Stream[i] : i \in 1 .. k - 1}
    BY <2>2
  <2>4. ASSUME received[k] = Bookmark
        PROVE  /\ watchList
               /\ {received[i] : i \in 1 .. k - 1}
                    = {e \in Selected \X (1 .. MaxWrites) : e[2] <= from[e[1]]}
    BY <2>1, <2>3, <2>4 DEF StreamInv, BookmarkAfterInitial
  <2>5. ASSUME received[k] # Bookmark
        PROVE  /\ received[k][2] # 0
               /\ watchList /\ received[k][2] > from[received[k][1]] =>
                    ReceivedBefore(k, Bookmark)
    <3>1. received[k][2] # 0
      BY <2>1, <2>5, EventType, MaxWritesAssumption
    <3>2. ASSUME watchList, received[k][2] > from[received[k][1]]
          PROVE  ReceivedBefore(k, Bookmark)
      BY <2>1, <2>2, <2>5, <3>2 DEF StreamInv, LateAfterBookmark, ReceivedBefore
    <3> QED
      BY <3>1, <3>2
  <2> QED
    BY <2>4, <2>5
<1> QED
  BY <1>1, Invariance, PTL
=============================================================================
