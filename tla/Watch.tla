-------------------------------- MODULE Watch --------------------------------
(***************************************************************************)
(* One call of Storage.Watch in pkg/apiserver/storage/watcher.go: it opens *)
(* a watch on every selected member cluster and merges their events into   *)
(* one unbuffered channel.                                                 *)
(*                                                                         *)
(* Besides the request's own goroutine, which sets the watches up, there   *)
(* are the feeder (the goroutine of fanIn), one forwarder per cluster, the *)
(* closer, and the client at the other end of the channel.  A select with  *)
(* several ready cases is a choice between actions.                        *)
(*                                                                         *)
(* A member's history, from the moment the client of this watch listed it, *)
(* is a sequence of writes; its n-th write is the event <<c, n>>, and n is *)
(* the member's resourceVersion after it.  A write adds an object, so a    *)
(* list at resourceVersion n has the objects 1 .. n.                       *)
(***************************************************************************)
EXTENDS Integers, Sequences, FiniteSets

CONSTANTS
    Selected,   \* clusters that match the cluster part of the label selector
    NoCluster,  \* no cluster is between its List and its Watch
    MaxWrites   \* bound on the writes to one member

ASSUME MaxWritesAssumption == MaxWrites \in Nat
ASSUME NoClusterAssumption == NoCluster \notin Selected

VARIABLES
    watchList,  \* the client asked for initial events and a bookmark
    rv,         \* the resourceVersion of each member
    pc,         \* Watch: "setup", "failed" or "returned"
    toSetup,    \* Watch: selected clusters the loop has not finished
    listed,     \* Watch: the cluster whose List has been answered
    from,       \* the resourceVersion listed per cluster
    initial,    \* initialEvents not yet sent
    remote,     \* the remote watch of each cluster
    marked,     \* the clusters whose remote watch holds a bookmark
    pos,        \* the last event taken from each remote watch
    cancelled,  \* watchCtx is done
    done,       \* opts.Done is closed
    feeder,     \* the goroutine of fanIn
    forward,    \* the goroutine of each cluster
    closer,     \* the goroutine that closes the result channel
    reading,    \* the client receives from the result channel
    received    \* what it has received

vars == <<watchList, rv, pc, toSetup, listed, from, initial, remote, marked,
          pos, cancelled, done, feeder, forward, closer, reading, received>>

setupVars == <<watchList, pc, toSetup, listed, from>>
memberVars == <<rv, marked>>
streamVars == <<remote, pos>>
endVars == <<cancelled, done>>
threadVars == <<feeder, forward, closer>>
clientVars == <<reading, received>>

\* The bookmark that ends the initial events.
Bookmark == <<NoCluster, 0>>

\* A bookmark that a member sent.
RemoteBookmark(c) == <<c, 0>>

Event == (Selected \X (1 .. MaxWrites)) \union {Bookmark}

\* The locals and goroutines of Storage.Watch keep their types; in particular what
\* the client receives are events of the members and the one bookmark that Watch
\* makes itself, never a bookmark of a member (forward skips those).
TypeOK ==
    /\ watchList \in BOOLEAN
    /\ rv \in [Selected -> 0 .. MaxWrites]
    /\ pc \in {"setup", "failed", "returned"}
    /\ toSetup \subseteq Selected
    /\ listed \in Selected \union {NoCluster}
    /\ from \in [Selected -> 0 .. MaxWrites]
    /\ initial \in Seq(Event)
    /\ remote \in [Selected -> {"none", "open", "ended", "stopped"}]
    /\ marked \subseteq Selected
    /\ pos \in [Selected -> 0 .. MaxWrites]
    /\ cancelled \in BOOLEAN
    /\ done \in BOOLEAN
    /\ feeder \in {"off", "sending", "forwarding", "exited"}
    /\ forward \in [Selected -> {"off", "receiving", "sending", "exited"}]
    /\ closer \in {"off", "waiting", "stopping", "joining", "closed"}
    /\ reading \in BOOLEAN
    /\ received \in Seq(Event)

\* The client has listed, and now it watches; nothing is set up.
Init ==
    /\ watchList \in BOOLEAN
    /\ rv = [c \in Selected |-> 0]
    /\ pc = "setup"
    /\ toSetup = Selected
    /\ listed = NoCluster
    /\ from = [c \in Selected |-> 0]
    /\ initial = << >>
    /\ remote = [c \in Selected |-> "none"]
    /\ marked = {}
    /\ pos = [c \in Selected |-> 0]
    /\ cancelled = FALSE
    /\ done = FALSE
    /\ feeder = "off"
    /\ forward = [c \in Selected |-> "off"]
    /\ closer = "off"
    /\ reading = TRUE
    /\ received = << >>

-----------------------------------------------------------------------------
(* Watch: for every selected cluster a List, then a Watch from its           *)
(* resourceVersion.  The resourceVersion the client sent is not read.        *)

Objects(c, n) == [i \in 1 .. n |-> <<c, i>>]

\* Without watch-list the List has Limit 1 and only its resourceVersion is used.
ListMember(c) ==
    /\ pc = "setup" /\ listed = NoCluster /\ c \in toSetup
    /\ listed' = c
    /\ from' = [from EXCEPT ![c] = rv[c]]
    /\ initial' = IF watchList THEN initial \o Objects(c, rv[c]) ELSE initial
    /\ UNCHANGED <<watchList, pc, toSetup, memberVars, streamVars, endVars, threadVars,
                   clientVars>>

\* Mutant: the watch starts at the member's present instead of at the list.
StartOfWatchNow(c) == rv[c]

StartOfWatch(c) == from[c]

WatchMember(c) ==
    /\ pc = "setup" /\ listed = c
    /\ remote' = [remote EXCEPT ![c] = "open"]
    /\ pos' = [pos EXCEPT ![c] = StartOfWatch(c)]
    /\ toSetup' = toSetup \ {c}
    /\ listed' = NoCluster
    /\ UNCHANGED <<watchList, pc, from, memberVars, initial, endVars, threadVars, clientVars>>

\* Mutant: the remote watches opened so far stay open.
StopRemotesNot == remote

\* Stop on every remote watch.
StopRemotes == [c \in Selected |-> IF remote[c] = "none" THEN "none" ELSE "stopped"]

\* List or Watch of a member fails, also because the request is cancelled: the
\* watches opened so far are stopped and Watch returns an error.
SetupFails(c) ==
    /\ pc = "setup" /\ (listed = c \/ (listed = NoCluster /\ c \in toSetup))
    /\ remote' = StopRemotes
    /\ cancelled' = TRUE
    /\ pc' = "failed"
    /\ UNCHANGED <<watchList, toSetup, listed, from, memberVars, initial, pos, done,
                   threadVars, clientVars>>

\* The goroutines are started and Watch returns.
WatchReturns ==
    /\ pc = "setup" /\ listed = NoCluster /\ toSetup = {}
    /\ initial' = IF watchList THEN Append(initial, Bookmark) ELSE initial
    /\ feeder' = "sending"
    /\ closer' = "waiting"
    /\ pc' = "returned"
    /\ UNCHANGED <<watchList, toSetup, listed, from, memberVars, streamVars, endVars,
                   forward, clientVars>>

-----------------------------------------------------------------------------
(* The feeder *)

FeederSend ==
    /\ feeder = "sending" /\ initial # << >>
    /\ reading
    /\ received' = Append(received, Head(initial))
    /\ initial' = Tail(initial)
    /\ UNCHANGED <<setupVars, memberVars, streamVars, endVars, threadVars, reading>>

FeederCancelled ==
    /\ feeder = "sending" /\ initial # << >>
    /\ cancelled
    /\ feeder' = "exited"
    /\ UNCHANGED <<setupVars, memberVars, initial, streamVars, endVars, forward, closer,
                   clientVars>>

\* Mutant: the forwarders start beside the initial events.
FeederForwardsEarly ==
    /\ feeder = "sending"
    /\ forward' = [c \in Selected |-> "receiving"]
    /\ UNCHANGED <<setupVars, memberVars, initial, streamVars, endVars, feeder, closer,
                   clientVars>>

FeederForwards ==
    /\ feeder = "sending" /\ initial = << >>
    /\ forward' = [c \in Selected |-> "receiving"]
    /\ feeder' = "forwarding"
    /\ UNCHANGED <<setupVars, memberVars, initial, streamVars, endVars, closer, clientVars>>

\* remoteFanIn.Wait
FeederJoins ==
    /\ feeder = "forwarding"
    /\ \A c \in Selected : forward[c] = "exited"
    /\ feeder' = "exited"
    /\ UNCHANGED <<setupVars, memberVars, initial, streamVars, endVars, forward, closer,
                   clientVars>>

-----------------------------------------------------------------------------
(* The forwarder of a cluster *)

ForwardTake(c) ==
    /\ forward[c] = "receiving" /\ remote[c] = "open" /\ pos[c] < rv[c]
    /\ pos' = [pos EXCEPT ![c] = @ + 1]
    /\ forward' = [forward EXCEPT ![c] = "sending"]
    /\ UNCHANGED <<setupVars, memberVars, initial, remote, endVars, feeder, closer, clientVars>>

\* Mutant: a member's bookmark is relayed.
ForwardBookmark(c) ==
    /\ forward[c] = "receiving" /\ remote[c] = "open" /\ c \in marked
    /\ reading
    /\ marked' = marked \ {c}
    /\ received' = Append(received, RemoteBookmark(c))
    /\ UNCHANGED <<setupVars, rv, initial, streamVars, endVars, threadVars, reading>>

ForwardSkip(c) ==
    /\ forward[c] = "receiving" /\ remote[c] = "open" /\ c \in marked
    /\ marked' = marked \ {c}
    /\ UNCHANGED <<setupVars, rv, initial, streamVars, endVars, threadVars, clientVars>>

ForwardSend(c) ==
    /\ forward[c] = "sending"
    /\ reading
    /\ received' = Append(received, <<c, pos[c]>>)
    /\ forward' = [forward EXCEPT ![c] = "receiving"]
    /\ UNCHANGED <<setupVars, memberVars, initial, streamVars, endVars, feeder, closer, reading>>

\* Mutant: the forwarder returns without cancelling the other watches.
ForwardExitAlone(c) ==
    /\ \/ forward[c] \in {"receiving", "sending"} /\ cancelled
       \/ forward[c] = "receiving" /\ remote[c] \in {"ended", "stopped"}
    /\ forward' = [forward EXCEPT ![c] = "exited"]
    /\ UNCHANGED <<setupVars, memberVars, initial, streamVars, endVars, feeder, closer,
                   clientVars>>

\* The context is done, or the remote watch has ended; the deferred cancel takes
\* the other clusters' watches along.
ForwardExit(c) ==
    /\ \/ forward[c] \in {"receiving", "sending"} /\ cancelled
       \/ forward[c] = "receiving" /\ remote[c] \in {"ended", "stopped"}
    /\ forward' = [forward EXCEPT ![c] = "exited"]
    /\ cancelled' = TRUE
    /\ UNCHANGED <<setupVars, memberVars, initial, streamVars, done, feeder, closer, clientVars>>

-----------------------------------------------------------------------------
(* The closer *)

\* Mutant: opts.Done is not watched.
CloserIgnoresDone ==
    /\ closer = "waiting"
    /\ cancelled
    /\ closer' = "stopping"
    /\ UNCHANGED <<setupVars, memberVars, initial, streamVars, endVars, feeder, forward,
                   clientVars>>

CloserWakes ==
    /\ closer = "waiting"
    /\ cancelled \/ done
    /\ cancelled' = TRUE
    /\ closer' = "stopping"
    /\ UNCHANGED <<setupVars, memberVars, initial, streamVars, done, feeder, forward, clientVars>>

CloserStops ==
    /\ closer = "stopping"
    /\ remote' = StopRemotes
    /\ closer' = "joining"
    /\ UNCHANGED <<setupVars, memberVars, initial, pos, endVars, feeder, forward, clientVars>>

\* Mutant: the result channel is closed without fanIn.Wait.
CloserClosesEarly ==
    /\ closer = "joining"
    /\ closer' = "closed"
    /\ UNCHANGED <<setupVars, memberVars, initial, streamVars, endVars, feeder, forward,
                   clientVars>>

CloserCloses ==
    /\ closer = "joining" /\ feeder = "exited"
    /\ closer' = "closed"
    /\ UNCHANGED <<setupVars, memberVars, initial, streamVars, endVars, feeder, forward,
                   clientVars>>

-----------------------------------------------------------------------------
(* The client, the server and the members *)

\* The client stops the watch, or its request ends: the context is done.
ClientLeaves ==
    /\ ~cancelled
    /\ reading' = FALSE
    /\ cancelled' = TRUE
    /\ UNCHANGED <<setupVars, memberVars, initial, streamVars, done, threadVars, received>>

\* The client keeps the request open and stops receiving.
ClientStalls ==
    /\ reading
    /\ reading' = FALSE
    /\ UNCHANGED <<setupVars, memberVars, initial, streamVars, endVars, threadVars, received>>

\* Server!FinishSwap on the inner server of this storage.
ServerSwaps ==
    /\ ~done
    /\ done' = TRUE
    /\ UNCHANGED <<setupVars, memberVars, initial, streamVars, cancelled, threadVars, clientVars>>

Write(c) ==
    /\ rv[c] < MaxWrites
    /\ rv' = [rv EXCEPT ![c] = @ + 1]
    /\ UNCHANGED <<setupVars, marked, initial, streamVars, endVars, threadVars, clientVars>>

SendBookmark(c) ==
    /\ remote[c] = "open" /\ c \notin marked
    /\ marked' = marked \union {c}
    /\ UNCHANGED <<setupVars, rv, initial, streamVars, endVars, threadVars, clientVars>>

\* The member, or the connection to it, ends the remote watch.
RemoteEnds(c) ==
    /\ remote[c] = "open"
    /\ remote' = [remote EXCEPT ![c] = "ended"]
    /\ UNCHANGED <<setupVars, memberVars, initial, pos, endVars, threadVars, clientVars>>

-----------------------------------------------------------------------------
Feeder == FeederSend \/ FeederCancelled \/ FeederForwards \/ FeederJoins

Forwarder(c) == ForwardTake(c) \/ ForwardSkip(c) \/ ForwardSend(c) \/ ForwardExit(c)

Closer == CloserWakes \/ CloserStops \/ CloserCloses

\* The request is over.
Ended ==
    /\ pc = "failed" \/ closer = "closed"
    /\ UNCHANGED vars

Next ==
    \/ \E c \in Selected :
        \/ ListMember(c) \/ WatchMember(c) \/ SetupFails(c)
        \/ Forwarder(c)
        \/ Write(c) \/ SendBookmark(c) \/ RemoteEnds(c)
    \/ WatchReturns
    \/ Feeder
    \/ Closer
    \/ ClientLeaves \/ ClientStalls \/ ServerSwaps
    \/ Ended

\* Every goroutine that can proceed does; a client that is reading receives what
\* is sent.  Nothing obliges a client to read, or a member to answer or to end.
Fairness ==
    /\ WF_vars(Feeder)
    /\ \A c \in Selected : WF_vars(Forwarder(c))
    /\ WF_vars(Closer)

Spec == Init /\ [][Next]_vars /\ Fairness

-----------------------------------------------------------------------------
(* Properties *)

\* No goroutine can still send when the result channel is closed, which would
\* panic: fanIn.Wait covers the feeder and every forwarder.
NoSendAfterClose ==
    closer = "closed" =>
        /\ feeder = "exited"
        /\ \A c \in Selected : forward[c] \in {"off", "exited"}

\* A Watch that fails half way or has ended leaves no remote watch open, in
\* whatever order clusters were set up and whichever of them failed.
NoRemoteLeft ==
    pc = "failed" \/ closer = "closed" => \A c \in Selected : remote[c] # "open"

\* event was received before the k-th.
ReceivedBefore(k, event) == \E i \in 1 .. k - 1 : received[i] = event

\* The client gets every event of a cluster once, in order and without a gap,
\* across the initial events, the moment between List and Watch, and the remote
\* watch: from the first object with watch-list, from the List on without.
NoGap ==
    \A k \in 1 .. Len(received) : received[k] # Bookmark =>
        LET c == received[k][1]
            n == received[k][2]
            start == IF watchList THEN 0 ELSE from[c]
        IN  /\ n > start
            /\ \A m \in start + 1 .. n - 1 : ReceivedBefore(k, <<c, m>>)
            /\ \A m \in n .. MaxWrites : ~ReceivedBefore(k, <<c, m>>)

\* With watch-list, the bookmark comes once, after all initial events of all
\* clusters and before every later event; without, there is none.
BookmarkSeparates ==
    \A k \in 1 .. Len(received) :
        /\ received[k] = Bookmark =>
             /\ watchList
             /\ {received[i] : i \in 1 .. k - 1}
                  = {e \in Selected \X (1 .. MaxWrites) : e[2] <= from[e[1]]}
        /\ received[k] # Bookmark =>
             /\ received[k][2] # 0
             /\ watchList /\ received[k][2] > from[received[k][1]] =>
                  ReceivedBefore(k, Bookmark)

\* A cancelled request, a stopped watch or a swapped inner server ends the
\* watch, also when the client reads no more.
StopEndsWatch ==
    (cancelled \/ done) /\ pc = "returned" ~> closer = "closed"

\* When one remote watch ends, the whole aggregate ends, provided that the
\* client reads: no client keeps a stream that is silent about one cluster.
RemoteEndEndsWatch ==
    \A c \in Selected :
        remote[c] = "ended" /\ pc = "returned" ~> closer = "closed" \/ ~reading

\* A client that re-establishes its watch has "a consistent stream/state across
\* all clusters": what it receives of a cluster continues what it had listed.
ResumesFromKnown ==
    \A k \in 1 .. Len(received) : received[k] # Bookmark =>
        ReceivedBefore(k + 1, <<received[k][1], 1>>)
=============================================================================
