------------------------- MODULE ProxyChannelProofs -------------------------
(***************************************************************************)
(* The safety properties of one channel through the gateway, for any set   *)
(* of channel types and any amount of data.                                *)
(***************************************************************************)
EXTENDS ProxyChannel, TLAPS

\* Before the goroutines start nothing was sent, except the close of the
\* backend's channel when Accept failed.
NotYet ==
    phase # "run" =>
        /\ produced = [t \in Streams |-> 0] /\ copied = [t \in Streams |-> 0]
        /\ sent["l"] = {} /\ (phase # "gone" => sent["r"] = {})
        /\ reqs = [s \in Sides |-> {}] /\ fwd = [s \in Sides |-> "loop"]
        /\ \A s \in Sides : ~closed[s]

\* A forwarder leaves its loop when its peer has closed and all requests of
\* that peer were taken; it ends after the pump of the same direction.
ForwarderLast ==
    \A s \in Sides :
        /\ fwd[s] \in {"drained", "done"} => closed[s] /\ reqs[s] = {}
        /\ fwd[s] = "done" => pump[s] = "done"

\* Only the forwarder of the opposite side closes a channel.
OneCloser ==
    \A s \in Sides : "close" \in sent[Other(s)] => fwd[s] = "done" \/ phase = "gone"

\* No chunk is skipped; a pump that ended early met a closed channel.
NoneSkipped ==
    \A s \in Sides : /\ pump[s] = "copy" => copied[s] + data[s] = produced[s]
                     /\ pump[s] # "copy" => (eof[s] /\ copied[s] = produced[s]) \/ closed[Other(s)]

\* The gate opens when the backend has answered the start of the program, or
\* when nothing can reach the backend any more, or the client has closed.
Gate ==
    /\ "start" \in reqs["l"] => "start" \notin sent["r"]
    /\ fwd["l"] = "wait" => "start" \in sent["r"] \/ Shut("r")
    /\ started /\ kind = "session" /\ ~closed["l"] =>
           ("start" \in sent["r"] /\ fwd["l"] # "wait") \/ Shut("r")

IInv == /\ TypeOK /\ NotYet /\ ForwarderLast /\ OneCloser /\ NoneSkipped /\ Gate
        /\ DataFirst /\ NoEarlyEOF

\* The sets and small helpers are expanded throughout.
USE ProxyConstants DEF Sides, Streams, Requests, Messages, Other, Side, Target, Shut, Write, peers

\* OpenChannel: opening the backend's channel, or giving up, sends nothing.
LEMMA OpenChannelKeeps == ASSUME IInv, NEW ok \in BOOLEAN, OpenChannel(ok) PROVE IInv'
<1>1. TypeOK'
  BY DEF OpenChannel, IInv, TypeOK
<1>2. NotYet' /\ ForwarderLast' /\ OneCloser' /\ NoneSkipped' /\ Gate' /\ DataFirst' /\ NoEarlyEOF'
  BY DEF OpenChannel, IInv, NotYet, ForwarderLast, OneCloser, NoneSkipped, Gate,
         DataFirst, NoEarlyEOF
<1> QED BY <1>1, <1>2 DEF IInv

\* Accept: a failed Accept closes the backend's channel before any goroutine
\* runs.
LEMMA AcceptKeeps == ASSUME IInv, NEW ok \in BOOLEAN, Accept(ok) PROVE IInv'
<1>1. TypeOK'
  BY DEF Accept, IInv, TypeOK
<1>2. NotYet'
  BY DEF Accept, IInv, TypeOK, NotYet
<1>3. Gate'
  BY DEF Accept, IInv, TypeOK, Gate
<1>4. DataFirst'
  BY DEF Accept, IInv, NotYet, DataFirst
<1>5. NoEarlyEOF'
  BY DEF Accept, IInv, TypeOK, NoEarlyEOF
<1>6. ForwarderLast' /\ OneCloser' /\ NoneSkipped'
  BY DEF Accept, IInv, ForwarderLast, OneCloser, NoneSkipped
<1> QED BY <1>1, <1>2, <1>3, <1>4, <1>5, <1>6 DEF IInv

\* PeerWrites: a peer writes only before its EOF, so never behind a close
\* passed on.
LEMMA PeerWritesKeeps == ASSUME IInv, NEW t \in Streams, PeerWrites(t) PROVE IInv'
<1>1. TypeOK'
  BY DEF PeerWrites, IInv, TypeOK
<1>2. NoneSkipped'
  BY DEF PeerWrites, IInv, TypeOK, NoneSkipped
<1>3. DataFirst'
  BY DEF PeerWrites, IInv, TypeOK, ForwarderLast, OneCloser, DataFirst
<1>4. NotYet' /\ ForwarderLast' /\ OneCloser' /\ Gate' /\ NoEarlyEOF'
  BY DEF PeerWrites, IInv, NotYet, ForwarderLast, OneCloser, Gate, NoEarlyEOF
<1> QED BY <1>1, <1>2, <1>3, <1>4 DEF IInv

\* PeerRequests: a request arrives only before its peer's close, so never
\* behind a drained forwarder.
LEMMA PeerRequestsKeeps == ASSUME IInv, NEW s \in Sides, NEW m \in Requests, PeerRequests(s, m)
      PROVE IInv'
<1>1. TypeOK'
  BY DEF PeerRequests, IInv, TypeOK
<1>2. NotYet' /\ ForwarderLast' /\ OneCloser' /\ NoneSkipped' /\ Gate' /\ DataFirst' /\ NoEarlyEOF'
  BY DEF PeerRequests, IInv, NotYet, ForwarderLast, OneCloser, NoneSkipped, Gate,
         DataFirst, NoEarlyEOF
<1> QED BY <1>1, <1>2 DEF IInv

\* PeerEOF: it ends what a peer writes.
LEMMA PeerEOFKeeps == ASSUME IInv, NEW s \in Sides, PeerEOF(s) PROVE IInv'
<1>1. TypeOK'
  BY DEF PeerEOF, IInv, TypeOK
<1>2. NotYet' /\ ForwarderLast' /\ OneCloser' /\ NoneSkipped' /\ Gate' /\ DataFirst' /\ NoEarlyEOF'
  BY DEF PeerEOF, IInv, NotYet, ForwarderLast, OneCloser, NoneSkipped, Gate,
         DataFirst, NoEarlyEOF
<1> QED BY <1>1, <1>2 DEF IInv

\* PeerCloses: a peer's close takes nothing back; it may open the gate's
\* exception.
LEMMA PeerClosesKeeps == ASSUME IInv, NEW s \in Sides, PeerCloses(s) PROVE IInv'
<1>1. TypeOK'
  BY DEF PeerCloses, IInv, TypeOK
<1>2. NotYet' /\ ForwarderLast' /\ OneCloser' /\ NoneSkipped' /\ Gate' /\ DataFirst' /\ NoEarlyEOF'
  BY DEF PeerCloses, IInv, NotYet, ForwarderLast, OneCloser, NoneSkipped, Gate,
         DataFirst, NoEarlyEOF
<1> QED BY <1>1, <1>2 DEF IInv

\* ConnectionEnds: the end of a connection is a close that no EOF or close
\* message announced.
LEMMA ConnectionEndsKeeps == ASSUME IInv, NEW s \in Sides, ConnectionEnds(s) PROVE IInv'
<1>1. TypeOK'
  BY DEF ConnectionEnds, IInv, TypeOK
<1>2. NotYet' /\ ForwarderLast' /\ OneCloser' /\ NoneSkipped' /\ Gate' /\ DataFirst' /\ NoEarlyEOF'
  BY DEF ConnectionEnds, IInv, NotYet, ForwarderLast, OneCloser, NoneSkipped, Gate,
         DataFirst, NoEarlyEOF
<1> QED BY <1>1, <1>2 DEF IInv

\* ForwardRequest: a request is taken and passed on, or lost to a closed
\* channel.
LEMMA ForwardRequestKeeps == ASSUME IInv, NEW s \in Sides, ForwardRequest(s) PROVE IInv'
<1>1. TypeOK'
  BY DEF ForwardRequest, IInv, TypeOK
<1>2. OneCloser'
  BY DEF ForwardRequest, IInv, TypeOK, OneCloser
<1>3. Gate'
  BY DEF ForwardRequest, IInv, TypeOK, Gate
<1>4. DataFirst'
  BY DEF ForwardRequest, IInv, TypeOK, DataFirst
<1>5. NoEarlyEOF'
  BY DEF ForwardRequest, IInv, TypeOK, Gate, NoEarlyEOF
<1>6. NotYet' /\ ForwarderLast' /\ NoneSkipped'
  BY DEF ForwardRequest, IInv, NotYet, ForwarderLast, NoneSkipped
<1> QED BY <1>1, <1>2, <1>3, <1>4, <1>5, <1>6 DEF IInv

\* StartAnswered: the gate opens after the start was passed on, or lost to a
\* closed channel.
LEMMA StartAnsweredKeeps == ASSUME IInv, StartAnswered PROVE IInv'
<1>1. TypeOK'
  BY DEF StartAnswered, IInv, TypeOK
<1>2. Gate'
  BY DEF StartAnswered, IInv, TypeOK, Gate
<1>3. NotYet' /\ ForwarderLast' /\ OneCloser' /\ NoneSkipped' /\ DataFirst' /\ NoEarlyEOF'
  BY DEF StartAnswered, IInv, NotYet, ForwarderLast, OneCloser, NoneSkipped,
         DataFirst, NoEarlyEOF
<1> QED BY <1>1, <1>2, <1>3 DEF IInv

\* Drained: the client's forwarder opens the gate only after the client has
\* closed.
LEMMA DrainedKeeps == ASSUME IInv, NEW s \in Sides, Drained(s) PROVE IInv'
<1>1. TypeOK'
  BY DEF Drained, IInv, TypeOK
<1>2. NotYet' /\ ForwarderLast' /\ OneCloser' /\ NoneSkipped' /\ Gate' /\ DataFirst' /\ NoEarlyEOF'
  BY DEF Drained, IInv, NotYet, ForwarderLast, OneCloser, NoneSkipped, Gate,
         DataFirst, NoEarlyEOF
<1> QED BY <1>1, <1>2 DEF IInv

\* CloseOther: the close follows the pump: what the peer wrote is copied, or
\* the channel was closed already.
LEMMA CloseOtherKeeps == ASSUME IInv, NEW s \in Sides, CloseOther(s) PROVE IInv'
<1>1. TypeOK'
  BY DEF CloseOther, IInv, TypeOK
<1>2. OneCloser'
  BY DEF CloseOther, IInv, TypeOK, OneCloser
<1>3. DataFirst'
  BY DEF CloseOther, IInv, NoneSkipped, DataFirst
<1>4. NotYet' /\ ForwarderLast' /\ NoneSkipped' /\ Gate' /\ NoEarlyEOF'
  BY DEF CloseOther, IInv, NotYet, ForwarderLast, NoneSkipped, Gate, NoEarlyEOF
<1> QED BY <1>1, <1>2, <1>3, <1>4 DEF IInv

\* Copy: a chunk moves from the one side to the other; a failed write ends
\* the copy.
LEMMA CopyKeeps == ASSUME IInv, NEW t \in Streams, Copy(t) PROVE IInv'
<1>1. TypeOK'
  BY DEF Copy, IInv, TypeOK
<1>2. ForwarderLast'
  BY DEF Copy, IInv, TypeOK, ForwarderLast
<1>3. NoneSkipped'
  BY DEF Copy, IInv, TypeOK, ForwarderLast, OneCloser, NoneSkipped
<1>4. DataFirst'
  BY DEF Copy, IInv, TypeOK, DataFirst
<1>5. NotYet' /\ OneCloser' /\ Gate' /\ NoEarlyEOF'
  BY DEF Copy, IInv, NotYet, OneCloser, Gate, NoEarlyEOF
<1> QED BY <1>1, <1>2, <1>3, <1>4, <1>5 DEF IInv

\* CopyEnds: the copy ends at EOF with nothing left to read.
LEMMA CopyEndsKeeps == ASSUME IInv, NEW t \in Streams, CopyEnds(t) PROVE IInv'
<1>1. TypeOK'
  BY DEF CopyEnds, IInv, TypeOK
<1>2. NoneSkipped'
  BY DEF CopyEnds, IInv, TypeOK, NoneSkipped
<1>3. NotYet' /\ ForwarderLast' /\ OneCloser' /\ Gate' /\ DataFirst' /\ NoEarlyEOF'
  BY DEF CopyEnds, IInv, NotYet, ForwarderLast, OneCloser, Gate, DataFirst, NoEarlyEOF
<1> QED BY <1>1, <1>2, <1>3 DEF IInv

\* CloseWrite: EOF is passed on after the gate, so after the answer to the
\* start.
LEMMA CloseWriteKeeps == ASSUME IInv, NEW t \in Streams, CloseWrite(t) PROVE IInv'
<1>1. TypeOK'
  BY DEF CloseWrite, IInv, TypeOK
<1>2. OneCloser'
  BY DEF CloseWrite, IInv, TypeOK, OneCloser
<1>3. Gate'
  BY DEF CloseWrite, IInv, TypeOK, Gate
<1>4. DataFirst'
  BY DEF CloseWrite, IInv, TypeOK, DataFirst
<1>5. NoEarlyEOF'
  BY DEF CloseWrite, IInv, TypeOK, Gate, NoEarlyEOF
<1>6. NotYet' /\ ForwarderLast' /\ NoneSkipped'
  BY DEF CloseWrite, IInv, NotYet, ForwarderLast, NoneSkipped
<1> QED BY <1>1, <1>2, <1>3, <1>4, <1>5, <1>6 DEF IInv

-----------------------------------------------------------------------------
\* A channel is opened with nothing sent and the gate open but for sessions.
LEMMA InitIInv == Init => IInv
<1> SUFFICES ASSUME Init PROVE IInv
  OBVIOUS
<1>1. started \in BOOLEAN
  BY Zenon DEF Init
<1>2. TypeOK
  BY <1>1 DEF Init, TypeOK
<1>3. started /\ kind = "session" => FALSE
  BY Zenon DEF Init
<1>4. Gate
  BY <1>3 DEF Init, Gate
<1>5. NotYet /\ ForwarderLast /\ OneCloser /\ NoneSkipped /\ DataFirst /\ NoEarlyEOF
  BY DEF Init, NotYet, ForwarderLast, OneCloser, NoneSkipped, DataFirst, NoEarlyEOF
<1> QED BY <1>2, <1>4, <1>5 DEF IInv

\* No step of proxyChannel, Proxy or the peers disturbs the invariant.
LEMMA NextIInv == IInv /\ [Next]_vars => IInv'
<1> SUFFICES ASSUME IInv, [Next]_vars PROVE IInv'
  OBVIOUS
<1>1. ASSUME NEW ok \in BOOLEAN, OpenChannel(ok) \/ Accept(ok) PROVE IInv'
  BY <1>1, OpenChannelKeeps, AcceptKeeps
<1>2. CASE Peer
  BY <1>2, PeerWritesKeeps, PeerRequestsKeeps, PeerEOFKeeps, PeerClosesKeeps,
     ConnectionEndsKeeps DEF Peer
<1>3. CASE StartAnswered
  BY <1>3, StartAnsweredKeeps
<1>4. CASE Goroutines
  <2>1. ASSUME NEW s \in Sides, ForwardRequest(s) \/ Drained(s) \/ CloseOther(s) PROVE IInv'
    BY <2>1, ForwardRequestKeeps, DrainedKeeps, CloseOtherKeeps
  <2>2. ASSUME NEW t \in Streams, Copy(t) \/ CopyEnds(t) \/ CloseWrite(t) PROVE IInv'
    BY <2>2, CopyKeeps, CopyEndsKeeps, CloseWriteKeeps
  <2> QED BY <1>4, <2>1, <2>2 DEF Goroutines
<1>5. ASSUME NEW s \in Sides, ProxyCloses(s) PROVE IInv'
  BY <1>5, ConnectionEndsKeeps DEF ProxyCloses
<1>6. CASE UNCHANGED vars
  BY <1>6 DEF vars, IInv, TypeOK, NotYet, ForwarderLast, OneCloser, NoneSkipped, Gate,
              DataFirst, NoEarlyEOF
<1> QED BY <1>1, <1>2, <1>3, <1>4, <1>5, <1>6 DEF Next

\* IInv is an invariant of one channel of the gateway, whatever its type, the
\* amount of data and the order in which the goroutines and the peers move.
THEOREM ProxyInductive == Spec => []IInv
  BY InitIInv, NextIInv, PTL DEF Spec

\* Every state of proxyChannel is well typed; no chunk is written twice.
THEOREM ProxyTypeCorrect == Spec => []TypeOK
<1>1. IInv => TypeOK BY DEF IInv
<1> QED BY ProxyInductive, <1>1, PTL

\* proxyChannel never closes the client's channel with an exit status waiting:
\* the close is the backend forwarder's, which has drained the requests.
THEOREM ExitStatusAlwaysFirst == Spec => []ExitStatusFirst
<1>1. IInv => ExitStatusFirst
  BY DEF IInv, TypeOK, NotYet, ForwarderLast, OneCloser, ExitStatusFirst
<1> QED BY ProxyInductive, <1>1, PTL

\* proxyChannel never closes a channel before it has passed on all that the
\* opposite peer wrote, on stdin and stdout, however much that is.
THEOREM DataAlwaysFirst == Spec => []DataFirst
<1>1. IInv => DataFirst BY DEF IInv
<1> QED BY ProxyInductive, <1>1, PTL

\* startProgSent works: no backend sees EOF on a session before it has answered
\* the start of the program, unless the client closed the channel.
THEOREM EOFNeverEarly == Spec => []NoEarlyEOF
<1>1. IInv => NoEarlyEOF BY DEF IInv
<1> QED BY ProxyInductive, <1>1, PTL
=============================================================================
