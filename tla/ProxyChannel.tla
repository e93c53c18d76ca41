---------------------------- MODULE ProxyChannel ----------------------------
(***************************************************************************)
(* One SSH channel through the gateway (internal/gateway/proxy.go): the    *)
(* five goroutines of proxyChannel between the client's channel, "l", and  *)
(* the backend's, "r", the peers at both ends, and the end of either       *)
(* connection, on which Proxy closes the other.                            *)
(***************************************************************************)
EXTENDS Integers

CONSTANTS
    Types,       \* the channel types clients open, a subset of {"session", "direct-tcpip"}
    MaxData      \* bound: chunks a peer writes to each of its streams

VARIABLES
    phase,     \* proxyChannel opens the backend's channel, accepts the client's, runs or gave up
    kind,      \* local.ChannelType()
    data,      \* data[s]: chunks received from s and not read yet; data["err"]: of stderr
    produced,  \* how many chunks there were in all
    reqs,      \* reqs[s]: channel requests received from s and not taken yet
    eof,       \* eof[s]: s sent EOF
    closed,    \* closed[s]: s sent close, or its connection is gone
    up,        \* up[s]: the connection to s is up
    copied,    \* copied[t]: chunks of t the gateway wrote to the other channel
    sent,      \* sent[s]: the other messages the gateway wrote to the channel of s
    fwd,       \* fwd[s]: the goroutine that forwards the requests of s
    pump,      \* pump[s]: the goroutine that copies from s; pump["err"] copies stderr
    started    \* startProgSent is closed

vars == <<phase, kind, data, copied, produced, reqs, eof, closed, up, sent, fwd, pump, started>>
peers == <<produced, reqs, eof, closed, up>>

Sides == {"l", "r"}
Streams == Sides \cup {"err"}
Requests == {"start", "exit"}
Messages == Requests \cup {"eof", "close"}
Other(s) == IF s = "l" THEN "r" ELSE "l"

ASSUME ProxyConstants == Types \subseteq {"session", "direct-tcpip"} /\ MaxData \in Nat

TypeOK ==
    /\ phase \in {"open", "accept", "run", "gone"} /\ kind \in Types
    /\ data \in [Streams -> 0..MaxData] /\ produced \in [Streams -> 0..MaxData]
    /\ copied \in [Streams -> 0..MaxData] /\ \A t \in Streams : copied[t] + data[t] <= produced[t]
    /\ reqs \in [Sides -> SUBSET Requests] /\ "start" \notin reqs["r"]
    /\ sent \in [Sides -> SUBSET Messages]
    /\ eof \in [Sides -> BOOLEAN] /\ closed \in [Sides -> BOOLEAN] /\ up \in [Sides -> BOOLEAN]
    /\ \A s \in Sides : closed[s] => eof[s]
    /\ fwd \in [Sides -> {"loop", "wait", "drained", "done"}] /\ fwd["r"] # "wait"
    /\ pump \in [Streams -> {"copy", "copied", "done"}]
    /\ started \in BOOLEAN

Init ==
    /\ phase = "open" /\ kind \in Types
    /\ data = [t \in Streams |-> 0] /\ produced = [t \in Streams |-> 0] /\ copied = [t \in Streams |-> 0]
    /\ reqs = [s \in Sides |-> {}] /\ sent = [s \in Sides |-> {}]
    /\ eof = [s \in Sides |-> FALSE] /\ closed = [s \in Sides |-> FALSE]
    /\ up = [s \in Sides |-> TRUE]
    /\ fwd = [s \in Sides |-> "loop"] /\ pump = [t \in Streams |-> "copy"]
    /\ started = (kind # "session")

\* Writes to the channel of s fail: the gateway or the peer has closed it.
Shut(s) == closed[s] \/ "close" \in sent[s]

\* The message reaches s, unless its channel is shut.
Write(s, m) == sent' = IF Shut(s) THEN sent ELSE [sent EXCEPT ![s] = @ \cup {m}]

-----------------------------------------------------------------------------
(* proxyChannel up to its goroutines *)

OpenChannel(ok) ==
    /\ phase = "open"
    /\ phase' = IF ok THEN "accept" ELSE "gone"
    /\ UNCHANGED <<kind, data, copied, peers, sent, fwd, pump, started>>

\* Accept fails when the client is gone; the backend's channel is closed then.
Accept(ok) ==
    /\ phase = "accept"
    /\ phase' = IF ok THEN "run" ELSE "gone"
    /\ IF ok THEN UNCHANGED sent ELSE Write("r", "close")
    /\ UNCHANGED <<kind, data, copied, peers, fwd, pump, started>>

-----------------------------------------------------------------------------
(* The peers (golang.org/x/crypto/ssh delivers what they send) *)

Side(t) == IF t = "err" THEN "r" ELSE t

PeerWrites(t) ==
    /\ phase = "run" /\ ~eof[Side(t)] /\ produced[t] < MaxData
    /\ data' = [data EXCEPT ![t] = @ + 1] /\ produced' = [produced EXCEPT ![t] = @ + 1]
    /\ UNCHANGED <<phase, kind, copied, reqs, eof, closed, up, sent, fwd, pump, started>>

\* The requests the code or the properties tell apart: the client asks for a
\* program, once, and the backend reports its end.
PeerRequests(s, m) ==
    /\ phase = "run" /\ ~closed[s]
    /\ m \notin reqs[s] \cup sent[Other(s)]
    /\ \/ s = "l" /\ m = "start" /\ kind = "session"
       \/ s = "r" /\ m = "exit" /\ "start" \in sent["r"]
    /\ reqs' = [reqs EXCEPT ![s] = @ \cup {m}]
    /\ UNCHANGED <<phase, kind, data, copied, produced, eof, closed, up, sent, fwd, pump, started>>

PeerEOF(s) ==
    /\ phase = "run" /\ ~eof[s]
    /\ eof' = [eof EXCEPT ![s] = TRUE]
    /\ UNCHANGED <<phase, kind, data, copied, produced, reqs, closed, up, sent, fwd, pump, started>>

\* Of its own accord, or in reply to the gateway's close.
PeerCloses(s) ==
    /\ phase = "run" /\ ~closed[s]
    /\ closed' = [closed EXCEPT ![s] = TRUE] /\ eof' = [eof EXCEPT ![s] = TRUE]
    /\ UNCHANGED <<phase, kind, data, copied, produced, reqs, up, sent, fwd, pump, started>>

ConnectionEnds(s) ==
    /\ phase = "run" /\ up[s]
    /\ up' = [up EXCEPT ![s] = FALSE]
    /\ closed' = [closed EXCEPT ![s] = TRUE] /\ eof' = [eof EXCEPT ![s] = TRUE]
    /\ UNCHANGED <<phase, kind, data, copied, produced, reqs, sent, fwd, pump, started>>

\* Proxy: one connection's end closes the other.
ProxyCloses(s) == ~up[Other(s)] /\ ConnectionEnds(s)

-----------------------------------------------------------------------------
(* The goroutines *)

\* SendRequest and Reply; a program's start wants a reply.
ForwardRequest(s) ==
    \E m \in reqs[s] :
        /\ phase = "run" /\ fwd[s] = "loop"
        /\ reqs' = [reqs EXCEPT ![s] = @ \ {m}]
        /\ Write(Other(s), m)
        /\ fwd' = [fwd EXCEPT ![s] = IF m = "start" THEN "wait" ELSE @]
        /\ UNCHANGED <<phase, kind, data, copied, produced, eof, closed, up, pump, started>>

\* The backend answers, or its channel is closed under the request.
StartAnswered ==
    /\ phase = "run" /\ fwd["l"] = "wait"
    /\ fwd' = [fwd EXCEPT !["l"] = "loop"]
    /\ started' = TRUE
    /\ UNCHANGED <<phase, kind, data, copied, peers, sent, pump>>

\* Mutant: the gate stays shut when no program was asked for.
DrainedNoRelease(s) ==
    /\ phase = "run" /\ fwd[s] = "loop" /\ reqs[s] = {} /\ closed[s]
    /\ fwd' = [fwd EXCEPT ![s] = "drained"]
    /\ UNCHANGED <<phase, kind, data, copied, peers, sent, pump, started>>

\* Mutant: the forwarder does not wait for the last requests.
DrainedEarly(s) ==
    /\ phase = "run" /\ fwd[s] = "loop" /\ closed[s]
    /\ fwd' = [fwd EXCEPT ![s] = "drained"]
    /\ started' = (started \/ s = "l")
    /\ UNCHANGED <<phase, kind, data, copied, peers, sent, pump>>

\* The requests of s have ended; the client's release the gate.
Drained(s) ==
    /\ phase = "run" /\ fwd[s] = "loop" /\ reqs[s] = {} /\ closed[s]
    /\ fwd' = [fwd EXCEPT ![s] = "drained"]
    /\ started' = (started \/ s = "l")
    /\ UNCHANGED <<phase, kind, data, copied, peers, sent, pump>>

\* Mutant: the channel is closed as soon as the requests have ended.
CloseOtherEarly(s) ==
    /\ phase = "run" /\ fwd[s] = "drained"
    /\ Write(Other(s), "close")
    /\ fwd' = [fwd EXCEPT ![s] = "done"]
    /\ UNCHANGED <<phase, kind, data, copied, peers, pump, started>>

\* After <-stddown, or <-stdup: the opposite channel is closed.
CloseOther(s) ==
    /\ phase = "run" /\ fwd[s] = "drained" /\ pump[s] = "done"
    /\ Write(Other(s), "close")
    /\ fwd' = [fwd EXCEPT ![s] = "done"]
    /\ UNCHANGED <<phase, kind, data, copied, peers, pump, started>>

Target(t) == IF t = "l" THEN "r" ELSE "l"

\* Mutant: a chunk already written is written again.
CopyTwice(t) ==
    /\ phase = "run" /\ pump[t] = "copy" /\ data[t] > 0
    /\ IF Shut(Target(t))
       THEN pump' = [pump EXCEPT ![t] = "copied"] /\ UNCHANGED copied
       ELSE copied' = [copied EXCEPT ![t] = @ + 1] /\ UNCHANGED pump
    /\ UNCHANGED <<phase, kind, data, peers, sent, fwd, started>>

\* io.Copy, one chunk; it ends on the first write that fails.
Copy(t) ==
    /\ phase = "run" /\ pump[t] = "copy" /\ data[t] > 0
    /\ data' = [data EXCEPT ![t] = @ - 1]
    /\ IF Shut(Target(t))
       THEN pump' = [pump EXCEPT ![t] = "copied"] /\ UNCHANGED copied
       ELSE copied' = [copied EXCEPT ![t] = @ + 1] /\ UNCHANGED pump
    /\ UNCHANGED <<phase, kind, peers, sent, fwd, started>>

\* io.Copy meets EOF.
CopyEnds(t) ==
    /\ phase = "run" /\ pump[t] = "copy" /\ data[t] = 0 /\ eof[Side(t)]
    /\ pump' = [pump EXCEPT ![t] = "copied"]
    /\ UNCHANGED <<phase, kind, data, copied, peers, sent, fwd, started>>

\* Mutant: EOF is passed on whether or not the program was started.
CloseWriteUngated(t) ==
    /\ phase = "run" /\ pump[t] = "copied"
    /\ IF t = "err" THEN UNCHANGED sent ELSE Write(Target(t), "eof")
    /\ pump' = [pump EXCEPT ![t] = "done"]
    /\ UNCHANGED <<phase, kind, data, copied, peers, fwd, started>>

\* CloseWrite and the close of stdup or stddown; the copy of stdin first
\* waits for startProgSent, the copy of stderr just ends.
CloseWrite(t) ==
    /\ phase = "run" /\ pump[t] = "copied" /\ (t = "l" => started)
    /\ IF t = "err" THEN UNCHANGED sent ELSE Write(Target(t), "eof")
    /\ pump' = [pump EXCEPT ![t] = "done"]
    /\ UNCHANGED <<phase, kind, data, copied, peers, fwd, started>>

-----------------------------------------------------------------------------
Goroutines ==
    \/ \E s \in Sides : ForwardRequest(s) \/ Drained(s) \/ CloseOther(s)
    \/ \E t \in Streams : Copy(t) \/ CopyEnds(t) \/ CloseWrite(t)

Peer == \/ \E t \in Streams : PeerWrites(t)
        \/ \E s \in Sides : \/ \E m \in Requests : PeerRequests(s, m)
                            \/ PeerEOF(s) \/ PeerCloses(s) \/ ConnectionEnds(s)

Next == \/ \E ok \in BOOLEAN : OpenChannel(ok) \/ Accept(ok)
        \/ Peer \/ StartAnswered \/ Goroutines
        \/ \E s \in Sides : ProxyCloses(s)

Spec == Init /\ [][Next]_vars

\* Goroutines run and the peers read.  The backend answers the start of a
\* program and both peers answer a close; Proxy notices a connection's end.
Fairness ==
    /\ \A s \in Sides : /\ WF_vars(ForwardRequest(s)) /\ WF_vars(Drained(s))
                        /\ WF_vars(CloseOther(s)) /\ WF_vars(ProxyCloses(s))
                        /\ WF_vars("close" \in sent[s] /\ PeerCloses(s))
    /\ \A t \in Streams : WF_vars(Copy(t)) /\ WF_vars(CopyEnds(t)) /\ WF_vars(CloseWrite(t))
    /\ WF_vars(StartAnswered)

FairSpec == Spec /\ Fairness

-----------------------------------------------------------------------------
(* Properties *)

\* "exit-status (and any other late channel-requests) gets flushed before we
\* tear the channel down": when the gateway closes the client's channel, the
\* client has the exit status.
ExitStatusFirst ==
    "close" \in sent["l"] => "exit" \notin reqs["r"]

\* Each forwarder closes the opposite channel only after the data pump: all
\* the backend wrote to stdout, and all the client wrote, precedes the close.
DataFirst ==
    \A s \in Sides : "close" \in sent[Other(s)] => copied[s] = produced[s]

\* startProgSent: a backend sees EOF on a session only after it has answered
\* the request that starts the program, unless the client closed the channel.
NoEarlyEOF ==
    kind = "session" /\ "eof" \in sent["r"] /\ ~closed["l"]
        => "start" \in sent["r"] /\ fwd["l"] # "wait"

\* "until both sides close": once one peer has closed, all goroutines end and
\* both channels are closed, whatever the order of events.
AllEnd ==
    (\E s \in Sides : closed[s]) ~>
        /\ \A s \in Sides : fwd[s] = "done" /\ closed[s]
        /\ \A t \in Streams : pump[t] = "done"

\* proxyChannel "pumps stdin/stdout/stderr": what the backend wrote to stderr
\* precedes the close, as what it wrote to stdout does.
StderrFirst == "close" \in sent["l"] => copied["err"] = produced["err"]
=============================================================================
