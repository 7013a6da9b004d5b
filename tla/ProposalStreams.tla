-------------------------- MODULE ProposalStreams --------------------------
(***************************************************************************)
(* How a proposal travels: the proposer cuts it into parts and publishes   *)
(* them on a topic; the network delivers them in any order, more than once *)
(* or not at all; the validator's demultiplexer hands them to one stream   *)
(* per proposal, and the stream puts them in order, runs the transactions  *)
(* on the head of the chain and hands over the proposal if everything      *)
(* agrees.  Blocks are those of BlockBuilding; prices are left out.        *)
(***************************************************************************)
EXTENDS BlockBuilding, FiniteSets

CONSTANTS
    Offers,        \* the proposals, [height, round, validRound, txns, agrees]
    Decided,       \* the transactions of the block decided at each height
    txBatchSize,
    InputSize, OutputSize, NotifierSize,
    MaxCopies      \* how often the network delivers one message

VARIABLES
    proposals,     \* the proposals whose parts are still to be broadcast
    copies,        \* how often each message was delivered
    streams,       \* the streams by identifier
    streamHeights, currentHeight,
    blocked,       \* the message whose delivery the demultiplexer waits in
    commitNotifier,
    chain, driver, \* the chain, and whether its last block is not notified yet
    outputs, proposalStore, failures

vars == <<proposals, copies, streams, streamHeights, currentHeight, blocked, commitNotifier,
          chain, driver, outputs, proposalStore, failures>>

node == <<chain, driver, commitNotifier>>
-----------------------------------------------------------------------------
\* The chain that consensus decides, up to a height.
ChainTo(h) ==
    LET f[n \in 0 .. h] ==
            IF n = 0 THEN <<>>
            ELSE Append(f[n - 1], Block(RunTxns(f[n - 1], InitPreconfirmedBlock(f[n - 1]), Decided[n])))
    IN f[h]

\* The proposer's own block, on the chain it has seen.
Built(o) == LET c == ChainTo(o.height - 1) IN RunTxns(c, InitPreconfirmedBlock(c), o.txns)

StreamId(o) == <<o.height, o.round>>

StreamIds == {StreamId(o) : o \in Offers}

Heights == 1 .. Len(Decided) + 1

\* The commitment to a block: where it is, what it runs and what that changes.
ProposalCommitment(state) ==
    [number |-> state.number, parent |-> state.parent, txns |-> state.txns, nonce |-> state.nonce]

\* A valid round below zero is sent as an absent field.
SentRound(r) == IF r >= 0 THEN <<r>> ELSE <<>>

AdaptProposalInit(p) ==
    [height |-> p.height, round |-> p.round,
     validRound |-> IF p.validRound = <<>> THEN 0 - 1 ELSE p.validRound[1]]

Chunk(txns) ==
    [i \in 1 .. (Len(txns) + txBatchSize - 1) \div txBatchSize |->
        SubSeq(txns, (i - 1) * txBatchSize + 1,
               IF i * txBatchSize > Len(txns) THEN Len(txns) ELSE i * txBatchSize)]

fromProposalInit(o) ==
    [part |-> "init", height |-> o.height, round |-> o.round, validRound |-> SentRound(o.validRound)]

fromBlockInfo(o) == [part |-> "info", number |-> Built(o).number]

fromTransactions(txns) == [part |-> "txns", txns |-> txns]

\* A proposer whose execution does not agree commits to something else.
fromProposalCommitment(o) ==
    LET c == ProposalCommitment(Built(o)) IN
    [part |-> "commitment", commitment |-> IF o.agrees THEN c ELSE [c EXCEPT !.number = @ + 1]]

fromProposalFin(o) == [part |-> "fin", value |-> Block(Built(o))]

fromFin == [part |-> "end"]

\* The parts of a proposal in the order of their sequence numbers, from 0.
run(o) ==
    <<fromProposalInit(o), fromBlockInfo(o)>>
    \o [i \in DOMAIN Chunk(o.txns) |-> fromTransactions(Chunk(o.txns)[i])]
    \o <<fromProposalCommitment(o), fromProposalFin(o), fromFin>>

Message(o, k) == [id |-> StreamId(o), seq |-> k, content |-> run(o)[k + 1]]

newSingleProposalStream ==
    [input |-> <<>>, messages |-> {}, next |-> 0, started |-> FALSE, running |-> FALSE,
     sm |-> [state |-> "initial"], more |-> FALSE, sending |-> FALSE, got |-> {}]

Init ==
    /\ proposals = Offers
    /\ copies = [o \in Offers |-> [k \in 0 .. Len(run(o)) - 1 |-> 0]]
    /\ streams = [i \in StreamIds |-> None]
    /\ streamHeights = [h \in Heights |-> <<>>] /\ currentHeight = 1
    /\ blocked = None /\ commitNotifier = <<>>
    /\ chain = <<>> /\ driver = "idle"
    /\ outputs = <<>> /\ proposalStore = {} /\ failures = {}

-----------------------------------------------------------------------------
\* The loop of the proposal broadcaster publishes the parts of a proposal, each
\* with as many attempts as it takes.
processLoop ==
    /\ \E o \in proposals : proposals' = proposals \ {o}
    /\ UNCHANGED <<copies, streams, streamHeights, currentHeight, blocked, node, outputs,
                   proposalStore, failures>>

-----------------------------------------------------------------------------
\* The state machine of a proposal; None when a part is refused.
OnProposalInit(p) == [state |-> "info or commitment", header |-> AdaptProposalInit(p)]

OnBlockInfo(sm) == [state |-> "transactions", header |-> sm.header, build |-> InitPreconfirmedBlock(chain)]

OnTransactions(sm, txns) ==
    LET next == RunTxns(chain, sm.build, txns) IN
    IF next = None THEN None ELSE [sm EXCEPT !.build = next]

compareProposalCommitment(computed, received) == computed = received

finishAndValidateBlock(sm, build, c) ==
    IF compareProposalCommitment(ProposalCommitment(build), c)
    THEN [state |-> "fin", header |-> sm.header, value |-> Block(build)] ELSE None

OnProposalFin(sm, value) == IF sm.value = value THEN [sm EXCEPT !.state = "done"] ELSE None

OnEvent(sm, p) ==
    CASE sm.state = "initial" /\ p.part = "init" -> OnProposalInit(p)
      [] sm.state = "info or commitment" /\ p.part = "info" -> OnBlockInfo(sm)
      [] sm.state = "info or commitment" /\ p.part = "commitment" ->
            finishAndValidateBlock(sm, InitPreconfirmedBlock(chain), p.commitment)
      [] sm.state = "transactions" /\ p.part = "txns" -> OnTransactions(sm, p.txns)
      [] sm.state = "transactions" /\ p.part = "commitment" ->
            finishAndValidateBlock(sm, sm.build, p.commitment)
      [] sm.state = "fin" /\ p.part = "fin" -> OnProposalFin(sm, p.value)
      [] OTHER -> None

-----------------------------------------------------------------------------
getStream(id) == IF streams[id] = None THEN newSingleProposalStream ELSE streams[id]

start(s, message) ==
    [s EXCEPT !.sm = OnEvent(s.sm, message.content), !.next = 1, !.started = TRUE, !.got = {0}]

\* The first part names the height: an old stream is left as it is, one of
\* this height starts to run, one of a later height waits.
onFirstMessage(id, message) ==
    LET s == start(getStream(id), message)
        h == message.content.height
    IN IF getStream(id).started THEN UNCHANGED <<streams, streamHeights>>
       ELSE /\ streams' = [streams EXCEPT ![id] = [s EXCEPT !.running = (h = currentHeight)]]
            /\ streamHeights' = IF h < currentHeight THEN streamHeights
                                ELSE [streamHeights EXCEPT ![h] = Append(@, id)]

\* A later part goes into the queue of its stream; the demultiplexer waits
\* when the queue is full.
onSubsequentMessage(id, message) ==
    LET s == getStream(id) IN
    /\ IF Len(s.input) < InputSize
       THEN /\ streams' = [streams EXCEPT ![id] =
                              [s EXCEPT !.input = Append(@, message), !.got = @ \cup {message.seq}]]
            /\ blocked' = None
       ELSE streams' = [streams EXCEPT ![id] = s] /\ blocked' = message
    /\ UNCHANGED streamHeights

processStreamMessage ==
    /\ blocked = None
    /\ \E o \in Offers \ proposals : \E k \in DOMAIN copies[o] :
        LET message == Message(o, k) IN
        /\ copies[o][k] < MaxCopies
        /\ copies' = [copies EXCEPT ![o][k] = @ + 1]
        /\ IF message.seq = 0 THEN onFirstMessage(message.id, message) /\ UNCHANGED blocked
           ELSE onSubsequentMessage(message.id, message)
    /\ UNCHANGED <<proposals, currentHeight, node, outputs, proposalStore, failures>>

Unblock ==
    /\ blocked # None /\ Len(streams[blocked.id].input) < InputSize
    /\ onSubsequentMessage(blocked.id, blocked)
    /\ UNCHANGED <<proposals, copies, currentHeight, node, outputs, proposalStore, failures>>

\* The streams of the height that is over go on.
stopNothing == streams

\* The streams of the height that is over are cancelled and forgotten.
stop == [i \in StreamIds |-> IF i \in Range(streamHeights[currentHeight]) THEN None ELSE streams[i]]

startAll(h) ==
    [i \in StreamIds |-> IF i \in Range(streamHeights[h]) THEN [stop[i] EXCEPT !.running = TRUE]
                         ELSE stop[i]]

\* The commit of the current height starts the streams of the next one; any
\* other height only stops the current streams.
processCommit ==
    /\ blocked = None /\ commitNotifier # <<>>
    /\ commitNotifier' = Tail(commitNotifier)
    /\ IF Head(commitNotifier) # currentHeight
       THEN streams' = stop /\ UNCHANGED currentHeight
       ELSE /\ currentHeight' = currentHeight + 1
            /\ streams' = startAll(currentHeight + 1)
    /\ streamHeights' = [streamHeights EXCEPT ![currentHeight] = <<>>]
    /\ UNCHANGED <<proposals, copies, blocked, chain, driver, outputs, proposalStore, failures>>

-----------------------------------------------------------------------------
\* The part that comes next, if it came too early and was kept.
getNextMessage(s) == {x \in s.messages : x.seq = s.next}

\* What the loop of a stream takes next.
loop(s) == IF s.more THEN getNextMessage(s) ELSE IF s.input = <<>> THEN {} ELSE {Head(s.input)}

\* One part of a stream's loop: a part that is not the next one is kept.
processMessages(id) ==
    LET s == streams[id] IN
    /\ s # None /\ s.running /\ ~s.sending
    /\ \E message \in loop(s) :
        LET rest == IF s.more THEN [s EXCEPT !.messages = @ \ {message}]
                    ELSE [s EXCEPT !.input = Tail(@)]
            kept == [rest EXCEPT !.messages = {x \in @ : x.seq # message.seq} \cup {message}]
            next == [rest EXCEPT !.next = s.next + 1]
            sm == OnEvent(s.sm, message.content)
        IN IF message.seq # s.next THEN
                /\ streams' = [streams EXCEPT ![id] = kept]
                /\ UNCHANGED <<proposalStore, failures>>
           ELSE IF message.content.part = "end" /\ s.sm.state = "done" THEN
                /\ proposalStore' = proposalStore \cup {s.sm.value}
                /\ streams' = [streams EXCEPT ![id] = [next EXCEPT !.more = FALSE, !.sending = TRUE]]
                /\ UNCHANGED failures
           ELSE IF message.content.part = "end" \/ sm = None THEN
                /\ streams' = [streams EXCEPT ![id] = [next EXCEPT !.more = FALSE, !.running = FALSE]]
                /\ failures' = failures \cup {id}
                /\ UNCHANGED proposalStore
           ELSE /\ streams' = [streams EXCEPT ![id] =
                        [next EXCEPT !.sm = sm,
                                     !.more = getNextMessage(next) # {}]]
                /\ UNCHANGED <<proposalStore, failures>>
    /\ UNCHANGED <<proposals, copies, streamHeights, currentHeight, blocked, node, outputs>>

SendProposal(id) ==
    LET s == streams[id] IN
    /\ s # None /\ s.running /\ s.sending /\ Len(outputs) < OutputSize
    /\ outputs' = Append(outputs, [header |-> s.sm.header, value |-> s.sm.value])
    /\ streams' = [streams EXCEPT ![id].sending = FALSE]
    /\ UNCHANGED <<proposals, copies, streamHeights, currentHeight, blocked, node, proposalStore, failures>>

\* The driver of the consensus engine: it takes proposals, and once a block
\* is stored its hook tells the demultiplexer.
TakeProposal ==
    /\ outputs # <<>> /\ outputs' = Tail(outputs)
    /\ UNCHANGED <<proposals, copies, streams, streamHeights, currentHeight, blocked, node, proposalStore, failures>>

Persist ==
    /\ driver = "idle" /\ Len(chain) < Len(Decided)
    /\ chain' = ChainTo(Len(chain) + 1) /\ driver' = "hook"
    /\ UNCHANGED <<proposals, copies, streams, streamHeights, currentHeight, blocked, commitNotifier, outputs,
                   proposalStore, failures>>

OnCommit ==
    /\ driver = "hook" /\ Len(commitNotifier) < NotifierSize
    /\ commitNotifier' = Append(commitNotifier, Len(chain)) /\ driver' = "idle"
    /\ UNCHANGED <<proposals, copies, streams, streamHeights, currentHeight, blocked, chain, outputs,
                   proposalStore, failures>>

Next ==
    \/ processLoop \/ processStreamMessage \/ Unblock \/ processCommit
    \/ \E id \in StreamIds : processMessages(id) \/ SendProposal(id)
    \/ TakeProposal \/ Persist \/ OnCommit

Spec == Init /\ [][Next]_vars

-----------------------------------------------------------------------------
\* A proposal that reaches the state machine is the one its proposer made:
\* header, valid round and block, built on the block below it, and the block
\* is in the proposal store unless it is no longer needed (processMessages,
\* transition).
ProposalsTrue ==
    /\ \A i \in DOMAIN outputs :
        \E o \in Offers :
            /\ o.agrees
            /\ outputs[i].header = [height |-> o.height, round |-> o.round, validRound |-> o.validRound]
            /\ outputs[i].value = Block(Built(o)) /\ outputs[i].value \in proposalStore
            /\ outputs[i].value.number = o.height
    /\ \A v \in proposalStore : \E o \in Offers : o.agrees /\ v = Block(Built(o))

\* Only streams of the current height run, and every stream that waits for
\* this height has been started (stop, processCommit, onFirstMessage).
RunsAtHeight ==
    \A id \in StreamIds :
        streams[id] # None =>
            /\ streams[id].running => id[1] = currentHeight
            /\ id \in Range(streamHeights[currentHeight]) => streams[id].running \/ id \in failures

\* A running stream that has all its parts, in whatever order and however
\* often they came, completes the proposal, unless the head moved on below
\* it or the proposer does not agree (processMessages, getNextMessage).
StreamsComplete ==
    \A o \in Offers :
        LET s == streams[StreamId(o)] IN
        s # None /\ s.running /\ s.input = <<>> /\ ~s.more /\ s.got = 0 .. Len(run(o)) - 1
            /\ o.agrees /\ Len(chain) < o.height
            => s.sm.state = "done" /\ (s.sending \/ s.next = Len(run(o)))

\* A stream fails only when its proposer does not agree, or when the head
\* moved while it was running (transition).
FailsForAReason ==
    \A id \in failures : \E o \in Offers :
        StreamId(o) = id /\ (~o.agrees \/ Len(chain) >= o.height)
=============================================================================
