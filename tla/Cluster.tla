------------------------------ MODULE Cluster ------------------------------
(***************************************************************************)
(* Reading a block from the nodes of a cluster: the caller sketched in     *)
(* example.cpp runs on one node, the reader, and asks the others.          *)
(*                                                                         *)
(* The reader is a whole ErasureNode (with its saves, failed Puts, damage, *)
(* crashes and restarts); each call the caller makes is that node's        *)
(* action, joined with what the caller does with the result.  The caller   *)
(* looks in its own node first, then asks the owner of the block, and on a *)
(* time-out or a wrong answer asks every node for the chunk it keeps and   *)
(* decodes the first ec_k correct ones.                                    *)
(*                                                                         *)
(* The other nodes are represented by what their answers depend on: which  *)
(* epochs they have saved and whether they run.  The faulty ones answer    *)
(* anything or nothing.  A message that was sent stays for ever, so it may be lost    *)
(* (never received), late, out of order or received again.                 *)
(***************************************************************************)
EXTENDS ErasureNode

CONSTANTS
  Peers,      \* the ids of the other nodes
  Faulty,     \* those of them that do not follow the protocol
  Lies,       \* bound: what a faulty node sends for a chunk
  NoBlock,    \* no read is going on
  NoAnswer    \* the last read has not come to an end

ASSUME ClusterAssumption ==
  /\ ec_nodeid \notin Peers
  /\ \A s \in Sealers : \A x \in Pos : s[x] \in Peers \cup {ec_nodeid}
  /\ Faulty \subseteq Peers
  /\ Lies \subseteq Chunks \cup {NoData, Damaged}
  /\ NoBlock \notin Blocks
  /\ NoAnswer \notin [number : Blocks, value : Chunks \cup {NoValue, Damaged}, lacking : BOOLEAN]

VARIABLES
  client,         \* how far the read has come
  block,          \* read_block_number
  receive_data,   \* the correct chunks received so far ...
  index,          \* ... and their positions, in the order they came in
  answer,         \* how the last read ended
  requests,       \* the messages sent to nodes
  replies,        \* the messages sent back to the reader
  saved,          \* saved[n]: the epochs other node n has saved
  running         \* running[n]: whether the process of n runs

read    == <<client, block, receive_data, index>>
network == <<requests, replies>>
peers   == <<saved, running>>
cvars   == <<vars, read, answer, network, peers>>

\* computeChunkPosition of a block number.
KeyOf(b) == ChunkPosition(ToInt(b))

\* Mutant of ChunkPosByNode: the placement itself, not its inverse.
ChunkPosByNodeNotInverted(e) == ChunkSet[e]

\* getChunkPosByNodeIdAndEpoch: the chunk that each node keeps.
ChunkPosByNode(e) == [x \in Pos |-> CHOOSE p \in Pos : ChunkSet[e][p] = x]

Requests == [to : Peers \cup {ec_nodeid}, key : Chunks]
Replies  == [key : Chunks, data : Chunks \cup {NoData, Damaged}]

ClusterInit ==
  /\ Init
  /\ client = "none" /\ block = NoBlock
  /\ receive_data = <<>> /\ index = <<>>
  /\ answer = NoAnswer
  /\ requests = {} /\ replies = {}
  /\ saved = [n \in Peers |-> {}]
  /\ running = [n \in Peers |-> TRUE]

-----------------------------------------------------------------------------
(* The caller.                                                             *)

Forget ==
  /\ client' = "none" /\ block' = NoBlock
  /\ receive_data' = <<>> /\ index' = <<>>

\* The process of the reader ends, and the read with it.
Die == Crash /\ Forget /\ UNCHANGED <<answer, network, peers>>

\* The read ends with a value.  (lacking: it was decoded without its own chunk.)
EndRead(value, lacking) ==
  /\ Forget
  /\ answer' = [number |-> block, value |-> value, lacking |-> lacking]

Ask(b) ==
  /\ pc = "idle" /\ client = "none"
  /\ client' = "local" /\ block' = b
  /\ answer' = NoAnswer
  /\ UNCHANGED <<vars, receive_data, index, network, peers>>

\* Mutant of ReadLocally: an empty result is taken for the block.
ReadLocallyOnly ==
  /\ client = "local"
  /\ GetBlockByNumber(block)
  /\ \/ result'.value = Abort /\ Forget /\ UNCHANGED answer
     \/ result'.value # Abort /\ EndRead(result'.value, FALSE)
  /\ UNCHANGED <<network, peers>>

\* getBlockByNumber on the own node.  If it gives nothing, the owner is asked.
ReadLocally ==
  /\ client = "local"
  /\ GetBlockByNumber(block)
  /\ \/ /\ result'.value = Abort
        /\ Forget
        /\ UNCHANGED <<answer, requests>>
     \/ /\ result'.value \notin {Abort, NoValue}
        /\ EndRead(result'.value, FALSE)
        /\ UNCHANGED requests
     \/ /\ result'.value = NoValue
        /\ client' = "remote"
        /\ requests' = requests \cup {[to |-> OwnerOf(block), key |-> KeyOf(block)]}
        /\ UNCHANGED <<block, receive_data, index, answer>>
  /\ UNCHANGED <<replies, peers>>

\* Mutant of IsCorrect: the digest is not compared.
IsCorrectUnchecked(reply) == ec_db[reply.key] # NotFound

\* "data is correct": its digest is the one the reader's own database has.
IsCorrect(reply) ==
  /\ ec_db[reply.key] # NotFound
  /\ reply.data = ec_db[reply.key].digest

\* Every node is asked for the chunk of the epoch that it keeps.
AskAll ==
  LET e == KeyOf(block)[1]
  IN  /\ client' = "asking"
      /\ requests' = requests \cup { [to |-> ec_sealers[x], key |-> <<e, ChunkPosByNode(e)[x]>>] : x \in Pos }
      /\ UNCHANGED <<vars, block, receive_data, index, answer, replies, peers>>

\* The answer of the owner: the block, or a reason to ask the others.
ReceiveBlock(reply) ==
  /\ pc # "down" /\ client = "remote" /\ reply.key = KeyOf(block)
  /\ \/ ec_db[reply.key] = NotFound /\ Die
     \/ /\ IsCorrect(reply)
        /\ EndRead(BlockOf(reply.data), FALSE)
        /\ UNCHANGED <<vars, network, peers>>
     \/ ec_db[reply.key] # NotFound /\ ~ IsCorrect(reply) /\ AskAll

\* Mutant of TimeOut: the owner is given up only when it has answered wrongly.
TimeOutOnWrongAnswer ==
  /\ pc # "down" /\ client = "remote"
  /\ \E reply \in replies : reply.key = KeyOf(block) /\ ~ IsCorrect(reply)
  /\ AskAll

TimeOut == pc # "down" /\ client = "remote" /\ AskAll

\* A chunk of the epoch comes in; a wrong one, or one at a position that is there
\* already, is left aside.
ReceiveChunk(reply) ==
  /\ pc # "down" /\ client = "asking" /\ Len(index) < ec_k
  /\ reply.key[1] = KeyOf(block)[1]
  /\ \/ ec_db[reply.key] = NotFound /\ Die
     \/ /\ IsCorrect(reply)
        /\ \A x \in DOMAIN index : index[x] # reply.key[2]
        /\ receive_data' = Append(receive_data, reply.data)
        /\ index' = Append(index, reply.key[2])
        /\ UNCHANGED <<vars, client, block, answer, network, peers>>

\* k correct chunks are there: decode begins, takes them one by one, and ends.
StartDecode ==
  /\ client = "asking" /\ Len(index) = ec_k
  /\ DecodeBegin(block)
  /\ client' = "decoding"
  /\ UNCHANGED <<block, receive_data, index, answer, network, peers>>

TakeInput ==
  LET x == Cardinality(received) + 1
  IN  /\ client = "decoding" /\ x <= Len(index)
      /\ DecodeInput(index[x], receive_data[x])
      /\ UNCHANGED <<read, answer, network, peers>>

EndDecode ==
  /\ client = "decoding"
  /\ DecodeEnd
  /\ EndRead(result'.value, ~ result'.had)
  /\ UNCHANGED <<network, peers>>

-----------------------------------------------------------------------------
(* The nodes.                                                              *)

\* A node answers with the data of the record, if it has data.  Where it has no
\* record, the assertion of readChunk ends the process.
Serve(n) ==
  /\ running[n]
  /\ \E request \in requests :
       /\ request.to = n
       /\ \/ /\ n \in Faulty
             /\ \E data \in Lies : replies' = replies \cup {[key |-> request.key, data |-> data]}
             /\ UNCHANGED running
          \/ /\ n \notin Faulty /\ request.key[1] \in saved[n]
             /\ replies' = replies \cup
                  {[key |-> request.key,
                    data |-> IF ChunkSet[request.key[1]][request.key[2]] = SequenceOf(ec_sealers, n)
                             THEN request.key ELSE NoData]}
             /\ UNCHANGED running
          \/ /\ n \notin Faulty /\ request.key[1] \notin saved[n]
             /\ running' = [running EXCEPT ![n] = FALSE]
             /\ UNCHANGED replies
  /\ UNCHANGED <<vars, read, answer, requests, saved>>

\* The reader answers a request to itself (the owner may be the reader, and
\* among all nodes it is too).
ServeOwn ==
  /\ pc # "down"
  /\ \E request \in requests :
       /\ request.to = ec_nodeid
       /\ \/ ec_db[request.key] = NotFound /\ Die
          \/ /\ ec_db[request.key] # NotFound
             /\ replies' = replies \cup {[key |-> request.key, data |-> ec_db[request.key].data]}
             /\ UNCHANGED <<vars, read, answer, requests, peers>>

\* Another node saves an epoch.  (It is asked for one chunk of an epoch only, so
\* that a save that was cut short looks like a whole one or none.)
PeerSaves(n, e) ==
  /\ running[n]
  /\ saved' = [saved EXCEPT ![n] = @ \cup {e}]
  /\ UNCHANGED <<vars, read, answer, network, running>>

PeerStops(n) ==
  /\ running[n] /\ running' = [running EXCEPT ![n] = FALSE]
  /\ UNCHANGED <<vars, read, answer, network, saved>>

PeerStarts(n) ==
  /\ ~ running[n] /\ running' = [running EXCEPT ![n] = TRUE]
  /\ UNCHANGED <<vars, read, answer, network, saved>>

\* The caller saves epochs too, but not between two calls of one read that
\* follow each other at once.
Waiting == client \in {"none", "remote"} \/ (client = "asking" /\ Len(index) < ec_k)

SaveRuns == SaveStep /\ UNCHANGED <<read, answer, network, peers>>

NodeRuns ==
  /\ \/ InitErasure
     \/ Waiting /\ \E last \in LastBlocks : SaveChunk(last)
     \/ \E key \in Chunks : DamageRecord(key)
  /\ UNCHANGED <<read, answer, network, peers>>

CallerRuns == ReadLocally \/ TimeOut \/ StartDecode \/ TakeInput \/ EndDecode

ChunkArrives == \E reply \in replies : ReceiveChunk(reply)

ClusterNext ==
  \/ \E b \in Blocks : Ask(b)
  \/ CallerRuns
  \/ ChunkArrives
  \/ \E reply \in replies : ReceiveBlock(reply)
  \/ ServeOwn
  \/ \E n \in Peers : Serve(n)
  \/ \E n \in Peers \ Faulty : \/ PeerStops(n) \/ PeerStarts(n)
                               \/ \E e \in Epochs : PeerSaves(n, e)
  \/ NodeRuns \/ SaveRuns \/ Die

\* A caller goes on with its read, an honest node that runs answers, and the
\* network delivers what it has sent.
ClusterSpec ==
  /\ ClusterInit /\ [][ClusterNext]_cvars
  /\ WF_cvars(SaveRuns) /\ WF_cvars(CallerRuns) /\ WF_cvars(ChunkArrives)
  /\ WF_cvars(ServeOwn) /\ \A n \in Peers \ Faulty : WF_cvars(Serve(n))
-----------------------------------------------------------------------------
ClusterTypeOK ==
  /\ client \in {"none", "local", "remote", "asking", "decoding"}
  /\ block \in IF client = "none" THEN {NoBlock} ELSE Blocks
  /\ index \in Seq(Pos) /\ Len(index) <= ec_k
  /\ receive_data \in Seq(Chunks) /\ Len(receive_data) = Len(index)
  /\ answer \in {NoAnswer} \cup [number : Blocks, value : Chunks \cup {NoValue}, lacking : BOOLEAN]
  /\ requests \subseteq Requests
  /\ replies \subseteq Replies
  /\ saved \in [Peers -> SUBSET Epochs]
  /\ running \in [Peers -> BOOLEAN]

\* The read belongs to a running process, and decode runs for it and no one else.
ReadAndNodeAgree ==
  /\ client # "none" => pc # "down"
  /\ client = "local" => pc = "idle"
  /\ client = "decoding" <=> pc = "decoding"
  /\ client = "decoding" => Len(index) = ec_k /\ <<epoch, pos>> = KeyOf(block)

\* What was collected are chunks of the epoch, at different positions, whatever
\* the nodes sent and however often.
CollectedCorrect ==
  /\ client \in {"none", "local", "remote"} => index = <<>>
  /\ \A x \in DOMAIN index : receive_data[x] = <<KeyOf(block)[1], index[x]>>
  /\ \A x, y \in DOMAIN index : index[x] = index[y] => x = y

\* decode has taken the first of them.
InputsInOrder ==
  client = "decoding" =>
    received = { index[x] : x \in 1 .. Cardinality(received) } /\ Cardinality(received) <= ec_k

\* A request goes to the node that keeps the data of the chunk it asks for: the
\* address computed from the block number, the inverse placement and saveChunk
\* on the other node agree, so no honest answer is ever without data.
AskedNodeHasData ==
  \A request \in requests :
    ChunkSet[request.key[1]][request.key[2]] = SequenceOf(ec_sealers, request.to)

\* A read ends with nothing only if the block has no bytes, or if decode had to do
\* without the block's own chunk: no time-out, wrong answer, damage or restart has
\* the same effect.
NothingIsExplained ==
  answer # NoAnswer /\ answer.value = NoValue =>
    BlockOf(KeyOf(answer.number)) = NoValue \/ answer.lacking

ClusterInv == /\ NodeInv /\ ClusterTypeOK /\ ReadAndNodeAgree /\ CollectedCorrect
              /\ InputsInOrder /\ AskedNodeHasData

\* The cluster is a block store: what a read ends with is the block it asked for,
\* or nothing, through caches, damaged records, liars, late and repeated messages.
Store == INSTANCE BlockStore WITH
           Content <- [b \in Blocks |-> BlockOf(KeyOf(b))],
           Nothing <- NoValue,
           asked   <- block,
           answer  <- IF answer = NoAnswer THEN NoAnswer
                      ELSE [number |-> answer.number, value |-> answer.value]
ImplementsBlockStore == Store!Spec

\* A node that can give the chunk it keeps of epoch e.
CanServe(x, e) ==
  LET n == ec_sealers[x]
      key == <<e, ChunkPosByNode(e)[x]>>
  IN  \/ n \in Peers \ Faulty /\ running[n] /\ e \in saved[n]
      \/ n = ec_nodeid /\ pc # "down" /\ ec_db[key] # NotFound /\ ec_db[key].data = key

\* A read that began comes to an end, whatever the other nodes do, as long as
\* some ec_k nodes keep running and have their chunks.
ReadEnds ==
  \A T \in { S \in SUBSET Pos : Cardinality(S) = ec_k } :
    client # "none" ~> (client = "none" \/ \E x \in T : ~ CanServe(x, KeyOf(block)[1]))
=============================================================================
