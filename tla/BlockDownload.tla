---------------------------- MODULE BlockDownload ----------------------------
(***************************************************************************)
(* Downloading headers and blocks from peers (src/src/net_processing.cpp): *)
(* which peer is asked for the headers, which block is requested from      *)
(* whom, and how a peer that does not deliver is found out and left.       *)
(*                                                                         *)
(* ThreadMessageHandler is one thread: it processes a peer's message and   *)
(* then runs SendMessages for it.  Other threads get in between its locked *)
(* sections: the socket thread finalizes disconnected peers, submitblock   *)
(* stores blocks; both matter while a received block is on its way from    *)
(* the download queue to ProcessNewBlock, which is done without cs_main.   *)
(*                                                                         *)
(* All blocks have the same work, so that chain work is height.  Time is   *)
(* whether a deadline has passed when SendMessages looks.  The chain       *)
(* behind ProcessNewBlock is reduced to what is stored and which tip is    *)
(* active; BlockTree has the details.  Compact blocks, pruned blocks and   *)
(* the eviction of peers on worse chains (a disconnection like any other   *)
(* here) are left out.                                                     *)
(***************************************************************************)
EXTENDS Integers, FiniteSets, FiniteSetsExt, Sequences, SequencesExt, Functions

CONSTANTS
    Peer,           \* the peers
    Prompt,         \* those that stay and answer every request before its deadline
    Best,           \* Best[p]: tip of the chain a prompt peer is on
    Offered,        \* what the other peers may announce and send
    Kinds,          \* Kinds[p]: how p may be connected
    Block, Genesis, \* the blocks there are
    Parent,         \* pprev
    Bad,            \* blocks ConnectBlock refuses; nothing is built on them
    Recent,         \* blocks less than a day old: no longer initial download
    Near,           \* blocks close enough to now for CanDirectFetch
    Submitted,      \* blocks the operator may hand in with submitblock
    None,
    MAX_BLOCKS_IN_TRANSIT_PER_PEER,
    BLOCK_DOWNLOAD_WINDOW,
    MAX_HEADERS_RESULTS,
    nMinimumChainWork,
    MaxConnections  \* bound on the connections each peer makes

\* The blocks from Genesis to b; a block's height is its place on it.
Path[b \in Block] == IF b = Genesis THEN <<b>> ELSE Append(Path[Parent[b]], b)
Chain(b) == Range(Path[b])
Height(b) == Len(Path[b]) - 1
Highest(S) == CHOOSE b \in S : \A x \in S : Height(x) <= Height(b)
Lowest(S) == CHOOSE b \in S : \A x \in S : Height(x) >= Height(b)

\* Every branch goes back to Genesis.
ASSUME TreeAssumption ==
    /\ IsFiniteSet(Block) /\ Genesis \in Block \ Bad
    /\ Parent \in [Block \ {Genesis} -> Block \ Bad]
    /\ \E level \in [Block -> 0 .. Cardinality(Block)] :
          \A b \in Block \ {Genesis} : level[b] = level[Parent[b]] + 1
    /\ IsFiniteSet(Peer) /\ Prompt \subseteq Peer /\ Best \in [Prompt -> Block \ Bad]
    /\ Kinds \in [Peer -> SUBSET {"outbound", "inbound", "whitelisted"}]
    /\ Offered \cup Bad \cup Recent \cup Near \cup Submitted \subseteq Block
ASSUME LimitAssumption ==
    /\ {MAX_BLOCKS_IN_TRANSIT_PER_PEER, BLOCK_DOWNLOAD_WINDOW, MAX_HEADERS_RESULTS} \subseteq Nat \ {0}
    /\ {nMinimumChainWork, MaxConnections} \subseteq Nat

VARIABLES
    net,        \* mapNodeState, mapBlocksInFlight and the counters over all peers
    headers,    \* mapBlockIndex
    bestHeader, \* pindexBestHeader
    stored,     \* the blocks with BLOCK_HAVE_DATA
    failed,     \* the blocks with BLOCK_FAILED_VALID
    tip,        \* chainActive.Tip()
    ibd,        \* IsInitialBlockDownload()
    handling,   \* the BLOCK message between MarkBlockAsReceived and ProcessNewBlock, or None
    connections

tree == <<headers, bestHeader, stored, failed, tip, ibd>>
vars == <<net, tree, handling, connections>>

\* CNodeState, the accounts of all peers, and a BLOCK message in the handler.
Node == [kind : {"outbound", "inbound", "whitelisted"}, ready : BOOLEAN, fDisconnect : BOOLEAN,
         fPreferredDownload : BOOLEAN, pindexBestKnownBlock : Block \cup {None},
         hashLastUnknownBlock : Block \cup {None}, pindexLastCommonBlock : Block \cup {None},
         fSyncStarted : BOOLEAN, nHeadersSyncTimeout : {"off", "armed", "never"},
         asked : Block \cup {None}, stalling : BOOLEAN, vBlocksInFlight : SUBSET Block,
         nBlocksInFlight : Nat]
Net == [nodes : [Peer -> Node \cup {None}], inFlight : UNION {[D -> Peer] : D \in SUBSET Block},
        nSyncStarted : Int, nPreferredDownload : Int, nPeersWithValidatedDownloads : Int]
Message == [from : Peer, block : Block, corrupt : BOOLEAN, force : BOOLEAN]

ASSUME NoneAssumption == None \notin Block \cup Peer \cup Node \cup Message

\* CNodeState of a peer that has just connected.  nHeadersSyncTimeout is off,
\* armed, or pushed to infinity; asked is the last block of the locator in the
\* getheaders message a prompt peer has still to answer.
NewNode(kind) ==
    [kind |-> kind, ready |-> FALSE, fDisconnect |-> FALSE, fPreferredDownload |-> FALSE,
     pindexBestKnownBlock |-> None, hashLastUnknownBlock |-> None, pindexLastCommonBlock |-> None,
     fSyncStarted |-> FALSE, nHeadersSyncTimeout |-> "off", asked |-> None,
     stalling |-> FALSE, vBlocksInFlight |-> {}, nBlocksInFlight |-> 0]

Init ==
    /\ net = [nodes |-> [p \in Peer |-> None], inFlight |-> <<>>,
              nSyncStarted |-> 0, nPreferredDownload |-> 0, nPeersWithValidatedDownloads |-> 0]
    /\ headers = {Genesis} /\ bestHeader = Genesis /\ stored = {Genesis} /\ failed = {}
    /\ tip = Genesis /\ ibd = TRUE
    /\ handling = None /\ connections = [p \in Peer |-> 0]

Connected(n) == {p \in Peer : n.nodes[p] # None}
Served(p) == p \in Connected(net) /\ net.nodes[p].ready /\ ~net.nodes[p].fDisconnect

-----------------------------------------------------------------------------
(* The queue of blocks in flight.                                          *)

MutMarkBlockAsReceived(n, b) ==
    IF b \notin DOMAIN n.inFlight THEN n
    ELSE LET p == n.inFlight[b]
             left == n.nodes[p].nBlocksInFlight - 1
         IN  [n EXCEPT !.nodes[p].vBlocksInFlight = @ \ {b},
                       !.nodes[p].nBlocksInFlight = left,
                       !.inFlight = Restrict(@, DOMAIN @ \ {b}),
                       !.nPeersWithValidatedDownloads = IF left = 0 THEN @ - 1 ELSE @]

\* The block has arrived, from whomever, or is not expected any more.  Every
\* caller of MarkBlockAsInFlight has the header, so that the counter of blocks
\* with validated headers is nBlocksInFlight.
MarkBlockAsReceived(n, b) ==
    IF b \notin DOMAIN n.inFlight THEN n
    ELSE LET p == n.inFlight[b]
             left == n.nodes[p].nBlocksInFlight - 1
         IN  [n EXCEPT !.nodes[p].vBlocksInFlight = @ \ {b},
                       !.nodes[p].nBlocksInFlight = left,
                       !.nodes[p].stalling = FALSE,
                       !.inFlight = Restrict(@, DOMAIN @ \ {b}),
                       !.nPeersWithValidatedDownloads = IF left = 0 THEN @ - 1 ELSE @]

MarkBlockAsInFlight(n, p, b) ==
    IF b \in DOMAIN n.inFlight /\ n.inFlight[b] = p THEN n
    ELSE LET m == MarkBlockAsReceived(n, b)
         IN  [m EXCEPT !.nodes[p].vBlocksInFlight = @ \cup {b},
                       !.nodes[p].nBlocksInFlight = @ + 1,
                       !.inFlight = [x \in DOMAIN @ \cup {b} |-> IF x = b THEN p ELSE @[x]],
                       !.nPeersWithValidatedDownloads =
                           IF m.nodes[p].nBlocksInFlight = 0 THEN @ + 1 ELSE @]

Request(n, p, blocks) == FoldSet(LAMBDA b, m : MarkBlockAsInFlight(m, p, b), n, blocks)

\* The lowest k of the blocks of one chain.
FirstOf(k, blocks) == {b \in blocks : Cardinality({x \in blocks : Height(x) < Height(b)}) < k}

-----------------------------------------------------------------------------
(* What a peer is known to have.                                           *)

AtLeast(known, b) == IF known = None \/ Height(b) >= Height(known) THEN b ELSE known

ProcessBlockAvailability(n, p, index) ==
    LET u == n.nodes[p].hashLastUnknownBlock
    IN  IF u = None \/ u \notin index THEN n
        ELSE [n EXCEPT !.nodes[p].pindexBestKnownBlock = AtLeast(@, u),
                       !.nodes[p].hashLastUnknownBlock = None]

UpdateBlockAvailability(n, p, b, index) ==
    LET m == ProcessBlockAvailability(n, p, index)
    IN  IF b \in index THEN [m EXCEPT !.nodes[p].pindexBestKnownBlock = AtLeast(@, b)]
        ELSE [m EXCEPT !.nodes[p].hashLastUnknownBlock = b]

\* A getheaders message.  Only a prompt peer's answer depends on it: the others
\* may send any headers at any time.
GetHeaders(n, p, b) == IF p \in Prompt THEN [n EXCEPT !.nodes[p].asked = b] ELSE n

-----------------------------------------------------------------------------
(* Connections.                                                            *)

InitializeNode(p, kind) ==
    /\ p \notin Connected(net) /\ connections[p] < MaxConnections
    /\ net' = [net EXCEPT !.nodes[p] = NewNode(kind)]
    /\ connections' = [connections EXCEPT ![p] = @ + 1]
    /\ UNCHANGED <<tree, handling>>

\* The VERSION message, with UpdatePreferredDownload, and the VERACK.
Handshake(p) ==
    /\ handling = None
    /\ p \in Connected(net) /\ ~net.nodes[p].ready /\ ~net.nodes[p].fDisconnect
    /\ LET preferred == net.nodes[p].kind # "inbound"
       IN  net' = [net EXCEPT !.nodes[p].ready = TRUE,
                              !.nodes[p].fPreferredDownload = preferred,
                              !.nPreferredDownload = IF preferred THEN @ + 1 ELSE @]
    /\ UNCHANGED <<tree, handling, connections>>

\* The peer or the network closes the connection, or the node does for a reason
\* of its own: a ban, an eviction, an RPC.
CloseConnection(p) ==
    /\ p \in Connected(net) \ Prompt /\ ~net.nodes[p].fDisconnect
    /\ net' = [net EXCEPT !.nodes[p].fDisconnect = TRUE]
    /\ UNCHANGED <<tree, handling, connections>>

MutFinalized(n, p) ==
    LET node == n.nodes[p]
    IN  [n EXCEPT !.nodes[p] = None,
                  !.inFlight = Restrict(@, DOMAIN @ \ node.vBlocksInFlight),
                  !.nPeersWithValidatedDownloads = IF node.nBlocksInFlight # 0 THEN @ - 1 ELSE @,
                  !.nPreferredDownload = IF node.fPreferredDownload THEN @ - 1 ELSE @]

\* What is left of the accounts without p.
Finalized(n, p) ==
    LET node == n.nodes[p]
    IN  [n EXCEPT !.nodes[p] = None,
                  !.inFlight = Restrict(@, DOMAIN @ \ node.vBlocksInFlight),
                  !.nPeersWithValidatedDownloads = IF node.nBlocksInFlight # 0 THEN @ - 1 ELSE @,
                  !.nPreferredDownload = IF node.fPreferredDownload THEN @ - 1 ELSE @,
                  !.nSyncStarted = IF node.fSyncStarted THEN @ - 1 ELSE @]

\* The socket thread deletes a peer nobody holds a reference to.
FinalizeNode(p) ==
    /\ p \in Connected(net) /\ net.nodes[p].fDisconnect
    /\ handling # None => handling.from # p
    /\ net' = Finalized(net, p)
    /\ UNCHANGED <<tree, handling, connections>>

-----------------------------------------------------------------------------
(* Headers.                                                                *)

\* The blocks ProcessHeadersMessage fetches directly on the way to last; none
\* when the walk back gives up above the active chain.
DirectFetch(n, p, last) ==
    LET path == Chain(last) \ Chain(tip)
        vToFetch == {b \in path \ stored : b \notin DOMAIN n.inFlight}
        large == \E b \in vToFetch :
                    /\ Parent[b] \in path
                    /\ Cardinality({x \in vToFetch : Height(x) >= Height(b)}) > MAX_BLOCKS_IN_TRANSIT_PER_PEER
    IN  IF tip \in Near /\ Height(tip) <= Height(last) /\ ~large
        THEN FirstOf(MAX_BLOCKS_IN_TRANSIT_PER_PEER - n.nodes[p].nBlocksInFlight, vToFetch)
        ELSE {}

\* A peer on a chain with too little work is no help in the initial download.
TooLittleWork(n, p, count) ==
    /\ ibd /\ count # MAX_HEADERS_RESULTS /\ n.nodes[p].kind = "outbound"
    /\ Height(n.nodes[p].pindexBestKnownBlock) < nMinimumChainWork

\* ProcessHeadersMessage for the headers run, each the parent of the next.
ProcessHeaders(n, p, run) ==
    LET last == Last(run)
        index == headers \cup (ToSet(run) \ failed)
        connects == run[1] \in headers \/ Parent[run[1]] \in headers
        n1 == UpdateBlockAvailability(n, p, last, index)
        n2 == IF Len(run) = MAX_HEADERS_RESULTS THEN GetHeaders(n1, p, last) ELSE n1
        n3 == Request(n2, p, DirectFetch(n2, p, last))
    IN  IF ~connects
        THEN /\ net' = UpdateBlockAvailability(GetHeaders(n, p, bestHeader), p, last, headers)
             /\ UNCHANGED tree
        ELSE /\ headers' = index
             /\ bestHeader' = LET b == Highest(index) IN IF Height(b) > Height(bestHeader) THEN b ELSE bestHeader
             /\ net' = IF last \in failed
                       THEN [n EXCEPT !.nodes[p].fDisconnect = n.nodes[p].kind = "outbound"]
                       ELSE [n3 EXCEPT !.nodes[p].fDisconnect = TooLittleWork(n3, p, Len(run))]
             /\ UNCHANGED <<stored, failed, tip, ibd>>

\* A peer that is not prompt sends any headers that hang together.
Runs == {SubSeq(Path[b], i, Height(b) + 1) : b \in Offered, i \in 2..Cardinality(Block)} \ {<<>>}

RecvHeaders(p) ==
    /\ handling = None /\ Served(p) /\ p \notin Prompt
    /\ \E run \in Runs : Len(run) <= MAX_HEADERS_RESULTS /\ ProcessHeaders(net, p, run)
    /\ UNCHANGED <<handling, connections>>

\* A prompt peer sends what follows the locator on its chain, perhaps nothing.
AnswerGetHeaders(p) ==
    /\ handling = None /\ Served(p) /\ p \in Prompt /\ net.nodes[p].asked # None
    /\ LET n == [net EXCEPT !.nodes[p].asked = None]
           fork == Height(Highest(Chain(net.nodes[p].asked) \cap Chain(Best[p])))
           upTo == Min({Height(Best[p]), fork + MAX_HEADERS_RESULTS})
           run == SubSeq(Path[Best[p]], fork + 2, upTo + 1)
       IN  IF run = <<>> THEN net' = n /\ UNCHANGED tree ELSE ProcessHeaders(n, p, run)
    /\ UNCHANGED <<handling, connections>>

\* An INV for a block: the headers up to it are asked for if it is new.
RecvInv(p) ==
    /\ handling = None /\ Served(p)
    /\ \E b \in IF p \in Prompt THEN {Best[p]} ELSE Offered :
          LET n == UpdateBlockAvailability(net, p, b, headers)
          IN  net' = IF b \in headers \/ b \in DOMAIN n.inFlight THEN n ELSE GetHeaders(n, p, bestHeader)
    /\ UNCHANGED <<tree, handling, connections>>

-----------------------------------------------------------------------------
(* Blocks.                                                                 *)

\* The blocks with nChainTx: stored, with all their ancestors.
Linked(s) == {b \in s : Chain(b) \subseteq s}

\* AcceptBlock and ActivateBestChain.  Among blocks of the same work the first
\* to arrive is tried first; the order is not kept, so either may have been.
ProcessNewBlock(b, force) ==
    IF Parent[b] \notin headers \/ b \in failed THEN UNCHANGED tree
    ELSE LET enough == Height(b) > Height(tip) /\ Height(b) >= nMinimumChainWork
             have == IF force \/ enough THEN stored \cup {b} ELSE stored
             better == {x \in Linked(have) \ Bad : Height(x) > Height(tip)}
             tried(t) == {x \in Linked(have) \cap Bad : Height(x) > Height(t)}
             tied(t) == {x \in Linked(have) \cap Bad : t # tip /\ Height(x) = Height(t)}
         IN  /\ headers' = headers \cup {b}
             /\ bestHeader' = IF Height(b) > Height(bestHeader) THEN b ELSE bestHeader
             /\ stored' = have
             /\ \E t \in IF better = {} THEN {tip} ELSE {x \in better : \A y \in better : Height(y) <= Height(x)} :
                   /\ tip' = t
                   /\ ibd' = (ibd /\ ~(t \in Recent /\ Height(t) >= nMinimumChainWork))
                   /\ \E first \in SUBSET tied(t) : failed' = failed \cup tried(t) \cup first

\* A BLOCK message: a prompt peer sends what it was asked for, another any block
\* at any time, perhaps corrupted.  A whitelisted peer, which is never banned,
\* is trusted not to corrupt blocks: it would be asked again every time.
RecvBlock(p) ==
    /\ handling = None /\ Served(p)
    /\ \E b \in IF p \in Prompt THEN net.nodes[p].vBlocksInFlight ELSE Offered, corrupt \in BOOLEAN :
          /\ corrupt => p \notin Prompt /\ net.nodes[p].kind # "whitelisted"
          /\ handling' = [from |-> p, block |-> b, corrupt |-> corrupt, force |-> b \in DOMAIN net.inFlight]
          /\ net' = MarkBlockAsReceived(net, b)
    /\ UNCHANGED <<tree, connections>>

\* ProcessNewBlock for it.  A corrupted block fails CheckBlock, and its sender
\* is banned.
FinishBlock ==
    /\ handling # None
    /\ handling' = None
    /\ IF handling.corrupt
       THEN net' = [net EXCEPT !.nodes[handling.from].fDisconnect = TRUE] /\ UNCHANGED tree
       ELSE ProcessNewBlock(handling.block, handling.force) /\ UNCHANGED net
    /\ UNCHANGED connections

\* submitblock, in an RPC thread, stores a block whether or not it is in flight.
SubmitBlock ==
    /\ \E b \in Submitted \ stored : ProcessNewBlock(b, TRUE)
    /\ UNCHANGED <<net, handling, connections>>

-----------------------------------------------------------------------------
(* SendMessages.                                                           *)

\* fFetch: a preferred peer, or any if there is none.
Fetches(n, p) == n.nodes[p].fPreferredDownload \/ n.nPreferredDownload = 0

\* Start the headers synchronisation: with one peer, or with all near the end.
StartSync(n, p) ==
    IF ~n.nodes[p].fSyncStarted /\ ((n.nSyncStarted = 0 /\ Fetches(n, p)) \/ bestHeader \in Recent)
    THEN LET m == [n EXCEPT !.nodes[p].fSyncStarted = TRUE, !.nodes[p].nHeadersSyncTimeout = "armed",
                            !.nSyncStarted = @ + 1]
         IN  GetHeaders(m, p, IF bestHeader = Genesis THEN Genesis ELSE Parent[bestHeader])
    ELSE n

MutTimedOut(n, p, late) == n.nodes[p].stalling /\ "stall" \in late

\* The checks for a peer that stalls the window or sits on a block.
TimedOut(n, p, late) ==
    \/ n.nodes[p].stalling /\ "stall" \in late
    \/ n.nodes[p].vBlocksInFlight # {} /\ "block" \in late

\* The only headers peer is too slow, and another could be used.
HeadersLate(n, p, late) ==
    /\ n.nodes[p].fSyncStarted /\ n.nodes[p].nHeadersSyncTimeout = "armed"
    /\ bestHeader \notin Recent /\ "headers" \in late /\ n.nSyncStarted = 1
    /\ n.nPreferredDownload - (IF n.nodes[p].fPreferredDownload THEN 1 ELSE 0) >= 1

AfterHeadersCheck(n, p, late) ==
    IF HeadersLate(n, p, late)
    THEN [n EXCEPT !.nodes[p].fSyncStarted = FALSE, !.nSyncStarted = @ - 1, !.nodes[p].nHeadersSyncTimeout = "off"]
    ELSE IF n.nodes[p].fSyncStarted /\ bestHeader \in Recent
    THEN [n EXCEPT !.nodes[p].nHeadersSyncTimeout = "never"]
    ELSE n

MutNewCommon(have, last) == Highest(have \cup {last})

\* pindexLastCommonBlock moves up over the blocks that are linked.
NewCommon(have, last) == Highest((have \cap Linked(stored)) \cup {last})

\* FindNextBlocksToDownload: what to fetch from p, who holds up the window, and
\* the last block in common.
FindNextBlocksToDownload(n, p) ==
    LET known == n.nodes[p].pindexBestKnownBlock
        common == n.nodes[p].pindexLastCommonBlock
        guess == IF common # None THEN common ELSE Path[tip][Min({Height(known), Height(tip)}) + 1]
        last == Highest(Chain(guess) \cap Chain(known))
        nWindowEnd == Height(last) + BLOCK_DOWNLOAD_WINDOW
        walk == {b \in Chain(known) \ Chain(last) :
                    Height(b) <= nWindowEnd + 1 /\ Chain(b) \cap failed = {}}
        have == walk \cap (stored \cup Chain(tip))
        wanted == {b \in walk \ have : b \notin DOMAIN n.inFlight}
        fetch == FirstOf(MAX_BLOCKS_IN_TRANSIT_PER_PEER - n.nodes[p].nBlocksInFlight,
                         {b \in wanted : Height(b) <= nWindowEnd})
        waiting == (walk \ have) \cap DOMAIN n.inFlight
        blocked == fetch = {} /\ wanted # {} /\ waiting # {}
    IN  [fetch |-> fetch,
         staller |-> IF blocked /\ n.inFlight[Lowest(waiting)] # p THEN n.inFlight[Lowest(waiting)] ELSE None,
         common |-> NewCommon(have, last)]

\* The getdata for blocks at the end of SendMessages.
GetData(n, p) ==
    LET known == n.nodes[p].pindexBestKnownBlock
        next == FindNextBlocksToDownload(n, p)
        m == [Request(n, p, next.fetch) EXCEPT !.nodes[p].pindexLastCommonBlock = next.common]
    IN  IF \/ ~(Fetches(n, p) \/ ~ibd) \/ n.nodes[p].nBlocksInFlight >= MAX_BLOCKS_IN_TRANSIT_PER_PEER
           \/ known = None \/ Height(known) < Height(tip) \/ Height(known) < nMinimumChainWork
        THEN n
        ELSE IF m.nodes[p].nBlocksInFlight = 0 /\ next.staller # None
        THEN [m EXCEPT !.nodes[next.staller].stalling = TRUE]
        ELSE m

\* What SendMessages for p makes of the accounts when the deadlines late have
\* passed.
Sent(p, late) ==
    LET n1 == ProcessBlockAvailability(StartSync(net, p), p, headers)
        n2 == AfterHeadersCheck(n1, p, late)
    IN  IF TimedOut(n1, p, late) \/ (HeadersLate(n1, p, late) /\ n1.nodes[p].kind # "whitelisted")
        THEN [n1 EXCEPT !.nodes[p].fDisconnect = TRUE]
        ELSE GetData(n2, p)

\* No deadline passes for a prompt peer.
SendMessages(p, late) ==
    /\ handling = None /\ Served(p)
    /\ p \in Prompt => late = {}
    /\ net' = Sent(p, late)
    /\ UNCHANGED <<tree, handling, connections>>

Deadline == {"stall", "block", "headers"}

Next ==
    \/ \E p \in Peer : \E kind \in Kinds[p] : InitializeNode(p, kind)
    \/ \E p \in Peer : \/ Handshake(p) \/ CloseConnection(p) \/ FinalizeNode(p)
                       \/ RecvHeaders(p) \/ AnswerGetHeaders(p) \/ RecvInv(p) \/ RecvBlock(p)
    \/ \E p \in Peer, late \in SUBSET Deadline : SendMessages(p, late)
    \/ FinishBlock \/ SubmitBlock

\* The message handler visits every peer in every round, whatever the others
\* keep it busy with (hence strong fairness), and deadlines pass; the socket
\* thread deletes what is disconnected; a prompt peer connects and answers.  The
\* first two are SF_vars of the action, with its enabling condition written out.
Due(p) == IF p \in Prompt THEN {} ELSE Deadline
Fairness ==
    /\ \A p \in Peer :
          []<>(handling = None /\ Served(p) /\ Sent(p, Due(p)) # net) => []<><<SendMessages(p, Due(p))>>_vars
    /\ \A p \in Prompt :
          []<>(handling = None /\ Served(p) /\ net.nodes[p].asked # None) => []<><<AnswerGetHeaders(p)>>_vars
    /\ \A p \in Prompt : /\ WF_vars(\E kind \in Kinds[p] : InitializeNode(p, kind))
                         /\ SF_vars(Handshake(p))
                         /\ SF_vars(RecvBlock(p))
    /\ \A p \in Peer : WF_vars(FinalizeNode(p))
    /\ WF_vars(FinishBlock)

Spec == Init /\ [][Next]_vars /\ Fairness

-----------------------------------------------------------------------------
(* Properties.                                                             *)

\* The peers' state, the tree and the message in the handler have their types.
TypeOK ==
    /\ net \in Net
    /\ {headers, stored, failed} \subseteq SUBSET Block
    /\ {bestHeader, tip} \subseteq Block
    /\ ibd \in BOOLEAN
    /\ handling \in Message \cup {None}
    /\ connections \in [Peer -> 0 .. MaxConnections]

\* mapBlocksInFlight and the peers' queues say the same, no queue exceeds
\* MAX_BLOCKS_IN_TRANSIT_PER_PEER, and the four counters kept beside them count
\* what their comments say, whoever connects, is served and is deleted in
\* whatever order.  The asserts of FinalizeNode (net_processing.cpp:572-583), the
\* look-up of the staller in SendMessages and every download timeout rest on it.
AccountsExact ==
    LET node(p) == net.nodes[p]
    IN  /\ \A b \in DOMAIN net.inFlight :
              net.inFlight[b] \in Connected(net) /\ b \in node(net.inFlight[b]).vBlocksInFlight
        /\ \A p \in Connected(net) :
              /\ \A b \in node(p).vBlocksInFlight : b \in DOMAIN net.inFlight /\ net.inFlight[b] = p
              /\ node(p).nBlocksInFlight = Cardinality(node(p).vBlocksInFlight)
              /\ node(p).nBlocksInFlight <= MAX_BLOCKS_IN_TRANSIT_PER_PEER
        /\ net.nPeersWithValidatedDownloads = Cardinality({p \in Connected(net) : node(p).vBlocksInFlight # {}})
        /\ net.nPreferredDownload = Cardinality({p \in Connected(net) : node(p).fPreferredDownload})
        /\ net.nSyncStarted = Cardinality({p \in Connected(net) : node(p).fSyncStarted})

\* A peer is under the two-second stalling deadline only while it still owes a
\* block: a peer that delivered, or whose block came from somebody else, is not
\* disconnected for it (nStallingSince, net_processing.cpp:310 and 3732).
StallersOwe == \A p \in Connected(net) : net.nodes[p].stalling => net.nodes[p].vBlocksInFlight # {}

\* pindexLastCommonBlock is "the last full block we both have": no block below
\* it is missing, or the missing one would never be requested again
\* (net_processing.cpp:507-509).
LastCommonLinked ==
    \A p \in Connected(net) :
        LET c == net.nodes[p].pindexLastCommonBlock IN c # None => Chain(c) \subseteq stored

\* With one peer that stays and answers, the node reaches the end of its chain,
\* whatever the others send, hold back or leave unfinished (the stalling,
\* block and headers timeouts of SendMessages, net_processing.cpp:3656-3712).
Synced == \A p \in Prompt : <>(Height(tip) >= Height(Best[p]))

=============================================================================
