--------------------------- MODULE BlockDownload ---------------------------
(***************************************************************************)
(* The download of blocks from peers: BlockDownloadTracker                 *)
(* (net/block_download_tracker.cpp) and the message handlers of            *)
(* net_processing.cpp that use it.                                         *)
(*                                                                         *)
(* Blocks are the heights of one chain of headers that is known already.   *)
(* Handlers run in the message handler thread, one at a time, and each is  *)
(* one action; a request of several blocks is several steps.  FinalizeNode *)
(* runs in the socket thread, when no handler uses the peer.  BlockChecked *)
(* runs in the threads that validate blocks: it reads the senders of the   *)
(* block under the tracker's mutex, and takes the mutex again for each of  *)
(* them.  Time is left out: a download may be found slow or too slow at    *)
(* any time.  The active chain follows the stored blocks at once, and the  *)
(* best block of no peer has less work than its tip or nMinimumChainWork.  *)
(***************************************************************************)
EXTENDS Integers, Sequences, FiniteSets, Functions

CONSTANTS
  Peers,
  Reliable,            \* peers that stay connected and answer
  ProvidesCompact,     \* peers that support compact blocks
  Length,              \* blocks 1 .. Length
  Invalid,             \* blocks that are not valid
  Checkers,            \* threads that validate
  MaxInTransit,        \* MAX_BLOCKS_IN_TRANSIT_PER_PEER
  Window,              \* GetBlockDownloadWindow()
  LowerWindow,         \* GetBlockDownloadLowerWindow()
  MaxParallelFetch,    \* GetBlockDownloadMaxParallelFetch()
  MaxAnnouncing,       \* 3 in the code
  MaxRecords,          \* bound on the sender records of a peer
  MaxFailures          \* bound on the downloads that fail with the peer staying

Blocks == 1 .. Length

ASSUME DownloadConstants ==
  /\ IsFiniteSet(Peers) /\ Reliable \subseteq Peers /\ ProvidesCompact \subseteq Peers
  /\ Length \in Nat \ {0} /\ Invalid \subseteq Blocks
  /\ {MaxInTransit, Window, LowerWindow, MaxParallelFetch, MaxAnnouncing, MaxRecords} \subseteq Nat \ {0}
  /\ MaxFailures \in Nat

VARIABLES
  status,           \* of a peer: new, up, closing (fDisconnect), leaving (out of vNodes), gone
  vBlocksInFlight,  \* per peer: sequence of blocks
  nBlocksInFlight,
  nValidHeaders,    \* nBlocksInFlightValidHeaders
  partialBlock,     \* per peer: queued blocks with a partially downloaded block
  stalling,         \* peers with nStallingSince
  mMapBlocksInFlight,   \* set of [block, node]
  mPeersWithValidatedDownloadsCount,
  mMapBlockSender,      \* sequence of [block, node, punish]
  mNodesAnnouncing,     \* mNodesAnnouncingHeaderAndIDs
  told,             \* peers whose last sendcmpct message asked for announcements
  hasData,          \* blocks stored
  arrived,          \* blocks handed to validation
  failures,         \* downloads that failed with the peer staying
  check             \* per checker: [block, sources], sources still to visit

peerVars == <<vBlocksInFlight, nBlocksInFlight, nValidHeaders, partialBlock, stalling>>
flightVars == <<peerVars, mMapBlocksInFlight, mPeersWithValidatedDownloadsCount>>
announceVars == <<mNodesAnnouncing, told>>
downloadVars ==
  <<status, flightVars, mMapBlockSender, announceVars, hasData, arrived, failures, check>>

Idle == [block |-> 0, sources |-> <<>>]

DownloadInit ==
  /\ status = [n \in Peers |-> "new"]
  /\ vBlocksInFlight = [n \in Peers |-> <<>>]
  /\ nBlocksInFlight = [n \in Peers |-> 0]
  /\ nValidHeaders = [n \in Peers |-> 0]
  /\ partialBlock = [n \in Peers |-> {}]
  /\ stalling = {}
  /\ mMapBlocksInFlight = {}
  /\ mPeersWithValidatedDownloadsCount = 0
  /\ mMapBlockSender = <<>>
  /\ mNodesAnnouncing = <<>> /\ told = {}
  /\ hasData = {} /\ arrived = {} /\ failures = 0
  /\ check = [c \in Checkers |-> Idle]

HasState(n) == status[n] \in {"up", "closing", "leaving"}
Source(b, n) == [block |-> b, node |-> n]
Sources(b) == {n \in Peers : Source(b, n) \in mMapBlocksInFlight}
InFlight(b) == Sources(b) # {}

\* A list after the members of a set have been erased from it.
Without(s, erased) ==
  LET left[i \in 0 .. Len(s)] ==
        IF i = 0 THEN <<>>
        ELSE IF s[i] \in erased THEN left[i - 1] ELSE Append(left[i - 1], s[i])
  IN  left[Len(s)]
----------------------------------------------------------------------------
(* BlockDownloadTracker.                                                   *)

\* The same block from the same node: nothing more to track.
FromNode(b, n) == Source(b, n) \in mMapBlocksInFlight

MarkBlockAsInFlight(b, n) ==
  IF FromNode(b, n)
  THEN UNCHANGED <<vBlocksInFlight, nBlocksInFlight, nValidHeaders,
                   mMapBlocksInFlight, mPeersWithValidatedDownloadsCount>>
  ELSE /\ vBlocksInFlight' = [vBlocksInFlight EXCEPT ![n] = Append(@, b)]
       /\ nBlocksInFlight' = [nBlocksInFlight EXCEPT ![n] = @ + 1]
       /\ nValidHeaders' = [nValidHeaders EXCEPT ![n] = @ + 1]
       /\ mPeersWithValidatedDownloadsCount' =
            mPeersWithValidatedDownloadsCount + (IF nValidHeaders[n] = 0 THEN 1 ELSE 0)
       /\ mMapBlocksInFlight' = mMapBlocksInFlight \cup {Source(b, n)}

\* removeFromBlockMapNL for the blocks of a set, all tracked for node n
RemoveFromBlockMap(bs, n) ==
  LET found == {b \in bs : Source(b, n) \in mMapBlocksInFlight}
      k == Cardinality(found)
  IN  /\ vBlocksInFlight' = [vBlocksInFlight EXCEPT ![n] = Without(@, found)]
      /\ nBlocksInFlight' = [nBlocksInFlight EXCEPT ![n] = @ - k]
      /\ nValidHeaders' = [nValidHeaders EXCEPT ![n] = @ - k]
      /\ partialBlock' = [partialBlock EXCEPT ![n] = @ \ found]
      /\ stalling' = IF found = {} THEN stalling ELSE stalling \ {n}
      /\ mPeersWithValidatedDownloadsCount' =
           mPeersWithValidatedDownloadsCount
             - (IF k > 0 /\ nValidHeaders[n] = k THEN 1 ELSE 0)
      /\ mMapBlocksInFlight' = mMapBlocksInFlight \ {Source(b, n) : b \in found}

MarkBlockAsFailed(b, n) == RemoveFromBlockMap({b}, n) /\ UNCHANGED mMapBlockSender

MarkBlockAsReceived(b, n, punish) ==
  /\ RemoveFromBlockMap({b}, n)
  /\ mMapBlockSender' = Append(mMapBlockSender, [block |-> b, node |-> n, punish |-> punish])

\* A mutant: the records of what the peer sent are left behind.
KeepsSenders(n) == mMapBlockSender

\* What ClearPeer leaves of the sender records.
SendersWithout(n) == Without(mMapBlockSender, {r \in Range(mMapBlockSender) : r.node = n})

\* The peer's own state is thrown away with the peer.
ClearPeer(n) ==
  /\ mMapBlocksInFlight' =
       mMapBlocksInFlight \ {Source(vBlocksInFlight[n][i], n) : i \in DOMAIN vBlocksInFlight[n]}
  /\ mPeersWithValidatedDownloadsCount' =
       mPeersWithValidatedDownloadsCount - (IF nValidHeaders[n] # 0 THEN 1 ELSE 0)
  /\ mMapBlockSender' = SendersWithout(n)
  /\ vBlocksInFlight' = [vBlocksInFlight EXCEPT ![n] = <<>>]
  /\ nBlocksInFlight' = [nBlocksInFlight EXCEPT ![n] = 0]
  /\ nValidHeaders' = [nValidHeaders EXCEPT ![n] = 0]
  /\ partialBlock' = [partialBlock EXCEPT ![n] = {}]
  /\ stalling' = stalling \ {n}
----------------------------------------------------------------------------
(* Peers come and go.                                                      *)

InitializeNode(n) ==
  /\ status[n] = "new"
  /\ status' = [status EXCEPT ![n] = "up"]
  /\ UNCHANGED <<flightVars, mMapBlockSender, announceVars, hasData, arrived, failures, check>>

\* The peer or the user closes the connection; the code in other places does.
Disconnect(n) ==
  /\ status[n] = "up" /\ n \notin Reliable
  /\ status' = [status EXCEPT ![n] = "closing"]
  /\ UNCHANGED <<flightVars, mMapBlockSender, announceVars, hasData, arrived, failures, check>>

\* A stall may have lasted too long, or the download of the first block.
MayBeSlow(n) == n \in stalling \/ vBlocksInFlight[n] # <<>>

DetectStalling(n) ==
  /\ status[n] = "up" /\ n \notin Reliable
  /\ MayBeSlow(n)
  /\ status' = [status EXCEPT ![n] = "closing"]
  /\ UNCHANGED <<flightVars, mMapBlockSender, announceVars, hasData, arrived, failures, check>>

\* ThreadSocketHandler takes the peer out of vNodes ...
RemoveFromNodes(n) ==
  /\ status[n] = "closing"
  /\ status' = [status EXCEPT ![n] = "leaving"]
  /\ UNCHANGED <<flightVars, mMapBlockSender, announceVars, hasData, arrived, failures, check>>

\* ... and deletes it when no one uses it any more.
FinalizeNode(n) ==
  /\ status[n] = "leaving"
  /\ status' = [status EXCEPT ![n] = "gone"]
  /\ ClearPeer(n)
  /\ UNCHANGED <<announceVars, hasData, arrived, failures, check>>
----------------------------------------------------------------------------
(* Requests.                                                               *)

\* pindexLastCommonBlock: all blocks up to it are there.
LastCommon == Cardinality({b \in Blocks : 1 .. b \subseteq hasData})
InWindow(b) == b <= LastCommon + Window

\* nDownloadHeightThreshold limits how far blocks are stored ahead of the tip.
ActiveHeight == Cardinality({b \in Blocks : 1 .. b \subseteq hasData \ Invalid})
BelowThreshold(b) == b <= ActiveHeight + LowerWindow

\* All peers the block was requested from are slow (those that are not in
\* vNodes do not count), and they are not too many.
MayAlsoFetch(b) ==
  Cardinality({m \in Sources(b) : status[m] # "leaving"}) < MaxParallelFetch

\* The chain a peer has announced; a reliable one has no invalid blocks.
KnownBy(n) == IF n \in Reliable THEN Blocks \ Invalid ELSE Blocks

\* A mutant: an invalid block anywhere ends the walk.
NothingInvalid(b) == arrived \cap Invalid = {}

\* The walk towards the peer's best block ends at one that is known to be invalid.
BeforeInvalid(b) == (1 .. b) \cap arrived \cap Invalid = {}

\* Blocks FindNextBlocksToDownload goes through, up to the first one known to
\* be invalid: the ones that no one was asked for, and the first one that
\* others were asked for, if they are found slow.
Missing(n) == {b \in KnownBy(n) \ hasData : BeforeInvalid(b)}
NotAskedFor(n) == {b \in Missing(n) : ~InFlight(b)}
Wanted(n) ==
  LET missing == Missing(n)
      asked == {b \in missing : InFlight(b)}
      first == {b \in asked : \A a \in asked : b <= a}
  IN  (missing \ asked) \cup {b \in first : ~FromNode(b, n) /\ MayAlsoFetch(b)}

\* SendGetDataBlocks, and the direct fetch of ProcessHeadersMessage.
RequestBlock(n) ==
  /\ status[n] = "up" /\ nBlocksInFlight[n] < MaxInTransit
  /\ LET wanted == Wanted(n) IN
     \E b \in wanted :
       /\ InWindow(b) /\ BelowThreshold(b)
       /\ \A a \in wanted : a < b => InFlight(a)
       /\ MarkBlockAsInFlight(b, n)
  /\ UNCHANGED <<status, partialBlock, stalling, mMapBlockSender, announceVars, hasData, arrived, failures, check>>

\* Nothing can be requested before the window moves by one, and no one is found
\* slow: a peer that was asked for the first missing block is stalling.
StallStarts(n) ==
  /\ status[n] = "up" /\ nBlocksInFlight[n] = 0
  /\ LastCommon + Window + 1 \in NotAskedFor(n)
  /\ \A b \in NotAskedFor(n) : ~InWindow(b)
  /\ \E m \in Sources(LastCommon + 1) : m # n /\ stalling' = stalling \cup {m}
  /\ UNCHANGED <<status, vBlocksInFlight, nBlocksInFlight, nValidHeaders, partialBlock,
                 mMapBlocksInFlight, mPeersWithValidatedDownloadsCount,
                 mMapBlockSender, announceVars, hasData, arrived, failures, check>>

\* A reject message with REJECT_TOOBUSY: nothing is expected from the peer.
PeerTooBusy(n) ==
  /\ status[n] = "up" /\ n \notin Reliable
  /\ RemoveFromBlockMap({vBlocksInFlight[n][i] : i \in DOMAIN vBlocksInFlight[n]}, n)
  /\ failures < MaxFailures /\ failures' = failures + 1
  /\ UNCHANGED <<status, mMapBlockSender, announceVars, hasData, arrived, check>>
----------------------------------------------------------------------------
(* Blocks arrive.                                                          *)

\* ProcessNewBlock: a valid block is stored, an invalid one may be.
ToValidation(b) ==
  /\ arrived' = arrived \cup {b}
  /\ hasData' \in {hasData \cup {b}} \cup (IF b \in Invalid THEN {hasData} ELSE {})

\* A bound on what a peer sends, except for what a reliable one was asked for.
RoomForRecord(n, b) ==
  (n \in Reliable /\ FromNode(b, n)) \/ Len(SelectSeq(mMapBlockSender, LAMBDA r : r.node = n)) < MaxRecords

ProcessBlockMessage(n, b) ==
  /\ status[n] = "up" /\ RoomForRecord(n, b)
  /\ MarkBlockAsReceived(b, n, TRUE)
  /\ ToValidation(b)
  /\ UNCHANGED <<status, announceVars, failures, check>>

\* A compact block.  It is not needed, or its header is refused ...
CompactNotNeeded(n, b) ==
  /\ status[n] = "up"
  /\ b \in hasData \cup Invalid
  /\ MarkBlockAsFailed(b, n)
  /\ UNCHANGED <<status, announceVars, hasData, arrived, failures, check>>

\* ... or the peer may be asked for the missing transactions, or for the block
\* if InitData failed by chance; FillInvalid and BlockFilled follow at once if
\* InitData refuses or nothing is missing ...
MayFill(n, b) == (~InFlight(b) /\ nBlocksInFlight[n] < MaxInTransit) \/ FromNode(b, n)

CompactTracked(n, b) ==
  /\ status[n] = "up" /\ b \notin hasData /\ MayFill(n, b) /\ b \notin partialBlock[n]
  /\ MarkBlockAsInFlight(b, n)
  /\ partialBlock' = [partialBlock EXCEPT ![n] = @ \cup {b}]
  /\ UNCHANGED <<status, stalling, mMapBlockSender, announceVars, hasData, arrived, failures, check>>

\* ... or it is put together without asking.
CompactReconstructed(n, b) ==
  /\ status[n] = "up" /\ b \notin hasData /\ ~MayFill(n, b) /\ RoomForRecord(n, b)
  /\ MarkBlockAsReceived(b, n, FALSE)
  /\ ToValidation(b)
  /\ UNCHANGED <<status, announceVars, failures, check>>

\* ProcessBlockTxnMessage: the transactions do not fit, or the block is there;
\* when they collided the whole block is requested and stays in flight.
FillInvalid(n, b) ==
  /\ status[n] = "up" /\ b \in partialBlock[n] /\ n \notin Reliable
  /\ MarkBlockAsFailed(b, n)
  /\ status' \in {status, [status EXCEPT ![n] = "closing"]}
  /\ failures < MaxFailures /\ failures' = failures + 1
  /\ UNCHANGED <<announceVars, hasData, arrived, check>>

BlockFilled(n, b) ==
  /\ status[n] = "up" /\ b \in partialBlock[n] /\ RoomForRecord(n, b)
  /\ MarkBlockAsReceived(b, n, FALSE)
  /\ ToValidation(b)
  /\ UNCHANGED <<status, announceVars, failures, check>>
----------------------------------------------------------------------------
(* BlockChecked.                                                           *)

\* getAllSourcesForBlockNL: a node is there as often as it sent the block.
BlockChecked(c) ==
  /\ check[c] = Idle
  /\ \E b \in arrived :
       LET sent == SelectSeq(mMapBlockSender, LAMBDA r : r.block = b)
       IN  /\ sent # <<>>
           /\ check' = [check EXCEPT ![c] = [block |-> b, sources |-> [i \in DOMAIN sent |-> sent[i].node]]]
  /\ UNCHANGED <<status, flightVars, mMapBlockSender, announceVars, hasData, arrived, failures>>

UniqueBlockCount == Cardinality({s.block : s \in mMapBlocksInFlight})

\* A mutant: the peer that is given up is not told.
DropsSilently(n) ==
  /\ mNodesAnnouncing' = Append(Tail(mNodesAnnouncing), n)
  /\ told' = told \cup {n}

\* The longest-serving one is told to stop, then node n takes its place.
ReplaceAnnouncing(n) ==
  /\ mNodesAnnouncing' = Append(Tail(mNodesAnnouncing), n)
  /\ told' = (told \ {Head(mNodesAnnouncing)}) \cup {n}

\* maybeSetPeerAsAnnouncingHeaderAndIDsNL
MaybeSetPeerAsAnnouncing(n) ==
  IF n \notin ProvidesCompact \/ ~HasState(n) THEN UNCHANGED announceVars
  ELSE IF n \in Range(mNodesAnnouncing)
  THEN /\ mNodesAnnouncing' = Append(Without(mNodesAnnouncing, {n}), n)
       /\ UNCHANGED told
  ELSE IF status[n] # "up" THEN UNCHANGED announceVars
  ELSE IF Len(mNodesAnnouncing) >= MaxAnnouncing THEN ReplaceAnnouncing(n)
  ELSE mNodesAnnouncing' = Append(mNodesAnnouncing, n) /\ told' = told \cup {n}

\* A list without its member at place i.
RemovedAt(s, i) == SubSeq(s, 1, i - 1) \o SubSeq(s, i + 1, Len(s))

\* One round of BlockChecked's loop: the first record of the block and the
\* node, if it is still there, is acted on and removed.  The initial block
\* download may be over or not.
CheckSource(c) ==
  LET b == check[c].block
      n == Head(check[c].sources)
      mine == {i \in DOMAIN mMapBlockSender : mMapBlockSender[i].block = b /\ mMapBlockSender[i].node = n}
      first == CHOOSE i \in mine : \A j \in mine : i <= j
  IN  /\ check[c].sources # <<>>
      /\ check' = [check EXCEPT ![c] = IF Len(@.sources) = 1 THEN Idle ELSE [@ EXCEPT !.sources = Tail(@)]]
      /\ IF mine = {}
         THEN UNCHANGED <<status, mMapBlockSender, announceVars>>
         ELSE /\ mMapBlockSender' = RemovedAt(mMapBlockSender, first)
              /\ \/ /\ b \in Invalid
                    /\ status' \in {status} \cup
                         (IF mMapBlockSender[first].punish /\ status[n] = "up" /\ n \notin Reliable
                          THEN {[status EXCEPT ![n] = "closing"]} ELSE {})
                    /\ UNCHANGED announceVars
                 \/ /\ b \notin Invalid
                    /\ \E isIBD \in BOOLEAN :
                         IF ~isIBD /\ InFlight(b) /\ UniqueBlockCount = 1
                         THEN MaybeSetPeerAsAnnouncing(n)
                         ELSE UNCHANGED announceVars
                    /\ UNCHANGED status
      /\ UNCHANGED <<flightVars, hasData, arrived, failures>>
----------------------------------------------------------------------------
DownloadNext ==
  \/ \E n \in Peers :
       \/ InitializeNode(n) \/ Disconnect(n) \/ DetectStalling(n) \/ RemoveFromNodes(n) \/ FinalizeNode(n)
       \/ RequestBlock(n) \/ StallStarts(n) \/ PeerTooBusy(n)
       \/ \E b \in KnownBy(n) :
            \/ ProcessBlockMessage(n, b) \/ CompactNotNeeded(n, b) \/ CompactTracked(n, b)
            \/ CompactReconstructed(n, b) \/ FillInvalid(n, b) \/ BlockFilled(n, b)
  \/ \E c \in Checkers : BlockChecked(c) \/ CheckSource(c)

DownloadSpec == DownloadInit /\ [][DownloadNext]_downloadVars

\* Slow peers are found out and their connections closed; the message handler
\* turns to a reliable peer, which sends what it was asked for.
DownloadFairSpec ==
  /\ DownloadSpec
  /\ \A n \in Peers \ Reliable :
       WF_downloadVars(DetectStalling(n) \/ RemoveFromNodes(n) \/ FinalizeNode(n))
  /\ \A n \in Reliable :
       /\ WF_downloadVars(InitializeNode(n))
       /\ WF_downloadVars(RequestBlock(n))
       /\ \A b \in KnownBy(n) : WF_downloadVars(FromNode(b, n) /\ ProcessBlockMessage(n, b))
----------------------------------------------------------------------------
\* The tracker and the peers' own lists agree: a block is in the list of a
\* peer exactly when the tracker has it in flight from there, once; the
\* counters count; a peer that is gone has left nothing, which is what the
\* assertions of ClearPeer are about; PeerTooBusy's loop relies on it to end.
TrackerConsistent ==
  /\ \A n \in Peers :
       /\ Range(vBlocksInFlight[n]) = {b \in Blocks : Source(b, n) \in mMapBlocksInFlight}
       /\ Len(vBlocksInFlight[n]) = Cardinality({b \in Blocks : Source(b, n) \in mMapBlocksInFlight})
       /\ nBlocksInFlight[n] = Len(vBlocksInFlight[n])
       /\ nValidHeaders[n] = nBlocksInFlight[n]
       /\ nBlocksInFlight[n] <= MaxInTransit
       /\ partialBlock[n] \subseteq Range(vBlocksInFlight[n])
  /\ mPeersWithValidatedDownloadsCount = Cardinality({n \in Peers : vBlocksInFlight[n] # <<>>})
  /\ \A s \in mMapBlocksInFlight : HasState(s.node)
  /\ \A i \in DOMAIN mMapBlockSender : HasState(mMapBlockSender[i].node)

\* Not more peers that are connected announce blocks in compact form than the
\* limit: a peer that was asked to is on the list until it is told otherwise.
AnnouncingBounded ==
  /\ Len(mNodesAnnouncing) <= MaxAnnouncing
  /\ told \subseteq Range(mNodesAnnouncing)

\* A block is requested from a second peer only when the others are slow, and
\* never from more than the limit.
ParallelFetchBounded ==
  \A b \in Blocks : Cardinality({n \in Sources(b) : status[n] # "leaving"}) <= MaxParallelFetch

\* The limits of block download hold, whichever peers connect, stall and leave.
LimitsKept == AnnouncingBounded /\ ParallelFetchBounded

\* With one reliable peer all valid blocks are stored in the end, whatever the
\* other peers promise and do not send.
DownloadCompletes == Reliable # {} => <>(Blocks \ Invalid \subseteq hasData)
============================================================================
