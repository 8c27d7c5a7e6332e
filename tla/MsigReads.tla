----------------------------- MODULE MsigReads -----------------------------
(***************************************************************************)
(* MsigClient: reads of one proposal and its approvals, made of several    *)
(* requests to a node whose chain goes on: the proposal is removed and     *)
(* proposed again under its name, approved, and the contract is upgraded.  *)
(*                                                                         *)
(* The n-th transaction proposed is generation n; its packed bytes are the *)
(* sequence of its pieces, and a hash is represented by what is hashed.    *)
(***************************************************************************)
EXTENDS Integers, Sequences

CONSTANTS
    Reads,          \* the calls of getProposal and getProposalDetail
    Levels,         \* permission levels
    Contracts,      \* the ABIs a deployed contract may have, as sets of features
    ConfiguredStrategy,     \* the readStrategy option
    Pieces,         \* how many pieces a packed transaction has
    ScanLimit,      \* SCOPED_ROW_LIMIT
    MaxHeight,      \* how often the chain changes
    Pending, Absent

ASSUME MsigAssumption ==
    /\ Pieces \in Nat \ {0}
    /\ ScanLimit \in Nat
    /\ MaxHeight \in Nat
    /\ ConfiguredStrategy \in {"auto", "legacyTable", "readOnlyGetProposal", "chunkTable"}
    /\ Absent \notin Contracts /\ Pending # Absent
    /\ Levels # {}

VARIABLES
    contract,       \* the features of the deployed contract
    proposal,       \* its row in the proposal table
    approvals,      \* its row in one of the approval tables
    others,         \* rows of the proposer's other proposals that sort before, in each table
    neighbours,     \* and their chunk rows
    height,         \* how often the chain has changed
    capabilities,   \* the client's cached promise: Absent, Pending, or what it resolved to
    reads

ledger == <<contract, proposal, approvals, others, neighbours, height>>
msigVars == <<ledger, capabilities, reads>>

---------------------------------------------------------------------------
(* The chain.                                                              *)

Body(g) == [i \in 1..Pieces |-> <<g, i>>]

\* The chunk rows of our proposal, in the order of the table: any order would
\* do, the client sorts them.
ChunkRows == IF proposal = Absent THEN <<>>
             ELSE [i \in 1..proposal.chunk_count |-> [chunk_index |-> i, data |-> <<proposal.gen, i>>]]

\* What the first n rows of the table, shared with the neighbours, hold of it.
FirstChunkRows(n) ==
    LET m == n - neighbours
    IN  SubSeq(ChunkRows, 1, IF m < Len(ChunkRows) THEN m ELSE Len(ChunkRows))

KeyValueTables(features) == "propchunks" \in features

---------------------------------------------------------------------------
(* Capabilities of an ABI; a failed read is an ABI that is missing.        *)

Supports(features) ==
    [legacyTableRead |-> "proposal" \in features,
     readOnlyGetProposal |-> {"getproposal", "getproposal_result"} \subseteq features,
     chunkedProposals |-> {"propchunks", "chunk_fields"} \subseteq features,
     proposalHash |-> "chunk_fields" \in features,
     approveProposalHash |-> "approve_hash" \in features]

BaseFeatures == {"actions", "tables", "proposal"}

CapabilitiesFromAbi(abi) ==
    LET features == IF abi = Absent THEN {} ELSE abi
        s == Supports(features)
    IN  [supports |-> s,
         profile |-> IF ~(BaseFeatures \subseteq features) THEN "unknown"
                     ELSE IF s.readOnlyGetProposal /\ s.chunkedProposals /\ s.approveProposalHash
                          THEN "chunkedV2" ELSE "legacy",
         readStrategy |-> IF s.readOnlyGetProposal THEN "readOnlyGetProposal" ELSE "legacyTable"]

\* A promise under way is none of what it resolves to.
ASSUME CapabilitiesAssumption ==
    \A abi \in Contracts \cup {Absent} : CapabilitiesFromAbi(abi) # Pending

SelectReadStrategy(c) ==
    LET strategy == IF ConfiguredStrategy = "auto" THEN c.readStrategy ELSE ConfiguredStrategy
        supported == [s \in {"legacyTable", "readOnlyGetProposal", "chunkTable"} |->
                         CASE s = "legacyTable" -> c.supports.legacyTableRead
                           [] s = "readOnlyGetProposal" -> c.supports.readOnlyGetProposal
                           [] s = "chunkTable" -> c.supports.chunkedProposals]
    IN  IF supported[strategy] THEN strategy ELSE "FeatureError"

---------------------------------------------------------------------------
(* A read: what it waits for (step), and what it has got so far; quiet and *)
(* scanned are history: the chain has not changed since the read began,    *)
(* and a row was looked for without a bound that the contract understands. *)

Idle == [step |-> "idle", table |-> Absent, wants |-> "proposal", capabilities |-> Absent,
         profile |-> Absent, proposal |-> Absent, packed |-> <<>>, approvals |-> Absent,
         quiet |-> TRUE, scanned |-> FALSE]

\* The bounds of a profile are understood if it still is that of the contract.
Understood(profile) == profile # "unknown" /\ ((profile = "chunkedV2") <=> KeyValueTables(contract))

\* getExactScopedRow once it knows the profile: a bounded query, or a scan of
\* the scope when the encoding of a bound is not known.
Query(r, table, c) ==
    [r EXCEPT !.table = table, !.profile = c.profile,
              !.scanned = @ \/ ~Understood(c.profile),
              !.step = IF c.profile = "unknown" THEN "scan" ELSE "query"]

\* A read that asks for the capabilities in a turn that leaves them cached goes
\* on in it; otherwise it waits for the detection.
AskProfile(r, table, cached) ==
    IF cached \in {Absent, Pending}
    THEN [r EXCEPT !.table = table, !.step = "profile"]
    ELSE Query(r, table, cached)

\* The read throws: what it has got is lost.
Throw(r, why) ==
    [Idle EXCEPT !.step = why, !.wants = r.wants, !.quiet = r.quiet, !.scanned = r.scanned]

Select(r, c, cached) ==
    LET strategy == SelectReadStrategy(c)
        known == [r EXCEPT !.capabilities = c]
    IN  IF strategy = "FeatureError" THEN Throw(r, "unsupported")
        ELSE IF strategy = "readOnlyGetProposal" THEN [known EXCEPT !.step = "readonly"]
        ELSE AskProfile(known, "proposal", cached)

\* The read continues after getCapabilities.
Resume(r, c, cached) ==
    IF r.step = "capabilities" THEN Select(r, c, cached) ELSE Query(r, r.table, c)

\* createProposalDetail, or what the other operations return.
Finish(r) == [r EXCEPT !.step = "done"]

HasProposal(r, row, packed) ==
    LET got == [r EXCEPT !.proposal = row, !.packed = packed]
    IN  IF r.wants = "detail" THEN AskProfile(got, "approvals2", capabilities)
        ELSE Finish(got)

PackedTransaction(row) == IF row.chunk_count = 0 THEN Body(row.gen) ELSE <<>>

FoundProposal(r, row) ==
    IF r.capabilities.supports.chunkedProposals /\ row.chunk_count > 0
    THEN [r EXCEPT !.proposal = row, !.step = "chunks"]
    ELSE HasProposal(r, row, PackedTransaction(row))

\* The row a read is looking for, in the table it reads.
RowOf(table) ==
    IF table = "proposal" THEN proposal
    ELSE IF approvals # Absent /\ approvals.table = table THEN approvals ELSE Absent

FoundRow(r, row) ==
    IF r.table = "proposal" THEN FoundProposal(r, row)
    ELSE Finish([r EXCEPT !.approvals = row])

\* Mutant: only the modern table is read.
NoRowModernOnly(r) == IF r.table = "proposal" THEN Throw(r, "missing") ELSE Finish(r)

\* Neither the query nor the scan has it: approvals are then looked for in the
\* legacy table, and may be missing there too.
NoRow(r) ==
    CASE r.table = "proposal" -> Throw(r, "missing")
      [] r.table = "approvals2" -> AskProfile(r, "approvals", capabilities)
      [] r.table = "approvals" -> Finish(r)

\* Mutant: nobody starts the detection.
DetectingNever(asked) == capabilities

\* After a step that asks for the profile, a detection is under way.
Detecting(asked) == IF asked /\ capabilities = Absent THEN Pending ELSE capabilities

Continue(r, next) ==
    /\ reads' = [reads EXCEPT ![r] = next]
    /\ capabilities' = Detecting(next.step \in {"capabilities", "profile"})
    /\ UNCHANGED ledger

---------------------------------------------------------------------------
MsigInit ==
    /\ contract \in Contracts
    /\ proposal = Absent
    /\ approvals = Absent
    /\ others \in 0..ScanLimit
    /\ neighbours \in IF others = 0 THEN {0} ELSE 0..ScanLimit
    /\ height = 0
    /\ capabilities = Absent
    /\ reads = [r \in Reads |-> Idle]

\* getProposal and getProposalDetail.
StartRead(r, wants) ==
    /\ reads[r].step = "idle"
    /\ LET asking == [Idle EXCEPT !.step = "capabilities", !.wants = wants]
       IN  Continue(r, IF capabilities \in {Absent, Pending} THEN asking
                       ELSE Select(asking, capabilities, capabilities))

\* getApprovals.
StartApprovals(r) ==
    /\ reads[r].step = "idle"
    /\ Continue(r, AskProfile([Idle EXCEPT !.wants = "approvals"],
                              "approvals2", capabilities))

Waiting == {r \in Reads : reads[r].step \in {"capabilities", "profile"}}

\* get_abi answers, or fails.  Everybody who waits continues in this turn; an
\* unknown profile is not kept, and who needs it again starts another detection.
Detect ==
    /\ capabilities = Pending
    /\ \E abi \in {contract, Absent} :
           LET c == CapabilitiesFromAbi(abi)
               kept == IF c.profile = "unknown" THEN Absent ELSE c
           IN  /\ reads' = [r \in Reads |->
                               IF r \in Waiting THEN Resume(reads[r], c, kept) ELSE reads[r]]
               /\ capabilities' = IF \E r \in Waiting : reads'[r].step = "profile"
                                  THEN Pending ELSE kept
    /\ UNCHANGED ledger

\* What decodeReadOnlyProposalReturn makes of the trace of getproposal, which
\* assembles the chunks itself.
ReadOnlyReturn(row) == Body(row.gen)

RunGetProposal(r) ==
    /\ reads[r].step = "readonly"
    /\ proposal # Absent
    /\ Continue(r, HasProposal(reads[r], proposal, ReadOnlyReturn(proposal)))

\* The node does not run read-only transactions, or has no such endpoint.
FallBackToTables(r) ==
    /\ reads[r].step = "readonly"
    /\ Continue(r, AskProfile(reads[r], "proposal", capabilities))

QueryRow(r) ==
    /\ reads[r].step = "query"
    /\ \/ /\ Understood(reads[r].profile)
          /\ RowOf(reads[r].table) # Absent
          /\ Continue(r, FoundRow(reads[r], RowOf(reads[r].table)))
       \/ /\ Understood(reads[r].profile) => RowOf(reads[r].table) = Absent
          /\ Continue(r, [reads[r] EXCEPT !.step = "scan"])

\* The scan reads ScanLimit rows of the scope and no more.
ScannedRow(table) == IF others < ScanLimit THEN RowOf(table) ELSE Absent

ScanRows(r) ==
    /\ reads[r].step = "scan"
    /\ LET row == ScannedRow(reads[r].table)
       IN  Continue(r, IF row = Absent THEN NoRow(reads[r]) ELSE FoundRow(reads[r], row))

\* Mutant: the chunks are not counted.
AssembleAny(row, rows) == [i \in 1..Len(rows) |-> rows[i].data]

Assemble(row, rows) ==
    IF Len(rows) # row.chunk_count THEN Absent ELSE [i \in 1..Len(rows) |-> rows[i].data]

AssembleChunks(r) ==
    /\ reads[r].step = "chunks"
    /\ LET row == reads[r].proposal
           rows == FirstChunkRows(IF row.chunk_count > ScanLimit THEN row.chunk_count ELSE ScanLimit)
           packed == Assemble(row, rows)
       IN  Continue(r, IF packed = Absent THEN Throw(reads[r], "chunkCount")
                       ELSE HasProposal(reads[r], row, packed))

\* A request fails: of a read, only the answers that say that read-only
\* transactions are not available have a second way.
FailRequest(r) ==
    /\ reads[r].step \in {"readonly", "query", "scan", "chunks"}
    /\ Continue(r, Throw(reads[r], "failed"))

---------------------------------------------------------------------------
(* What others do to the chain.                                            *)

Change ==
    /\ height < MaxHeight
    /\ height' = height + 1
    /\ reads' = [r \in Reads |-> [reads[r] EXCEPT !.quiet = reads[r].step = "idle"]]
    /\ UNCHANGED <<capabilities, others, neighbours>>

Propose ==
    /\ proposal = Absent
    /\ Change
    /\ \E chunks \in IF "chunk_fields" \in contract THEN {0, Pieces} ELSE {0},
          table \in IF KeyValueTables(contract) THEN {"approvals2"} ELSE {"approvals2", "approvals"} :
           /\ proposal' = [gen |-> height', chunk_count |-> chunks,
                           trx_hash |-> IF "chunk_fields" \in contract THEN Body(height') ELSE Absent]
           /\ approvals' = [gen |-> height', table |-> table, requested |-> Levels, provided |-> {}]
    /\ UNCHANGED contract

Approve(level) ==
    /\ approvals # Absent
    /\ level \in approvals.requested
    /\ Change
    /\ approvals' = [approvals EXCEPT !.requested = @ \ {level}, !.provided = @ \cup {level}]
    /\ UNCHANGED <<contract, proposal>>

\* Cancelled or executed.
RemoveProposal ==
    /\ proposal # Absent
    /\ Change
    /\ proposal' = Absent /\ approvals' = Absent
    /\ UNCHANGED contract

Upgrade ==
    /\ ~KeyValueTables(contract)
    /\ Change
    /\ contract' \in {c \in Contracts : KeyValueTables(c)}
    /\ UNCHANGED <<proposal, approvals>>

ChainStep == Propose \/ (\E level \in Levels : Approve(level)) \/ RemoveProposal \/ Upgrade

Answer(r) ==
    RunGetProposal(r) \/ FallBackToTables(r) \/ QueryRow(r) \/ ScanRows(r) \/ AssembleChunks(r) \/ FailRequest(r)

MsigNext ==
    \/ \E r \in Reads, wants \in {"proposal", "detail"} : StartRead(r, wants)
    \/ \E r \in Reads : StartApprovals(r)
    \/ Detect
    \/ \E r \in Reads : Answer(r)
    \/ ChainStep

MsigSpec == MsigInit /\ [][MsigNext]_msigVars

\* The node answers or the request fails (a timeout of the provider).
MsigFairness == WF_msigVars(Detect) /\ \A r \in Reads : WF_msigVars(Answer(r))

FairMsigSpec == MsigSpec /\ MsigFairness

---------------------------------------------------------------------------
(* What a detail says (verifyProposalHash, getProposalStatus).             *)

HashStatus(r) ==
    IF ~r.capabilities.supports.proposalHash \/ r.packed = <<>> \/ r.proposal.trx_hash = Absent
    THEN "unavailable"
    ELSE IF r.packed = r.proposal.trx_hash THEN "verified" ELSE "mismatch"

ApprovalLists(r) ==
    IF r.approvals = Absent THEN [requested |-> {}, provided |-> {}]
    ELSE [requested |-> r.approvals.requested, provided |-> r.approvals.provided]

Outstanding(r) == ApprovalLists(r).requested \ ApprovalLists(r).provided

FullyApproved(r) == ApprovalLists(r).provided # {} /\ Outstanding(r) = {}

---------------------------------------------------------------------------
(* Properties.                                                             *)

Done(r) == reads[r].step = "done"

HasBytes(r) == Done(r) /\ reads[r].wants \in {"proposal", "detail"} /\ reads[r].packed # <<>>

(***************************************************************************)
(* However the chain changes between the requests of a read, the bytes it  *)
(* returns are one whole transaction, never a part of one or pieces of     *)
(* two; and when the hash is verified, it is the transaction of the row.   *)
(***************************************************************************)
BytesAreOneTransaction ==
    \A r \in Reads : HasBytes(r) =>
        /\ \E g \in 1..height : reads[r].packed = Body(g)
        /\ HashStatus(reads[r]) = "verified" => reads[r].packed = Body(reads[r].proposal.gen)

\* A scan stopped before it came to our rows.
Missed(r) == r.scanned /\ others >= ScanLimit

(***************************************************************************)
(* A detail that was read while nothing changed is the state of the chain: *)
(* the row, its bytes, the approvals and the status computed from them; and *)
(* a proposal that is not found is not there.  This is of every contract,  *)
(* with and without chunks, and of a profile that was cached before the    *)
(* contract was upgraded: then the bytes of a chunked proposal may be      *)
(* missing, but nothing is wrong.  Where the bounds are not understood, a  *)
(* row behind ScanLimit others is not found and may be missing too.        *)
(***************************************************************************)
QuietDetailIsTheChain ==
    \A r \in Reads : reads[r].quiet =>
        /\ Done(r) /\ reads[r].wants \in {"proposal", "detail"} =>
               /\ reads[r].proposal = proposal
               /\ reads[r].packed \in {<<>>, Body(proposal.gen)}
               /\ reads[r].packed = <<>> =>
                      proposal.chunk_count > 0 /\ ~reads[r].capabilities.supports.chunkedProposals
               /\ HashStatus(reads[r]) # "mismatch"
        /\ Done(r) /\ reads[r].wants \in {"approvals", "detail"} =>
               /\ \/ reads[r].approvals = approvals
                  \/ reads[r].approvals = Absent /\ Missed(reads[r])
               /\ FullyApproved(reads[r]) <=> reads[r].approvals # Absent /\ approvals.requested = {}
        /\ reads[r].step = "missing" => proposal = Absent \/ Missed(reads[r])

(***************************************************************************)
(* "Caches known capabilities; unknown detection is retried on the next    *)
(* read": the cached promise is being detected for somebody, or known.     *)
(***************************************************************************)
UnknownIsRetried ==
    /\ capabilities = Pending => Waiting # {}
    /\ capabilities \notin {Absent, Pending} => capabilities.profile # "unknown"
    /\ Waiting # {} => capabilities = Pending

(***************************************************************************)
(* A read that nothing disturbed shows the proposal as it is on the chain, *)
(* by capabilities that are known: the two statements above.               *)
(***************************************************************************)
QuietReadsAreTheChain == QuietDetailIsTheChain /\ UnknownIsRetried

(***************************************************************************)
(* "Capability detection is diagnostic: an ABI read failure means callers  *)
(* should see an `unknown` profile instead of losing the whole msig view": *)
(* a read is refused for the contract's features only, and not because     *)
(* get_abi failed.                                                         *)
(***************************************************************************)
UnknownKeepsTheView ==
    \A r \in Reads : reads[r].step = "unsupported" /\ reads[r].quiet =>
        SelectReadStrategy(CapabilitiesFromAbi(contract)) = "FeatureError"

\* Every read ends.
ReadsEnd == \A r \in Reads : reads[r].step # "idle" ~>
                reads[r].step \in {"done", "failed", "missing", "chunkCount", "unsupported"}
=============================================================================
