-------------------------- MODULE ExtractionEngine --------------------------
(***************************************************************************)
(* One call of ExtractionEngine.extract (extraction_engine/src/engine/     *)
(* extractor.ts): the provider chain, the queue of chunks, the retries,    *)
(* the split of a chunk that is too large and the repair of an answer that *)
(* is not valid, with the abort signal of the caller at any moment.        *)
(*                                                                         *)
(* The text is a row of characters 1..Size, a chunk the stretch of it from *)
(* first to last.  How it is cut is a parameter (module Chunker says how). *)
(* An answer is valid or not; merging the candidates of several chunks     *)
(* can fail, because the merged object is validated again.                 *)
(***************************************************************************)
EXTENDS Integers, Sequences

CONSTANTS
  Chains,           \* the chains of names that options or configuration ask for
  Registered,       \* the names the registry has an adapter for
  Size,             \* length of the normalized text
  Chunks,           \* the chunks of the text
  Reduced,          \* the chunks of a chunk, for half the limit
  Statuses,         \* of the errors of an adapter; 0 is an error without one
  MaxRetries,
  RepairsAllowed    \* options.repairAttempts

Stretches == [first : 1..Size, last : 1..Size]

(* The pieces are the stretch from first to last, in order, without a gap  *)
(* or an overlap.                                                          *)
Tiles(pieces, first, last) ==
  /\ Len(pieces) > 0
  /\ pieces[1].first = first
  /\ pieces[Len(pieces)].last = last
  /\ \A i \in 1..Len(pieces) : pieces[i].first <= pieces[i].last
  /\ \A i \in 1..(Len(pieces) - 1) : pieces[i + 1].first = pieces[i].last + 1

Kept == Chunks[Len(Chunks)].last   \* what the first chunking did not cut off

(* resolveChain: names without an adapter are passed over.                 *)
Resolve(names) == SelectSeq(names, LAMBDA name : name \in Registered)

ASSUME ExtractionAssumption ==
  /\ {Size, MaxRetries, RepairsAllowed} \subseteq Nat
  /\ Statuses \subseteq Nat
  /\ Chunks \in Seq(Stretches) /\ Tiles(Chunks, 1, Kept)
  /\ Reduced \in [Stretches -> Seq(Stretches)]
  /\ \A s \in Stretches : s.first <= s.last => Tiles(Reduced[s], s.first, s.last)
  /\ \A names \in Chains : Resolve(names) \in Seq(STRING)

VARIABLES
  chain,      \* providerChain
  pc,         \* "start", "call", "answer", "repair", "sleep", "merge", "end"
  p,          \* pIdx, counted from 1; behind the chain when all have failed
  queue,      \* chunkQueue
  c,          \* cIdx, counted from 1
  attempt,    \* of the chunk at hand
  recovered,  \* recoveredFrom413 of the chunk at hand
  repairs,    \* repairAttemptsUsed, of all chunks together
  candidates, \* partialCandidates: the chunks they were extracted from
  outcome,    \* "none", "aborted", "rejected", "exhausted" or "extracted"
  aborted,    \* the signal of the caller
  stray       \* requests sent after it (history)

chunkVars == <<queue, c, attempt, recovered, repairs, candidates>>
vars      == <<chain, pc, p, chunkVars, outcome, aborted, stray>>

Init ==
  /\ chain \in {Resolve(names) : names \in Chains}
  /\ pc = "start"
  /\ p = 1
  /\ queue = Chunks
  /\ c = 1
  /\ attempt = 0
  /\ recovered = FALSE
  /\ repairs = 0
  /\ candidates = <<>>
  /\ outcome = "none"
  /\ aborted = FALSE
  /\ stray = 0

(* At any moment; a little wider than the code, where some steps follow    *)
(* each other without an await.                                            *)
Abort ==
  /\ pc # "end"
  /\ ~aborted
  /\ aborted' = TRUE
  /\ UNCHANGED <<chain, pc, p, chunkVars, outcome, stray>>

Finish(result) == outcome' = result /\ pc' = "end"

(* Nothing is asked for a caller that has given up already, an input       *)
(* without text or an empty chain.                                         *)
Start ==
  /\ pc = "start"
  /\ \/ aborted /\ Finish("aborted")
     \/ ~aborted /\ Finish("rejected")
     \/ ~aborted /\ chain # <<>> /\ pc' = "call" /\ UNCHANGED outcome
  /\ UNCHANGED <<chain, p, chunkVars, aborted, stray>>

-----------------------------------------------------------------------------
(* One provider *)

(* Any error ends it, and the next provider starts afresh.                 *)
ProviderFails ==
  /\ p' = p + 1
  /\ queue' = Chunks
  /\ c' = 1
  /\ attempt' = 0
  /\ recovered' = FALSE
  /\ repairs' = 0
  /\ candidates' = <<>>
  /\ IF p < Len(chain) THEN pc' = "call" /\ UNCHANGED outcome
                       ELSE Finish("exhausted")
  /\ UNCHANGED <<chain, aborted, stray>>

(* A request goes out, whether or not the caller has given up.             *)
Request(kind) ==
  /\ pc' = kind
  /\ stray' = IF aborted THEN stray + 1 ELSE stray
  /\ UNCHANGED <<chain, p, outcome, aborted>>

(* Faulty variant: the abort is looked for once, before the first chunk.   *)
CallUnchecked ==
  /\ pc = "call"
  /\ IF aborted /\ c = 1 THEN ProviderFails ELSE Request("answer") /\ UNCHANGED chunkVars

(* The head of the retry loop.                                             *)
Call ==
  /\ pc = "call"
  /\ IF aborted THEN ProviderFails ELSE Request("answer") /\ UNCHANGED chunkVars

(* The candidate is kept and the next chunk begun.                         *)
Valid ==
  /\ pc \in {"answer", "repair"}
  /\ candidates' = Append(candidates, queue[c])
  /\ c' = c + 1
  /\ attempt' = 0
  /\ recovered' = FALSE
  /\ pc' = IF c < Len(queue) THEN "call" ELSE "merge"
  /\ UNCHANGED <<chain, p, queue, repairs, outcome, aborted, stray>>

(* An answer that does not parse, or breaks the schema, is handed back to  *)
(* be repaired, as long as the budget of the document lasts.               *)
Repair ==
  /\ pc = "answer"
  /\ repairs < RepairsAllowed
  /\ repairs' = repairs + 1
  /\ Request("repair")
  /\ UNCHANGED <<queue, c, attempt, recovered, candidates>>

Invalid ==
  /\ pc = "repair" \/ (pc = "answer" /\ repairs = RepairsAllowed)
  /\ ProviderFails

-----------------------------------------------------------------------------
(* An adapter raises *)

RETRIABLE_STATUS_CODES == {408, 409, 413, 429, 500, 502, 503, 504}

(* handleHttpResponseErrors and the catch block of complete(): a timeout   *)
(* is a 408; the abort, a broken connection, an empty answer and one that  *)
(* is not JSON have no status.                                             *)
TypedError(status) ==
  CASE status = 429 -> "RateLimitError"
    [] status = 413 -> "PayloadTooLargeError"
    [] OTHER        -> "ProviderError"

Retriable(status) ==
  TypedError(status) = "RateLimitError" \/ status \in RETRIABLE_STATUS_CODES

(* Faulty variant: a chunk that stays whole is tried again at once.        *)
WorthSplittingAlways(chunk) == Len(Reduced[chunk]) >= 1

WorthSplitting(chunk) == Len(Reduced[chunk]) > 1

Curable(status) ==
  TypedError(status) = "PayloadTooLargeError" /\ ~recovered /\ WorthSplitting(queue[c])

(* Faulty variant: the queue goes on behind the chunk that was split.      *)
SpliceSkipping(smaller) ==
  /\ queue' = SubSeq(queue, 1, c - 1) \o smaller \o SubSeq(queue, c + 1, Len(queue))
  /\ c' = c + 1

(* Faulty variant: the pieces take the place of the next chunk, too.       *)
SpliceTwo(smaller) ==
  /\ queue' = SubSeq(queue, 1, c - 1) \o smaller \o SubSeq(queue, c + 2, Len(queue))
  /\ UNCHANGED c

(* splice(cIdx, 1, ...smaller), then cIdx-- and the cIdx++ of the loop.    *)
Splice(smaller) ==
  /\ queue' = SubSeq(queue, 1, c - 1) \o smaller \o SubSeq(queue, c + 1, Len(queue))
  /\ UNCHANGED c

(* 413: the chunk gives way to its pieces, which start afresh.             *)
Split ==
  /\ pc \in {"answer", "repair"}
  /\ \E status \in Statuses : Curable(status)
  /\ Splice(Reduced[queue[c]])
  /\ attempt' = 0
  /\ recovered' = FALSE
  /\ pc' = "call"
  /\ UNCHANGED <<chain, p, repairs, candidates, outcome, aborted, stray>>

(* The same chunk again, after a sleep.                                    *)
BackOff ==
  /\ pc \in {"answer", "repair"}
  /\ attempt < MaxRetries
  /\ \E status \in Statuses :
       /\ ~Curable(status)
       /\ Retriable(status)
       /\ recovered' = (recovered \/ TypedError(status) = "PayloadTooLargeError")
  /\ attempt' = attempt + 1
  /\ pc' = "sleep"
  /\ UNCHANGED <<chain, p, queue, c, repairs, candidates, outcome, aborted, stray>>

GiveUp ==
  /\ pc \in {"answer", "repair"}
  /\ \E status \in Statuses :
       ~Curable(status) /\ (Retriable(status) => attempt = MaxRetries)
  /\ ProviderFails

(* An abort cuts the sleep short, with an error.                           *)
SleepOver ==
  /\ pc = "sleep"
  /\ pc' = "call"
  /\ UNCHANGED <<chain, p, chunkVars, outcome, aborted, stray>>

SleepAborted == pc = "sleep" /\ aborted /\ ProviderFails

(* One candidate is the result; several are merged and validated again.    *)
Merge ==
  /\ pc = "merge"
  /\ Finish("extracted")
  /\ UNCHANGED <<chain, p, chunkVars, aborted, stray>>

MergeFails == pc = "merge" /\ Len(candidates) > 1 /\ ProviderFails

-----------------------------------------------------------------------------

Work ==
  \/ Start \/ Call \/ Valid \/ Repair \/ Invalid \/ Split \/ BackOff \/ GiveUp
  \/ SleepOver \/ SleepAborted \/ Merge \/ MergeFails
Next == Work \/ Abort

(* Requests and sleeps end by their timeouts; nobody need abort.           *)
Spec == Init /\ [][Next]_vars /\ WF_vars(Work)

-----------------------------------------------------------------------------
(* Properties *)

Asking == {"call", "answer", "repair", "sleep"}

TypeOK ==
  /\ chain \in Seq(STRING)
  /\ pc \in Asking \cup {"start", "merge", "end"}
  /\ p \in 1..(Len(chain) + 1)
  /\ queue \in Seq(Stretches)
  /\ c \in 1..(Len(queue) + 1)
  /\ attempt \in 0..MaxRetries
  /\ recovered \in BOOLEAN
  /\ repairs \in 0..RepairsAllowed
  /\ candidates \in Seq(Stretches)
  /\ aborted \in BOOLEAN
  /\ stray \in Nat

(* The queue is always the text that was kept, and the chunks before the   *)
(* one at hand have given a candidate each, in the order of the text: the  *)
(* arithmetic on cIdx around the splice neither skips a chunk nor asks for *)
(* one twice.                                                              *)
EngineInv ==
  /\ TypeOK
  /\ Tiles(queue, 1, Kept)
  /\ candidates = SubSeq(queue, 1, c - 1)
  /\ pc = "start" => outcome = "none" /\ p = 1 /\ c = 1
  /\ pc \in Asking => outcome = "none" /\ p <= Len(chain) /\ c <= Len(queue)
  /\ pc = "merge" => outcome = "none" /\ p <= Len(chain) /\ c = Len(queue) + 1
  /\ pc = "end" => outcome # "none"

(* After an abort at most one more request goes out: the repair of an      *)
(* answer that was under way.  No provider is asked for another chunk.     *)
AtMostOneStray == stray <= 1

(* Every extraction ends: splits, retries and repairs together are finite, *)
(* although a split starts the count of retries again.                     *)
ExtractionEnds == <>(pc = "end")

(* The providers before the one that answered, and only they, have failed; *)
(* the result is extracted from the whole text that was kept.              *)
Fallback == INSTANCE FallbackChain WITH
  length  <- Len(chain),
  failed  <- p - 1,
  outcome <- IF outcome \in {"aborted", "rejected"} THEN "refused" ELSE outcome,
  text    <- CASE outcome # "extracted" -> "none"
               [] outcome = "extracted" /\ Tiles(candidates, 1, Kept) -> "all"
               [] OTHER -> "part"
ImplementsFallback == Fallback!Spec
=============================================================================
